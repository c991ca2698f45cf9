----------------------- MODULE DMIntentReceiverProofs -----------------------
(***************************************************************************)
(* Proofs about DMIntentReceiver, for any number of messages, launches,    *)
(* foreign requests and crashes, both kinds of phones and all user         *)
(* interaction modes.                                                      *)
(*                                                                         *)
(* The handlers are functions on the device record, and each of their      *)
(* operators has a lemma about the record it returns.  One lemma,          *)
(* HandlerStep, says what a record must satisfy for the handler's end      *)
(* (Perform) to keep the invariant; every broadcast is then a use of it.   *)
(***************************************************************************)
EXTENDS DMIntentReceiver, FiniteSetTheorems, SequenceTheorems, TLAPS

\* A device while a handler runs.
Handled ==
    [state : States, id : 0..MaxMessages, type : {"none", "pkg0", "fota"},
     uiMode : UIModes, attempts : Nat, data : BOOLEAN, fota : FotaStates,
     alarm : BOOLEAN, notification : BOOLEAN, dcs : DataConnections,
     out : Seq(Launches)]

\* The ids that were given out, and where they are.
KnownIDs == 0..lastID \cup {InjectedID}

IDInv ==
    /\ dev.id <= lastID
    /\ dev.id # NoID => dev.type # "none" /\ dev.id \notin done
    /\ done \subseteq KnownIDs
    /\ \A i \in DOMAIN launched :
           /\ launched[i].id \in KnownIDs
           /\ launched[i].type = "tree" => launched[i].id = NoID
    /\ dev.attempts <= Len(launched)

\* A report that waits for a network has been asked for and was not sent.
Reports == {n \in DOMAIN launched : launched[n].type = "notify"}
Owed(d) == IF d.fota = "report" THEN 1 ELSE 0
ReportInv == Cardinality(Reports) + Owed(dev) <= foreign

IInv == TypeOK /\ IDInv /\ ReportInv /\ NotForgotten

----------------------------------------------------------------------------
(* What the operators of the handlers return.                              *)

\* x is what became of d, a device with a message and nothing asked for: the
\* message is the same or gone, and a session for it was asked for or not.
Taken(d, x) ==
    /\ x \in Handled
    /\ x.id = NoID \/ (x.id = d.id /\ x.type = d.type)
    /\ \/ x.out = <<>> /\ x.attempts <= d.attempts
       \/ x.out = <<[id |-> d.id, type |-> d.type]>>
          /\ x.attempts = d.attempts + 1
    /\ x.fota = "report" => d.fota = "report"

Awake(x) == x.state = "idle" \/ x.alarm

LEMMA DeviceHandled == ASSUME TypeOK PROVE dev \in Handled /\ dev.out = <<>>
BY DEF TypeOK, Device, Handled

LEMMA Bounds ==
    /\ MaxMessages \in Nat /\ MaxForeign \in Nat /\ MaxLaunches \in Nat
    /\ MaxCrashes \in Nat /\ NoID = 0 /\ InjectedID = MaxMessages + 1
BY BoundsAssumption DEF NoID, InjectedID

LEMMA OffTyped == Off \in DataConnections
BY DEF Off, DataConnections

LEMMA Cleaned ==
    ASSUME NEW d \in Handled
    PROVE  /\ CleanAll(d) \in Handled /\ CleanAll(d).id = NoID
           /\ CleanAll(d).state = "idle" /\ CleanAll(d).out = d.out
           /\ CleanAll(d).attempts = 0 /\ CleanAll(d).fota = d.fota
<1>1. NoID \in 0..MaxMessages /\ 0 \in Nat /\ "idle" \in States /\ "none" \in UIModes
  BY Bounds DEF States, UIModes
<1> QED
  BY <1>1 DEF CleanAll, Handled

LEMMA CleanTaken ==
    ASSUME NEW d \in Handled, d.out = <<>>
    PROVE  Taken(d, CleanAll(d)) /\ Awake(CleanAll(d))
BY Cleaned DEF Taken, Awake, Handled

LEMMA StateSet ==
    ASSUME NEW d \in Handled, NEW s \in States
    PROVE  /\ SetState(d, s) \in Handled /\ SetState(d, s).id = d.id
           /\ SetState(d, s).type = d.type /\ SetState(d, s).out = d.out
           /\ SetState(d, s).attempts = d.attempts
           /\ SetState(d, s).fota = d.fota /\ SetState(d, s).state = s
           /\ SetState(d, s).alarm = d.alarm
BY DEF SetState, Handled

LEMMA Subscribed ==
    ASSUME NEW d \in Handled
    PROVE  /\ Subscribe(d) \in Handled /\ Subscribe(d).id = d.id
           /\ Subscribe(d).type = d.type /\ Subscribe(d).out = d.out
           /\ Subscribe(d).attempts = d.attempts
           /\ Subscribe(d).fota = d.fota /\ Subscribe(d).state = d.state
           /\ Subscribe(d).alarm
BY DEF Subscribe, Handled

LEMMA DataConnectionStarted ==
    ASSUME NEW d \in Handled, NEW e \in Environments,
           NEW x, x = StartDataConnection(d, e)
    PROVE  /\ x \in Handled /\ x.id = d.id /\ x.type = d.type /\ x.out = d.out
           /\ x.attempts = d.attempts /\ x.fota = d.fota /\ x.alarm
<1> DEFINE s == Subscribe(d)
           c == [Off EXCEPT !.on = TRUE, !.waiting = {e.net}]
<1>1. /\ s \in Handled /\ s.id = d.id /\ s.type = d.type /\ s.out = d.out
      /\ s.attempts = d.attempts /\ s.fota = d.fota /\ s.alarm
  BY Subscribed
<1>2. c \in DataConnections
  BY OffTyped DEF Environments, DataConnections
<1>3. x = s \/ x = [s EXCEPT !.dcs = c]
  BY DEF StartDataConnection
<1> HIDE DEF s, c
<1> QED
  BY <1>1, <1>2, <1>3 DEF Handled

LEMMA FotaApnStopped ==
    ASSUME NEW d \in Handled, NEW x, x = StopFotaApn(d)
    PROVE  /\ x \in Handled /\ x.id = d.id /\ x.type = d.type /\ x.out = d.out
           /\ x.attempts = d.attempts /\ x.fota \in {d.fota, "init"}
           /\ x.alarm = d.alarm /\ x.state = d.state
BY OffTyped DEF StopFotaApn, Handled, FotaStates

LEMMA SessionStarted ==
    ASSUME NEW d \in Handled, d.out = <<>>, d.type # "none",
           NEW mData \in BOOLEAN, NEW x, x = StartDMSession(d, mData)
    PROVE  Taken(d, x) /\ Awake(x)
<1>1. CASE d.type = "pkg0" /\ ~mData /\ ~d.data
  BY <1>1, CleanTaken DEF StartDMSession
<1>2. CASE ~(d.type = "pkg0" /\ ~mData /\ ~d.data)
  <2> DEFINE l == [id |-> d.id, type |-> d.type]
             y == [d EXCEPT !.state = "in_progress", !.attempts = @ + 1,
                            !.out = <<l>>]
  <2>1. l \in Launches
    BY Bounds DEF Launches, Types, Handled
  <2>2. <<l>> \in Seq(Launches)
    BY <2>1
  <2>3. x = Subscribe(y)
    BY <1>2 DEF StartDMSession
  <2> DEFINE n == d.attempts + 1
             q == <<l>>
  <2>4. n \in Nat /\ q \in Seq(Launches) /\ "in_progress" \in States
    BY <2>2 DEF Handled, States
  <2> HIDE DEF l, n, q
  <2>5. y = [d EXCEPT !.state = "in_progress", !.attempts = n, !.out = q]
    BY DEF n, q
  <2> HIDE DEF y
  <2>6. /\ y \in Handled /\ y.id = d.id /\ y.type = d.type /\ y.out = q
        /\ y.attempts = n /\ y.fota = d.fota
    BY <2>4, <2>5 DEF Handled
  <2>7. /\ y \in Handled /\ y.id = d.id /\ y.type = d.type /\ y.out = <<l>>
        /\ y.attempts = d.attempts + 1 /\ y.fota = d.fota
    BY <2>6 DEF n, q
  <2> QED
    BY <2>3, <2>7, Subscribed DEF Taken, Awake, l
<1> QED
  BY <1>1, <1>2

LEMMA ProcessStarted ==
    ASSUME NEW d \in Handled, d.out = <<>>, d.type # "none",
           NEW mData \in BOOLEAN, NEW e \in Environments,
           NEW x, x = StartProcess(d, mData, e)
    PROVE  Taken(d, x) /\ (Awake(x) \/ e.ecb)
<1> DEFINE a == SetState(d, "approved")
<1>1. /\ a \in Handled /\ a.id = d.id /\ a.type = d.type /\ a.out = d.out
      /\ a.attempts = d.attempts /\ a.fota = d.fota
  BY StateSet DEF States
<1>2. CASE e.ecb
  BY <1>2 DEF StartProcess, Taken, Handled
<1>3. CASE ~e.ecb /\ e.wifi
  <2>1. x = StartDMSession(a, mData)
    BY <1>3 DEF StartProcess
  <2> HIDE DEF a
  <2>2. Taken(a, x) /\ Awake(x)
    BY <1>1, <2>1, SessionStarted
  <2> QED
    BY <1>1, <2>2 DEF Taken
<1>4. CASE ~e.ecb /\ ~e.wifi
  <2> DEFINE b == [a EXCEPT !.fota = "start"]
  <2>1. x = StartDataConnection(b, e)
    BY <1>4 DEF StartProcess
  <2> HIDE DEF a
  <2>2. /\ b \in Handled /\ b.id = d.id /\ b.type = d.type /\ b.out = d.out
        /\ b.attempts = d.attempts /\ b.fota = "start"
    BY <1>1 DEF Handled, FotaStates
  <2> HIDE DEF b
  <2>3. /\ x \in Handled /\ x.id = d.id /\ x.type = d.type /\ x.out = d.out
        /\ x.attempts = d.attempts /\ x.fota = "start" /\ x.alarm
    BY <2>1, <2>2, DataConnectionStarted
  <2> QED
    BY <2>3 DEF Taken, Awake, Handled
<1> QED
  BY <1>2, <1>3, <1>4

LEMMA Preprocessed ==
    ASSUME NEW d \in Handled, d.out = <<>>, d.type # "none",
           NEW state \in States, NEW mData \in BOOLEAN, NEW e \in Environments,
           NEW x, x = Preprocess(d, state, mData, e)
    PROVE  Taken(d, x) /\ (Awake(x) \/ e.ecb)
<1>1. CASE d.uiMode = "confirm" /\ state # "approved"
  <2> DEFINE p == [d EXCEPT !.state = "pending", !.notification = TRUE]
  <2>1. x = Subscribe(p)
    BY <1>1 DEF Preprocess
  <2>2. /\ p \in Handled /\ p.id = d.id /\ p.type = d.type /\ p.out = d.out
        /\ p.attempts = d.attempts /\ p.fota = d.fota
    BY DEF Handled, States
  <2> HIDE DEF p
  <2> QED
    BY <2>1, <2>2, Subscribed DEF Taken, Awake, Handled
<1>2. CASE ~(d.uiMode = "confirm" /\ state # "approved")
  <2> DEFINE a == SetState(d, state)
  <2>1. /\ a \in Handled /\ a.id = d.id /\ a.type = d.type /\ a.out = d.out
        /\ a.attempts = d.attempts /\ a.fota = d.fota
    BY StateSet
  <2>2. x = StartProcess(a, mData, e)
    BY <1>2 DEF Preprocess
  <2> HIDE DEF a
  <2>3. Taken(a, x) /\ (Awake(x) \/ e.ecb)
    BY <2>1, <2>2, ProcessStarted
  <2> QED
    BY <2>1, <2>3 DEF Taken
<1> QED
  BY <1>1, <1>2

----------------------------------------------------------------------------
(* The end of a handler.                                                   *)

\* What a handler may ask the service for: a session for the saved message,
\* which is not too old, one for a new message, or a request without one.
Allowed(l) ==
    /\ l.type = "tree" => l.id = NoID
    /\ \/ l.id \in {NoID, InjectedID}
       \/ l.id = dev.id /\ ~expired
       \/ l.id = lastID + 1 /\ lastID' = lastID + 1

LEMMA SeqOfMore == ASSUME NEW A, NEW B, A \subseteq B, NEW s \in Seq(A) PROVE s \in Seq(B)
OBVIOUS

LEMMA LaunchStep ==
    ASSUME TypeOK, NEW q \in Seq(Launches), Launch(q)
    PROVE  /\ launched' \in Seq(Launches) /\ Len(launched') <= MaxLaunches
           /\ Len(launched') = Len(launched) + Len(q)
           /\ accepted' = 1..Len(launched')
           /\ pending' \in Seq(accepted') /\ active' \in accepted' \cup {0}
           /\ busy' \in BOOLEAN /\ tree' \in BOOLEAN
           /\ answers' \in Seq([req : accepted', ret : {"success", "fail"}])
           /\ answers' = answers
           /\ \A i \in 1..Len(launched) : launched'[i] = launched[i]
           /\ \A i \in 1..Len(q) : launched'[Len(launched) + i] = q[i]
           /\ DOMAIN launched' = 1..Len(launched) + Len(q)
<1> DEFINE n == Len(launched)
           new == [i \in DOMAIN q |-> n + i]
           S == 1..n + Len(q)
<1>1. /\ n + Len(q) <= MaxLaunches
      /\ launched' = launched \o q
      /\ accepted' = accepted \cup {new[i] : i \in DOMAIN new}
      /\ pending' = pending \o new
      /\ tree' = (tree \/ q # <<>>)
      /\ UNCHANGED <<active, busy, answers>>
  BY DEF Launch
<1>2. /\ launched \in Seq(Launches) /\ accepted = 1..n /\ pending \in Seq(accepted)
      /\ active \in accepted \cup {0} /\ n \in Nat /\ Len(q) \in Nat
      /\ answers \in Seq([req : accepted, ret : {"success", "fail"}])
  BY LenProperties DEF TypeOK
<1>3. /\ launched' \in Seq(Launches) /\ Len(launched') = n + Len(q)
      /\ \A i \in 1..n + Len(q) : launched'[i] = IF i <= n THEN launched[i] ELSE q[i - n]
  BY <1>1, <1>2, ConcatProperties
<1>4. DOMAIN q = 1..Len(q)
  BY LenProperties
<1>5. new \in Seq(S)
  BY <1>2, <1>4
<1>6. accepted' = S
  <2>1. DOMAIN new = 1..Len(q) /\ \A i \in 1..Len(q) : new[i] = n + i
    BY <1>4
  <2>2. {new[i] : i \in DOMAIN new} = n + 1..n + Len(q)
    <3>1. \A k \in n + 1..n + Len(q) : k - n \in 1..Len(q) /\ k = n + (k - n)
      BY <1>2
    <3>2. \A i \in 1..Len(q) : n + i \in n + 1..n + Len(q)
      BY <1>2
    <3> HIDE DEF new, n
    <3> QED
      BY <2>1, <3>1, <3>2
  <2> QED
    BY <1>1, <1>2, <2>2
<1>7. pending' \in Seq(S)
  <2>1. pending \in Seq(S)
    BY <1>2
  <2> HIDE DEF new, S
  <2> QED
    BY <1>1, <1>5, <2>1, ConcatProperties
<1>8. answers' \in Seq([req : S, ret : {"success", "fail"}])
  <2> DEFINE A == [req : accepted, ret : {"success", "fail"}]
             B == [req : S, ret : {"success", "fail"}]
  <2>1. A \subseteq B
    BY <1>2
  <2>2. answers' \in Seq(A)
    BY <1>1, <1>2
  <2> HIDE DEF A, B
  <2>3. answers' \in Seq(B)
    BY <2>1, <2>2, SeqOfMore
  <2> QED
    BY <2>3 DEF B
<1>9. active' \in S \cup {0}
  BY <1>1, <1>2
<1>10. busy' \in BOOLEAN /\ tree' \in BOOLEAN
  BY <1>1 DEF TypeOK
<1>11. DOMAIN launched' = S
  BY <1>3, LenProperties
<1>12. /\ \A i \in 1..n : launched'[i] = launched[i]
       /\ \A i \in 1..Len(q) : launched'[n + i] = q[i]
  BY SMTT(30), <1>2, <1>3
<1> QED
  BY <1>1, <1>3, <1>6, <1>7, <1>8, <1>9, <1>10, <1>11, <1>12

\* What the action properties say of a step.
DoneStep == \A n \in NewLaunches : launched'[n].id \notin done \cap SavedIDs
FreshStep ==
    \A n \in NewLaunches : launched'[n].id \in SavedIDs \cap {dev.id} => ~expired
Kept == IInv' /\ DoneStep /\ FreshStep

\* x sends a report or does not, and owes one or not: the requests for reports
\* cover both.
Reported(x) ==
    \/ /\ \A i \in DOMAIN x.out : x.out[i].type # "notify"
       /\ Owed(x) <= Owed(dev) + (foreign' - foreign)
    \/ /\ x.out = <<[id |-> NoID, type |-> "notify"]>>
       /\ Owed(x) + 1 <= Owed(dev) + (foreign' - foreign)

LEMMA ReportsFinite ==
    ASSUME TypeOK
    PROVE  /\ IsFiniteSet(Reports) /\ Cardinality(Reports) \in Nat
           /\ Reports \subseteq 1..Len(launched) /\ Len(launched) \in Nat
<1>1. DOMAIN launched = 1..Len(launched) /\ Len(launched) \in Nat
  BY LenProperties DEF TypeOK
<1>2. Reports \subseteq 1..Len(launched)
  BY <1>1 DEF Reports
<1>3. IsFiniteSet(1..Len(launched))
  BY <1>1, FS_Interval
<1> QED
  BY <1>1, <1>2, <1>3, FS_Subset, FS_CardinalityType

LEMMA ReportStep ==
    ASSUME IInv, NEW x \in Handled, Launch(x.out), Reported(x),
           dev' = [x EXCEPT !.out = <<>>],
           foreign \in Nat, foreign' \in Nat
    PROVE  ReportInv'
<1> DEFINE q == x.out
           n == Len(launched)
<1>1. q \in Seq(Launches)
  BY DEF Handled
<1>2. /\ DOMAIN launched' = 1..n + Len(q)
      /\ \A i \in 1..n : launched'[i] = launched[i]
      /\ \A i \in 1..Len(q) : launched'[n + i] = q[i]
  BY <1>1, LaunchStep DEF IInv
<1>3. /\ IsFiniteSet(Reports) /\ Cardinality(Reports) \in Nat
      /\ Reports \subseteq 1..n /\ n \in Nat
  BY ReportsFinite DEF IInv
<1>4. DOMAIN q = 1..Len(q) /\ Len(q) \in Nat /\ DOMAIN launched = 1..n
  BY <1>1, LenProperties DEF IInv, TypeOK
<1>5. Owed(dev') = Owed(x) /\ Owed(x) \in Nat /\ Owed(dev) \in Nat
  BY DEF Owed, Handled
<1>6. Cardinality(Reports) + Owed(dev) <= foreign
  BY DEF IInv, ReportInv
<1>7. CASE /\ \A i \in DOMAIN q : q[i].type # "notify"
           /\ Owed(x) <= Owed(dev) + (foreign' - foreign)
  <2>1. ASSUME NEW i \in 1..n + Len(q), launched'[i].type = "notify"
        PROVE  i \in 1..n
    <3>1. CASE i > n
      <4>1. i - n \in 1..Len(q) /\ i = n + (i - n)
        BY <1>3, <1>4, <3>1
      <4>2. launched'[i] = q[i - n]
        BY <1>2, <4>1
      <4> QED
        BY <1>4, <1>7, <2>1, <4>1, <4>2
    <3> QED
      BY <1>3, <1>4, <3>1
  <2>2. \A i \in 1..n : i \in 1..n + Len(q)
    BY <1>3, <1>4
  <2> HIDE DEF n, q
  <2>3. Reports' = Reports
    BY <1>2, <1>4, <2>1, <2>2 DEF Reports
  <2> QED
    BY <1>3, <1>5, <1>6, <1>7, <2>3 DEF ReportInv
<1>8. CASE /\ q = <<[id |-> NoID, type |-> "notify"]>>
           /\ Owed(x) + 1 <= Owed(dev) + (foreign' - foreign)
  <2>1. Len(q) = 1 /\ q[1].type = "notify"
    BY <1>8
  <2>2. launched'[n + 1] = q[1]
    BY <1>2, <2>1
  <2>3. 1..n + 1 = 1..n \cup {n + 1}
    BY <1>3
  <2>4. DOMAIN launched' = 1..n \cup {n + 1} /\ launched'[n + 1].type = "notify"
    BY <1>2, <2>1, <2>2, <2>3
  <2> HIDE DEF n, q
  <2>5. Reports' = Reports \cup {n + 1}
    BY <1>2, <1>4, <2>4 DEF Reports
  <2>6. n + 1 \notin Reports
    BY <1>3
  <2>7. Cardinality(Reports)' = Cardinality(Reports) + 1
    BY <1>3, <2>5, <2>6, FS_AddElement
  <2> QED
    BY <1>3, <1>5, <1>6, <1>8, <2>7 DEF ReportInv
<1> QED
  BY <1>7, <1>8 DEF Reported

\* The handler ends with the device x, which asked for x.out.
LEMMA HandlerStep ==
    ASSUME IInv, NEW x \in Handled, NEW ecb \in BOOLEAN, Perform(x, ecb),
           \A i \in DOMAIN x.out : Allowed(x.out[i]), Reported(x),
           x.attempts <= Len(launched) + Len(x.out),
           lastID' \in {lastID, lastID + 1}, lastID' <= MaxMessages,
           x.id <= lastID', x.id # NoID => x.type # "none" /\ x.id \notin done',
           x.state # "idle" => x.alarm \/ booting' \/ held \/ ecb,
           handled' \in 0..Len(answers), done' \subseteq KnownIDs,
           ready' \in BOOLEAN, dialog' \in BOOLEAN, confirm' \in BOOLEAN,
           initialWapPending' \in BOOLEAN, booting' \in BOOLEAN,
           foreign' \in 0..MaxForeign, crashes' = crashes
    PROVE  Kept
<1> DEFINE q == x.out
           n == Len(launched)
           m == Len(q)
<1>1. /\ dev' = [x EXCEPT !.out = <<>>] /\ Launch(q)
      /\ held' = ((held \/ ecb) /\ ~x.alarm /\ x.state # "idle")
  BY DEF Perform
<1>2. q \in Seq(Launches) /\ DOMAIN q = 1..m /\ m \in Nat
  BY LenProperties DEF Handled
<1>3. /\ launched' \in Seq(Launches) /\ Len(launched') <= MaxLaunches
      /\ Len(launched') = n + m
      /\ accepted' = 1..Len(launched')
      /\ pending' \in Seq(accepted') /\ active' \in accepted' \cup {0}
      /\ busy' \in BOOLEAN /\ tree' \in BOOLEAN
      /\ answers' \in Seq([req : accepted', ret : {"success", "fail"}])
      /\ answers' = answers
      /\ \A i \in 1..n : launched'[i] = launched[i]
      /\ \A i \in 1..m : launched'[n + i] = q[i]
      /\ DOMAIN launched' = 1..n + m
  BY <1>1, <1>2, LaunchStep DEF IInv
<1>4. DOMAIN launched = 1..n /\ n \in Nat /\ launched \in Seq(Launches)
  BY LenProperties DEF IInv, TypeOK
<1>5. lastID \in Nat /\ lastID' \in Nat /\ lastID <= lastID' /\ lastID <= MaxMessages
      /\ MaxMessages \in Nat
  BY Bounds DEF IInv, TypeOK
<1>6. /\ dev'.id = x.id /\ dev'.type = x.type /\ dev'.attempts = x.attempts
      /\ dev'.state = x.state /\ dev'.alarm = x.alarm /\ dev'.out = <<>>
  BY <1>1 DEF Handled
<1>7. dev' \in Device
  <2>1. x.attempts \in 0..MaxLaunches
    BY <1>2, <1>3, <1>4, Bounds DEF Handled
  <2>2. <<>> \in Seq(Launches)
    OBVIOUS
  <2> QED
    BY <1>1, <2>1, <2>2 DEF Handled, Device
<1>8. TypeOK'
  <2>1. {old', expired', rebooted', held'} \subseteq BOOLEAN
    <3>1. {old, expired, rebooted} \subseteq BOOLEAN
      BY DEF IInv, TypeOK
    <3>2. {old', expired', rebooted'} \subseteq BOOLEAN
      BY <3>1 DEF Perform, clock
    <3>3. held' \in BOOLEAN
      BY <1>1
    <3> QED
      BY <3>2, <3>3
  <2>2. {ready', dialog', confirm', tree', initialWapPending', booting'}
            \subseteq BOOLEAN
    BY <1>3
  <2>3. lastID' \in 0..MaxMessages
    BY <1>5
  <2>4. done' \subseteq 0..InjectedID
    BY <1>5, Bounds DEF KnownIDs
  <2>5. crashes' \in 0..MaxCrashes
    BY DEF IInv, TypeOK
  <2> QED
    BY <1>3, <1>6, <1>7, <2>1, <2>2, <2>3, <2>4, <2>5 DEF TypeOK
<1>9. KnownIDs \subseteq KnownIDs' /\ NoID \in KnownIDs /\ InjectedID \in KnownIDs
      /\ (lastID' = lastID + 1 => lastID + 1 \in KnownIDs')
  BY <1>5, Bounds DEF KnownIDs
<1>10. \A i \in 1..m : /\ q[i].type = "tree" => q[i].id = NoID
                       /\ q[i].id \in KnownIDs'
  <2>1. dev.id \in KnownIDs
    BY <1>5, Bounds DEF IInv, IDInv, TypeOK, Device, KnownIDs
  <2> QED
    BY <1>2, <1>9, <2>1 DEF Allowed
<1>11. ASSUME NEW i \in 1..n + m
       PROVE  /\ launched'[i].id \in KnownIDs'
              /\ launched'[i].type = "tree" => launched'[i].id = NoID
  <2>1. CASE i <= n
    <3>1. i \in 1..n /\ launched'[i] = launched[i]
      BY <1>2, <1>3, <1>4, <2>1
    <3> QED
      BY <1>4, <1>9, <3>1 DEF IInv, IDInv
  <2>2. CASE ~(i <= n)
    <3>1. i - n \in 1..m /\ i = n + (i - n)
      BY <1>2, <1>4, <2>2
    <3>2. launched'[i] = q[i - n]
      BY <1>3, <3>1
    <3> QED
      BY <1>10, <3>1, <3>2
  <2> QED
    BY <2>1, <2>2
<1>12. IDInv'
  <2>1. done' \subseteq KnownIDs'
    BY <1>9
  <2> QED
    BY <1>3, <1>6, <1>11, <2>1 DEF IDInv
<1>13. ReportInv'
  <2>1. foreign \in Nat /\ foreign' \in Nat
    BY Bounds DEF IInv, TypeOK
  <2> QED
    BY <1>1, <2>1, ReportStep
<1>14. NotForgotten'
  BY <1>1, <1>6 DEF NotForgotten
<1>15. NewLaunches \subseteq {n + i : i \in 1..m}
  <2> SUFFICES ASSUME NEW k \in NewLaunches
               PROVE  \E i \in 1..m : k = n + i
    OBVIOUS
  <2>1. k \in 1..n + m /\ k \notin 1..n
    BY <1>3, <1>4 DEF NewLaunches
  <2>2. k - n \in 1..m /\ k = n + (k - n)
    BY <1>2, <1>4, <2>1
  <2> QED
    BY <2>2
<1>16. ASSUME NEW i \in 1..m
       PROVE  /\ q[i].id \notin done \cap SavedIDs
              /\ q[i].id \in SavedIDs \cap {dev.id} => ~expired
  <2>1. Allowed(q[i])
    BY <1>2
  <2>2. dev.id \in Nat /\ dev.id <= lastID /\ done \subseteq KnownIDs
        /\ (dev.id # NoID => dev.id \notin done)
    <3>1. dev.id \in 0..MaxMessages
      BY DEF IInv, TypeOK, Device
    <3> QED
      BY <1>5, <3>1 DEF IInv, IDInv
  <2>3. CASE q[i].id \in {NoID, InjectedID}
    BY <1>5, <2>3, Bounds DEF SavedIDs
  <2>4. CASE q[i].id = dev.id /\ ~expired
    BY <2>2, <2>4, Bounds DEF SavedIDs
  <2>5. CASE q[i].id = lastID + 1 /\ lastID' = lastID + 1
    BY <1>5, <2>2, <2>5, Bounds DEF SavedIDs, KnownIDs
  <2> QED
    BY <2>1, <2>3, <2>4, <2>5 DEF Allowed
<1>17. DoneStep /\ FreshStep
  <2>1. ASSUME NEW k \in NewLaunches
        PROVE  /\ launched'[k].id \notin done \cap SavedIDs
               /\ launched'[k].id \in SavedIDs \cap {dev.id} => ~expired
    <3>1. PICK i \in 1..m : k = n + i
      BY <1>15
    <3>2. launched'[k] = q[i]
      BY <1>3, <3>1
    <3> QED
      BY <1>16, <3>2
  <2> QED
    BY <2>1 DEF DoneStep, FreshStep
<1> QED
  BY <1>8, <1>12, <1>13, <1>14, <1>17 DEF IInv, Kept

\* The variables that are no business of Perform have their types.
OtherTypes ==
    /\ ready' \in BOOLEAN /\ dialog' \in BOOLEAN /\ confirm' \in BOOLEAN
    /\ initialWapPending' \in BOOLEAN /\ booting' \in BOOLEAN
    /\ crashes' = crashes

LEMMA Known ==
    ASSUME IInv
    PROVE  /\ lastID \in 0..MaxMessages /\ done \subseteq KnownIDs
           /\ handled \in 0..Len(answers) /\ foreign \in 0..MaxForeign
           /\ ready \in BOOLEAN /\ dialog \in BOOLEAN /\ confirm \in BOOLEAN
           /\ initialWapPending \in BOOLEAN /\ booting \in BOOLEAN
           /\ Len(launched) \in Nat /\ Len(<<>>) = 0
           /\ DOMAIN <<>> = {}
<1>1. /\ lastID \in 0..MaxMessages /\ done \subseteq KnownIDs
      /\ handled \in 0..Len(answers) /\ foreign \in 0..MaxForeign
  BY DEF IInv, TypeOK, IDInv
<1>2. {ready, dialog, confirm, tree, initialWapPending, booting} \subseteq BOOLEAN
  BY DEF IInv, TypeOK
<1>3. Len(launched) \in Nat
  BY LenProperties DEF IInv, TypeOK
<1> QED
  BY <1>1, <1>2, <1>3

LEMMA Saved ==
    ASSUME IInv
    PROVE  /\ dev \in Handled /\ dev.out = <<>> /\ dev.id \in 0..MaxMessages
           /\ dev.id <= lastID
           /\ dev.id # NoID => dev.type # "none" /\ dev.id \notin done
           /\ dev.attempts <= Len(launched)
           /\ GetState(dev) \in States
           /\ (GetState(dev) = "idle" <=> dev.state = "idle")
           /\ dev.state # "idle" => dev.alarm \/ booting \/ held
BY DeviceHandled DEF IInv, IDInv, TypeOK, Device, GetState, States, NotForgotten

\* A handler that asks for nothing and leaves the message, or drops it.
LEMMA SilentStep ==
    ASSUME IInv, NEW x \in Handled, NEW ecb \in BOOLEAN, Perform(x, ecb),
           x.out = <<>>, x.attempts <= dev.attempts \/ x.attempts = 0,
           Owed(x) <= Owed(dev) + (foreign' - foreign),
           \/ x.id = NoID /\ x.state = "idle"
           \/ x.id = dev.id /\ x.type = dev.type /\ dev.id \notin done' \ {NoID},
           x.state # "idle" => x.alarm \/ booting' \/ held \/ ecb,
           UNCHANGED lastID, handled' \in 0..Len(answers),
           done' \subseteq KnownIDs, foreign' \in 0..MaxForeign, OtherTypes
    PROVE  Kept
<1>1. /\ \A i \in DOMAIN x.out : Allowed(x.out[i])
      /\ \A i \in DOMAIN x.out : x.out[i].type # "notify"
  BY Known
<1>2. Reported(x)
  BY <1>1 DEF Reported
<1>3. x.attempts <= Len(launched) + Len(x.out)
  BY Known, Saved DEF Handled
<1>4. x.id <= lastID' /\ (x.id # NoID => x.type # "none" /\ x.id \notin done')
  BY Known, Saved, Bounds
<1>5. lastID' \in {lastID, lastID + 1} /\ lastID' <= MaxMessages
  BY Known, Bounds
<1> QED
  BY <1>1, <1>2, <1>3, <1>4, <1>5, HandlerStep DEF OtherTypes

\* A handler that takes up the message of the device d.
LEMMA TakenStep ==
    ASSUME IInv, NEW d \in Handled, d.out = <<>>, d.type # "none",
           d.attempts <= Len(launched), Owed(d) <= Owed(dev),
           \/ d.id = dev.id /\ d.id # NoID /\ ~expired /\ lastID' = lastID
           \/ d.id = lastID + 1 /\ lastID' = lastID + 1 /\ lastID < MaxMessages,
           NEW x, Taken(d, x), NEW ecb \in BOOLEAN, Perform(x, ecb),
           Awake(x) \/ ecb, UNCHANGED <<handled, done, foreign>>, OtherTypes
    PROVE  Kept
<1>1. x \in Handled /\ d.id \in 0..MaxMessages /\ lastID \in 0..MaxMessages
      /\ d.attempts \in Nat /\ x.attempts \in Nat
  BY Known DEF Taken, Handled
<1>2. \A i \in DOMAIN x.out : Allowed(x.out[i]) /\ x.out[i].type # "notify"
  <2>1. CASE x.out = <<>>
    BY <2>1
  <2>2. CASE x.out = <<[id |-> d.id, type |-> d.type]>>
    <3>1. d.type \in {"pkg0", "fota"}
      BY DEF Handled
    <3>2. DOMAIN x.out = {1} /\ x.out[1].id = d.id /\ x.out[1].type = d.type
      BY <2>2
    <3> QED
      BY <3>1, <3>2 DEF Allowed
  <2> QED
    BY <2>1, <2>2 DEF Taken
<1>3. Owed(x) <= Owed(dev) + (foreign' - foreign)
  <2>1. Owed(x) <= Owed(d) /\ foreign \in Nat
    BY Known, Bounds DEF Taken, Owed
  <2> QED
    BY <2>1 DEF Owed
<1>4. Reported(x)
  BY <1>2, <1>3 DEF Reported
<1>5. x.attempts <= Len(launched) + Len(x.out)
  <2>1. CASE x.out = <<>> /\ x.attempts <= d.attempts
    BY <1>1, <2>1, Known
  <2>2. CASE x.out = <<[id |-> d.id, type |-> d.type]>>
             /\ x.attempts = d.attempts + 1
    <3>1. Len(x.out) = 1
      BY <2>2
    <3> QED
      BY <1>1, <2>2, <3>1, Known
  <2> QED
    BY <2>1, <2>2 DEF Taken
<1>6. lastID' \in {lastID, lastID + 1} /\ lastID' <= MaxMessages
  BY <1>1, Bounds
<1>7. x.id <= lastID' /\ (x.id # NoID => x.type # "none" /\ x.id \notin done')
  <2>1. CASE x.id = NoID
    BY <1>1, <1>6, <2>1, Bounds
  <2>2. CASE x.id = d.id /\ d.id = dev.id /\ x.type = d.type /\ lastID' = lastID
    BY <2>2, Saved
  <2>3. CASE x.id = d.id /\ d.id = lastID + 1 /\ x.type = d.type
             /\ lastID' = lastID + 1 /\ lastID < MaxMessages
    BY <1>1, <2>3, Known, Bounds DEF KnownIDs
  <2> QED
    BY <2>1, <2>2, <2>3 DEF Taken
<1>8. handled' \in 0..Len(answers) /\ done' \subseteq KnownIDs
      /\ foreign' \in 0..MaxForeign
  BY Known
<1>9. x.state # "idle" => x.alarm \/ booting' \/ held \/ ecb
  BY DEF Awake
<1> QED
  BY <1>1, <1>2, <1>4, <1>5, <1>6, <1>7, <1>8, <1>9, HandlerStep DEF OtherTypes

----------------------------------------------------------------------------
(* The broadcasts.                                                         *)

LEMMA WapPushStep ==
    ASSUME IInv, NEW ui \in Modes, NEW written \in BOOLEAN,
           NEW e \in Environments, WapPush(ui, written, e)
    PROVE  Kept
<1> DEFINE state == GetState(dev)
           old0 == StopFotaApn(CleanAll(dev))
           saved == [old0 EXCEPT !.id = lastID + 1, !.type = "pkg0",
                                 !.uiMode = ui, !.data = written]
           now == tree \/ ~LTE
           x == IF now THEN Preprocess(saved, state, TRUE, e) ELSE saved
<1>1. /\ lastID < MaxMessages /\ Perform(x, e.ecb) /\ lastID' = lastID + 1
      /\ initialWapPending' = (initialWapPending \/ ~now)
      /\ booting' = (booting \/ ~now)
      /\ UNCHANGED <<ready, dialog, confirm, handled, done, foreign, crashes>>
  BY DEF WapPush, delivered, counters
<1>2. CleanAll(dev) \in Handled /\ CleanAll(dev).out = <<>>
      /\ CleanAll(dev).attempts = 0 /\ CleanAll(dev).fota = dev.fota
      /\ CleanAll(dev).state = "idle"
  BY Saved, Cleaned
<1>3. /\ old0 \in Handled /\ old0.out = <<>> /\ old0.attempts = 0
      /\ old0.fota \in {dev.fota, "init"} /\ old0.state = "idle"
  BY <1>2, FotaApnStopped
<1> HIDE DEF old0
<1>4. lastID + 1 \in 0..MaxMessages /\ ui \in UIModes
  BY <1>1, Known, Bounds, ModesAssumption DEF UIModes
<1>5. /\ saved \in Handled /\ saved.out = <<>> /\ saved.attempts = 0
      /\ saved.fota \in {dev.fota, "init"} /\ saved.id = lastID + 1
      /\ saved.type = "pkg0" /\ saved.state = "idle"
  BY <1>3, <1>4 DEF Handled
<1> HIDE DEF saved
<1>6. Taken(saved, x) /\ (Awake(x) \/ e.ecb)
  <2>1. CASE now
    BY <1>5, <2>1, Saved, Preprocessed
  <2>2. CASE ~now
    BY <1>5, <2>2 DEF Taken, Awake, Handled
  <2> QED
    BY <2>1, <2>2
<1>7. Owed(saved) <= Owed(dev) /\ saved.attempts <= Len(launched)
  BY <1>5, Known DEF Owed
<1>8. OtherTypes
  BY <1>1, Known DEF OtherTypes
<1>9. e.ecb \in BOOLEAN
  BY ECBAssumption DEF Environments
<1> HIDE DEF x, now
<1> QED
  BY <1>1, <1>5, <1>6, <1>7, <1>8, <1>9, TakenStep

LEMMA BadWapPushStep == ASSUME IInv, BadWapPush PROVE Kept
<1> DEFINE x == StopFotaApn(CleanAll(dev))
<1>1. /\ Perform(x, FALSE) /\ foreign < MaxForeign /\ foreign' = foreign + 1
      /\ UNCHANGED <<ready, dialog, confirm, initialWapPending, booting,
                     handled, done, lastID, crashes>>
  BY DEF BadWapPush, delivered
<1>2. /\ x \in Handled /\ x.out = <<>> /\ x.attempts = 0 /\ x.id = NoID
      /\ x.fota \in {dev.fota, "init"} /\ x.state = "idle"
  BY Saved, Cleaned, FotaApnStopped
<1> HIDE DEF x
<1>3. Owed(x) <= Owed(dev) + (foreign' - foreign) /\ foreign' \in 0..MaxForeign
  BY <1>1, <1>2, Known, Bounds DEF Owed
<1>4. OtherTypes /\ done' \subseteq KnownIDs /\ handled' \in 0..Len(answers)
  BY <1>1, Known DEF OtherTypes
<1> QED
  BY <1>1, <1>2, <1>3, <1>4, SilentStep

LEMMA UserDeniesStep == ASSUME IInv, UserDenies PROVE Kept
<1> DEFINE x == CleanAll(dev)
<1>1. /\ Perform(x, FALSE) /\ dialog' = FALSE
      /\ UNCHANGED <<ready, confirm, initialWapPending, booting, handled, done,
                     lastID, foreign, crashes>>
  BY DEF UserDenies, delivered, counters
<1>2. /\ x \in Handled /\ x.out = <<>> /\ x.attempts = 0 /\ x.id = NoID
      /\ x.fota = dev.fota /\ x.state = "idle"
  BY Saved, Cleaned
<1> HIDE DEF x
<1>3. Owed(x) <= Owed(dev) + (foreign' - foreign) /\ foreign' \in 0..MaxForeign
  BY <1>1, <1>2, Known, Bounds DEF Owed
<1>4. OtherTypes /\ done' \subseteq KnownIDs /\ handled' \in 0..Len(answers)
  BY <1>1, Known DEF OtherTypes
<1> QED
  BY <1>1, <1>2, <1>3, <1>4, SilentStep

LEMMA ClientFotaStep ==
    ASSUME IInv, NEW e \in Environments, ClientFota(e)
    PROVE  Kept
<1> DEFINE saved == [dev EXCEPT !.state = "approved", !.id = lastID + 1,
                                !.type = "fota"]
           start == [saved EXCEPT !.fota = "start"]
           x == CASE ~e.wifi /\ e.cell /\ LTE -> StartDataConnection(start, e)
                  [] e.wifi \/ (e.cell /\ ~LTE) -> StartDMSession(saved, FALSE)
                  [] ~e.wifi /\ ~e.cell -> StartDataConnection(saved, e)
<1>1. /\ lastID < MaxMessages /\ Perform(x, FALSE) /\ lastID' = lastID + 1
      /\ UNCHANGED <<ready, dialog, confirm, initialWapPending, booting,
                     handled, done, foreign, crashes>>
  BY DEF ClientFota, delivered, counters
<1>2. lastID + 1 \in 0..MaxMessages
  BY <1>1, Known, Bounds
<1>3. /\ saved \in Handled /\ saved.out = <<>> /\ saved.type = "fota"
      /\ saved.attempts = dev.attempts /\ saved.id = lastID + 1
      /\ saved.fota = dev.fota
  BY <1>2, Saved DEF Handled, States
<1> HIDE DEF saved
<1>4. /\ start \in Handled /\ start.out = <<>> /\ start.type = "fota"
      /\ start.attempts = dev.attempts /\ start.id = lastID + 1
      /\ start.fota = "start"
  BY <1>3 DEF Handled, FotaStates
<1> HIDE DEF start
<1>5. Taken(saved, x) /\ Awake(x)
  <2>1. CASE ~e.wifi /\ e.cell /\ LTE
    <3>1. x = StartDataConnection(start, e)
      BY <2>1
    <3> HIDE DEF x
    <3> QED
      BY <1>3, <1>4, <3>1, DataConnectionStarted DEF Taken, Awake, Handled
  <2>2. CASE e.wifi \/ (e.cell /\ ~LTE)
    <3>1. x = StartDMSession(saved, FALSE)
      BY <2>2
    <3> HIDE DEF x
    <3> QED
      BY <1>3, <3>1, SessionStarted
  <2>3. CASE ~e.wifi /\ ~e.cell
    <3>1. x = StartDataConnection(saved, e)
      BY <2>3
    <3> HIDE DEF x
    <3> QED
      BY <1>3, <3>1, DataConnectionStarted DEF Taken, Awake, Handled
  <2> QED
    BY <2>1, <2>2, <2>3
<1> HIDE DEF x
<1>6. Owed(saved) <= Owed(dev) /\ saved.attempts <= Len(launched)
  BY <1>3, Saved DEF Owed
<1>7. OtherTypes
  BY <1>1, Known DEF OtherTypes
<1> QED
  BY <1>1, <1>3, <1>5, <1>6, <1>7, TakenStep

LEMMA UserConfirmedStep ==
    ASSUME IInv, NEW e \in Environments, UserConfirmed(e)
    PROVE  Kept
<1> DEFINE x == IF IsExpired(dev) THEN CleanAll(dev) ELSE StartProcess(dev, FALSE, e)
<1>1. /\ Perform(x, e.ecb) /\ confirm' = FALSE
      /\ UNCHANGED <<ready, dialog, initialWapPending, booting, handled, done,
                     lastID, foreign, crashes>>
  BY DEF UserConfirmed, delivered, counters
<1>2. OtherTypes /\ done' \subseteq KnownIDs /\ handled' \in 0..Len(answers)
      /\ foreign' \in 0..MaxForeign
  BY <1>1, Known DEF OtherTypes
<1>3. e.ecb \in BOOLEAN
  BY ECBAssumption DEF Environments
<1>4. CASE IsExpired(dev)
  <2>1. /\ x \in Handled /\ x.out = <<>> /\ x.attempts = 0 /\ x.id = NoID
        /\ x.fota = dev.fota /\ x.state = "idle"
    BY <1>4, Saved, Cleaned
  <2> HIDE DEF x
  <2>2. Owed(x) <= Owed(dev) + (foreign' - foreign)
    BY <1>1, <2>1, Known, Bounds DEF Owed
  <2> QED
    BY <1>1, <1>2, <1>3, <2>1, <2>2, SilentStep
<1>5. CASE ~IsExpired(dev)
  <2>1. dev.id # NoID /\ ~expired
    BY <1>5 DEF IsExpired
  <2>2. Taken(dev, x) /\ (Awake(x) \/ e.ecb)
    BY <1>5, <2>1, Saved, ProcessStarted
  <2> HIDE DEF x
  <2>3. Owed(dev) <= Owed(dev)
    BY DEF Owed
  <2> QED
    BY <1>1, <1>2, <1>3, <2>1, <2>2, <2>3, Saved, TakenStep
<1> QED
  BY <1>4, <1>5

\* The alarm: its time is over, and the message is retried or dropped.
LEMMA TimeAlertStep ==
    ASSUME IInv, NEW e \in Environments, TimeAlert(e)
    PROVE  Kept
<1> DEFINE d == [dev EXCEPT !.alarm = FALSE]
           state == GetState(dev)
           x == Alerted(d, state, e)
<1>1. /\ Perform(x, e.ecb)
      /\ UNCHANGED <<ready, dialog, confirm, initialWapPending, booting, handled,
                     done, lastID, foreign, crashes>>
  BY DEF TimeAlert, delivered, counters
<1>2. OtherTypes /\ done' \subseteq KnownIDs /\ handled' \in 0..Len(answers)
      /\ foreign' \in 0..MaxForeign
  BY <1>1, Known DEF OtherTypes
<1>3. e.ecb \in BOOLEAN
  BY ECBAssumption DEF Environments
<1>4. /\ d \in Handled /\ d.out = <<>> /\ d.id = dev.id /\ d.type = dev.type
      /\ d.attempts = dev.attempts /\ d.fota = dev.fota /\ d.data \in BOOLEAN
  BY Saved DEF Handled
<1>5. state \in States
  BY Saved
<1> DEFINE gone == \/ state = "idle" \/ IsExpired(d)
                   \/ state = "pending" /\ d.uiMode = "none"
<1> HIDE DEF d, state
<1>6. CASE gone
  <2>1. x = CleanAll(d)
    BY <1>6 DEF Alerted
  <2> HIDE DEF x
  <2>2. /\ x \in Handled /\ x.out = <<>> /\ x.attempts = 0 /\ x.id = NoID
        /\ x.fota = dev.fota /\ x.state = "idle"
    BY <1>4, <2>1, Cleaned
  <2>3. Owed(x) <= Owed(dev) + (foreign' - foreign)
    BY <1>1, <2>2, Known, Bounds DEF Owed
  <2> QED
    BY <1>1, <1>2, <1>3, <2>2, <2>3, SilentStep
<1>7. CASE ~gone
  <2>1. dev.id # NoID /\ ~expired
    BY <1>4, <1>7 DEF IsExpired
  <2>2. dev.type # "none"
    BY <2>1, Saved
  <2>3. Taken(d, x) /\ (Awake(x) \/ e.ecb)
    <3>1. CASE state = "in_progress"
      <4>1. x = Subscribe(d)
        BY <1>7, <3>1 DEF Alerted
      <4> HIDE DEF x
      <4> QED
        BY <1>4, <4>1, Subscribed DEF Taken, Awake, Handled
    <3>2. CASE state = "approved"
      <4> DEFINE a == SetState(d, state)
      <4>1. x = StartProcess(a, FALSE, e)
        BY <1>7, <3>2 DEF Alerted
      <4> HIDE DEF x
      <4>2. /\ a \in Handled /\ a.out = <<>> /\ a.id = d.id /\ a.type = d.type
            /\ a.attempts = d.attempts /\ a.fota = d.fota
        BY <1>4, <1>5, StateSet
      <4> HIDE DEF a
      <4>3. Taken(a, x) /\ (Awake(x) \/ e.ecb)
        BY <1>4, <2>2, <4>1, <4>2, ProcessStarted
      <4> QED
        BY <4>2, <4>3 DEF Taken
    <3>3. CASE state = "pending"
      <4>1. x = Preprocess(d, state, d.data, e)
        BY <1>7, <3>3 DEF Alerted
      <4> HIDE DEF x
      <4> QED
        BY <1>4, <1>5, <2>2, <4>1, Preprocessed
    <3> QED
      BY <1>5, <1>7, <3>1, <3>2, <3>3 DEF States
  <2> HIDE DEF x
  <2>4. Owed(d) <= Owed(dev) /\ d.attempts <= Len(launched)
    BY <1>4, Saved DEF Owed
  <2> QED
    BY <1>1, <1>2, <1>3, <1>4, <2>1, <2>2, <2>3, <2>4, TakenStep
<1> QED
  BY <1>6, <1>7

LEMMA OtherLaunchStep ==
    ASSUME IInv, NEW r \in Launches, r.id \in {NoID, InjectedID},
           r.type \notin {"tree", "notify"}, OtherLaunch(r)
    PROVE  Kept
<1> DEFINE q == <<r>>
           x == [dev EXCEPT !.out = q]
<1>1. /\ Perform(x, FALSE) /\ foreign < MaxForeign /\ foreign' = foreign + 1
      /\ UNCHANGED <<ready, dialog, confirm, initialWapPending, booting,
                     handled, done, lastID, crashes>>
  BY DEF OtherLaunch, delivered
<1>2. q \in Seq(Launches) /\ Len(q) = 1 /\ DOMAIN q = {1} /\ q[1] = r
  OBVIOUS
<1> HIDE DEF q
<1>3. /\ x \in Handled /\ x.out = q /\ x.id = dev.id /\ x.type = dev.type
      /\ x.attempts = dev.attempts /\ x.fota = dev.fota
      /\ x.state = dev.state /\ x.alarm = dev.alarm
  BY <1>2, Saved DEF Handled
<1> HIDE DEF x
<1>4. \A i \in DOMAIN x.out : Allowed(x.out[i])
  BY <1>2, <1>3 DEF Allowed
<1>5. Owed(x) <= Owed(dev) + (foreign' - foreign) /\ foreign' \in 0..MaxForeign
  BY <1>1, <1>3, Known, Bounds DEF Owed
<1>6. Reported(x)
  BY <1>2, <1>3, <1>5 DEF Reported
<1>7. x.attempts <= Len(launched) + Len(x.out)
  <2>1. dev.attempts \in Nat
    BY Saved DEF Handled
  <2> QED
    BY <1>2, <1>3, <2>1, Known, Saved
<1>8. OtherTypes /\ done' \subseteq KnownIDs /\ handled' \in 0..Len(answers)
      /\ lastID' \in {lastID, lastID + 1} /\ lastID' <= MaxMessages
  BY <1>1, Known, Bounds DEF OtherTypes
<1>9. /\ x.id <= lastID' /\ (x.id # NoID => x.type # "none" /\ x.id \notin done')
      /\ (x.state # "idle" => x.alarm \/ booting' \/ held)
  BY <1>1, <1>3, Saved
<1> QED
  BY <1>1, <1>3, <1>4, <1>5, <1>6, <1>7, <1>8, <1>9, HandlerStep DEF OtherTypes

\* A report is sent by the device d.
LEMMA NotifySent ==
    ASSUME NEW d \in Handled, NEW x, x = SendNotify(d)
    PROVE  /\ x \in Handled /\ x.out = <<[id |-> NoID, type |-> "notify"]>>
           /\ x.id = d.id /\ x.type = d.type /\ x.attempts = d.attempts
           /\ x.fota = d.fota /\ x.state = d.state /\ x.alarm = d.alarm
<1> DEFINE l == [id |-> NoID, type |-> "notify"]
           q == <<l>>
<1>1. q \in Seq(Launches)
  BY Bounds DEF Launches, Types
<1>2. x = [d EXCEPT !.out = q]
  BY DEF SendNotify
<1> HIDE DEF q
<1>3. /\ x \in Handled /\ x.out = q
      /\ x.id = d.id /\ x.type = d.type /\ x.attempts = d.attempts
      /\ x.fota = d.fota /\ x.state = d.state /\ x.alarm = d.alarm
  BY <1>1, <1>2 DEF Handled
<1> QED
  BY <1>3 DEF q

LEMMA NotifyStep ==
    ASSUME IInv, NEW d \in Handled, d.id = dev.id, d.type = dev.type,
           d.attempts = dev.attempts, d.state = dev.state, d.alarm = dev.alarm,
           Perform(SendNotify(d), FALSE),
           Owed(d) + 1 <= Owed(dev) + (foreign' - foreign),
           foreign' \in 0..MaxForeign,
           UNCHANGED <<booting, handled, done, lastID>>, OtherTypes
    PROVE  Kept
<1> DEFINE x == SendNotify(d)
<1>1. /\ x \in Handled /\ x.out = <<[id |-> NoID, type |-> "notify"]>>
      /\ x.id = d.id /\ x.type = d.type /\ x.attempts = d.attempts
      /\ x.fota = d.fota /\ x.state = d.state /\ x.alarm = d.alarm
  BY NotifySent
<1> HIDE DEF x
<1>2. DOMAIN x.out = {1} /\ Len(x.out) = 1 /\ x.out[1].id = NoID
      /\ x.out[1].type = "notify"
  BY <1>1
<1>3. \A i \in DOMAIN x.out : Allowed(x.out[i])
  BY <1>2 DEF Allowed
<1>4. Reported(x)
  BY <1>1 DEF Reported, Owed
<1>5. x.attempts <= Len(launched) + Len(x.out)
  <2>1. dev.attempts \in Nat
    BY Saved DEF Handled
  <2> QED
    BY <1>1, <1>2, <2>1, Known, Saved
<1>6. done' \subseteq KnownIDs /\ handled' \in 0..Len(answers)
      /\ lastID' \in {lastID, lastID + 1} /\ lastID' <= MaxMessages
  BY Known, Bounds
<1>7. /\ x.id <= lastID' /\ (x.id # NoID => x.type # "none" /\ x.id \notin done')
      /\ (x.state # "idle" => x.alarm \/ booting' \/ held)
  BY <1>1, Saved
<1>8. Perform(x, FALSE)
  BY DEF x
<1> QED
  BY <1>1, <1>3, <1>4, <1>5, <1>6, <1>7, <1>8, HandlerStep DEF OtherTypes

LEMMA NotifyResultStep ==
    ASSUME IInv, NEW e \in Environments, NotifyResult(e)
    PROVE  Kept
<1> DEFINE r == [dev EXCEPT !.fota = "report"]
           y == StartDataConnection(r, e)
           x == CASE e.cell /\ ~e.wifi /\ LTE -> IF dev.fota # "init" THEN dev ELSE y
                  [] OTHER -> SendNotify(dev)
<1>1. /\ Perform(x, FALSE) /\ foreign < MaxForeign /\ foreign' = foreign + 1
      /\ UNCHANGED <<ready, dialog, confirm, initialWapPending, booting,
                     handled, done, lastID, crashes>>
  BY DEF NotifyResult, delivered
<1>2. OtherTypes /\ done' \subseteq KnownIDs /\ handled' \in 0..Len(answers)
      /\ foreign' \in 0..MaxForeign /\ foreign \in Nat
  BY <1>1, Known, Bounds DEF OtherTypes
<1>3. CASE e.cell /\ ~e.wifi /\ LTE /\ dev.fota # "init"
  <2>1. x = dev
    BY <1>3
  <2> HIDE DEF x
  <2>2. Owed(x) <= Owed(dev) + (foreign' - foreign)
    BY <1>1, <1>2, <2>1 DEF Owed
  <2>3. x.attempts <= dev.attempts
    BY <2>1, Saved DEF Handled
  <2> QED
    BY <1>1, <1>2, <2>1, <2>2, <2>3, Saved, SilentStep
<1>4. CASE e.cell /\ ~e.wifi /\ LTE /\ dev.fota = "init"
  <2>1. x = y
    BY <1>4
  <2>2. /\ r \in Handled /\ r.out = <<>> /\ r.id = dev.id /\ r.type = dev.type
        /\ r.attempts = dev.attempts
    BY Saved DEF Handled, FotaStates
  <2> HIDE DEF r
  <2> HIDE DEF x
  <2>3. /\ x \in Handled /\ x.id = dev.id /\ x.type = dev.type /\ x.out = <<>>
        /\ x.attempts = dev.attempts /\ x.alarm
    BY <2>1, <2>2, DataConnectionStarted
  <2> HIDE DEF y
  <2>4. Owed(x) <= Owed(dev) + (foreign' - foreign)
    BY <1>1, <1>2, <1>4 DEF Owed
  <2>5. x.attempts <= dev.attempts
    BY <2>3, Saved DEF Handled
  <2>6. dev.id \notin done' \ {NoID}
    BY <1>1, Saved
  <2> QED
    BY <1>1, <1>2, <2>3, <2>4, <2>5, <2>6, SilentStep
<1>5. CASE ~(e.cell /\ ~e.wifi /\ LTE)
  <2>1. x = SendNotify(dev)
    BY <1>5
  <2>2. Owed(dev) + 1 <= Owed(dev) + (foreign' - foreign)
    BY <1>1, <1>2 DEF Owed
  <2> HIDE DEF x
  <2> QED
    BY <1>1, <1>2, <2>1, <2>2, Saved, NotifyStep
<1> QED
  BY <1>3, <1>4, <1>5

LEMMA DataConnectionReadyStep == ASSUME IInv, DataConnectionReady PROVE Kept
<1> DEFINE s == [dev EXCEPT !.fota = "start_rptd"]
           state == GetState(dev)
           x == CASE dev.fota = "report" -> ReportOnNetwork(dev)
                  [] dev.fota = "start" -> StartOnNetwork(s, state)
                  [] OTHER -> dev
<1>1. /\ Perform(x, FALSE) /\ ready' = FALSE
      /\ UNCHANGED <<dialog, confirm, initialWapPending, booting,
                     handled, done, lastID, foreign, crashes>>
  BY DEF DataConnectionReady, delivered, counters
<1>2. /\ done' \subseteq KnownIDs /\ handled' \in 0..Len(answers)
      /\ foreign' \in 0..MaxForeign /\ foreign' = foreign /\ foreign \in Nat
  BY <1>1, Known, Bounds
<1>3. OtherTypes
  BY <1>1, Known DEF OtherTypes
<1>4. CASE dev.fota = "report"
  <2> DEFINE r == [dev EXCEPT !.fota = "report_rptd"]
  <2>1. x = SendNotify(r)
    BY <1>4 DEF ReportOnNetwork
  <2>2. /\ r \in Handled /\ r.id = dev.id /\ r.type = dev.type
        /\ r.attempts = dev.attempts /\ r.state = dev.state
        /\ r.alarm = dev.alarm /\ r.fota = "report_rptd"
    BY Saved DEF Handled, FotaStates
  <2>3. Owed(r) + 1 <= Owed(dev) + (foreign' - foreign)
    BY <1>1, <1>2, <1>4, <2>2 DEF Owed
  <2> HIDE DEF x, r
  <2> QED
    BY <1>1, <1>2, <1>3, <2>1, <2>2, <2>3, NotifyStep
<1>5. CASE dev.fota = "start"
  <2>1. x = StartOnNetwork(s, state)
    BY <1>5
  <2>2. /\ s \in Handled /\ s.out = <<>> /\ s.id = dev.id /\ s.type = dev.type
        /\ s.attempts = dev.attempts /\ s.state = dev.state
        /\ s.alarm = dev.alarm /\ s.fota = "start_rptd"
    BY Saved DEF Handled, FotaStates
  <2>3. state \in States
    BY Saved
  <2> HIDE DEF x, s, state
  <2>4. CASE IsExpired(s) \/ state = "idle"
    <3>1. x = CleanAll(s)
      BY <2>1, <2>4 DEF StartOnNetwork
    <3>2. /\ x \in Handled /\ x.out = <<>> /\ x.attempts = 0 /\ x.id = NoID
          /\ x.fota = "start_rptd" /\ x.state = "idle"
      BY <2>2, <3>1, Cleaned
    <3>3. Owed(x) <= Owed(dev) + (foreign' - foreign)
      BY <1>1, <1>2, <3>2 DEF Owed
    <3> QED
      BY <1>1, <1>2, <1>3, <3>2, <3>3, SilentStep
  <2>5. CASE ~(IsExpired(s) \/ state = "idle") /\ state = "in_progress"
    <3>1. x = s
      BY <2>1, <2>5 DEF StartOnNetwork
    <3>2. Owed(x) <= Owed(dev) + (foreign' - foreign)
      BY <1>1, <1>2, <2>2, <3>1 DEF Owed
    <3>3. x.attempts <= dev.attempts
      BY <2>2, <3>1, Saved DEF Handled
    <3> QED
      BY <1>1, <1>2, <1>3, <2>2, <3>1, <3>2, <3>3, Saved, SilentStep
  <2>6. CASE ~(IsExpired(s) \/ state = "idle") /\ state # "in_progress"
    <3> DEFINE a == SetState(s, state)
    <3>1. x = StartDMSession(a, FALSE)
      BY <2>1, <2>6 DEF StartOnNetwork
    <3>2. /\ a \in Handled /\ a.out = <<>> /\ a.id = dev.id /\ a.type = dev.type
          /\ a.attempts = dev.attempts /\ a.fota = "start_rptd"
      BY <2>2, <2>3, StateSet
    <3> HIDE DEF a
    <3>3. dev.id # NoID /\ ~expired
      BY <2>2, <2>6 DEF IsExpired
    <3>4. dev.type # "none"
      BY <3>3, Saved
    <3>5. Taken(a, x) /\ Awake(x)
      BY <3>1, <3>2, <3>4, SessionStarted
    <3>6. Owed(a) <= Owed(dev) /\ a.attempts <= Len(launched)
      BY <3>2, Saved DEF Owed
    <3> QED
      BY <1>1, <1>2, <1>3, <3>2, <3>3, <3>4, <3>5, <3>6, TakenStep
  <2> QED
    BY <2>4, <2>5, <2>6
<1>6. CASE dev.fota \notin {"report", "start"}
  <2>1. x = dev
    BY <1>6
  <2> HIDE DEF x
  <2>2. Owed(x) <= Owed(dev) + (foreign' - foreign)
    BY <1>1, <1>2, <2>1 DEF Owed
  <2>3. x.attempts <= dev.attempts
    BY <2>1, Saved DEF Handled
  <2> QED
    BY <1>1, <1>2, <1>3, <2>1, <2>2, <2>3, Saved, SilentStep
<1> QED
  BY <1>4, <1>5, <1>6

LEMMA ServiceResultStep == ASSUME IInv, ServiceResult PROVE Kept
<1> DEFINE a == answers[handled + 1]
           r == launched[a.req]
           f == StopFotaApn(dev)
           d == IF LTE THEN [f EXCEPT !.dcs = Off] ELSE dev
           d1 == IF d.uiMode = "inform" THEN [d EXCEPT !.uiMode = "none"] ELSE d
           x == IF r.type = "tree" THEN dev ELSE AfterResult(d, a.ret)
<1>1. /\ handled < Len(answers) /\ handled' = handled + 1
      /\ done' = IF a.ret = "success" THEN done \cup {r.id} ELSE done
      /\ Perform(x, FALSE)
      /\ UNCHANGED <<ready, dialog, confirm, initialWapPending, booting,
                     lastID, foreign, crashes>>
  BY DEF ServiceResult, counters
<1>2. a.ret \in {"success", "fail"} /\ r.id \in KnownIDs
      /\ (r.type = "tree" => r.id = NoID)
  <2>1. /\ answers \in Seq([req : accepted, ret : {"success", "fail"}])
        /\ accepted = 1..Len(launched) /\ handled \in 0..Len(answers)
        /\ launched \in Seq(Launches)
    BY DEF IInv, TypeOK
  <2>2. Len(answers) \in Nat
    BY <2>1, LenProperties
  <2>3. handled + 1 \in 1..Len(answers)
    BY <1>1, <2>1, <2>2
  <2>4. a \in [req : accepted, ret : {"success", "fail"}]
    BY <2>1, <2>3, ElementOfSeq
  <2> HIDE DEF a
  <2>5. a.req \in DOMAIN launched
    BY <2>1, <2>4, LenProperties
  <2> QED
    BY <2>4, <2>5 DEF IInv, IDInv
<1>3. /\ done' \subseteq KnownIDs /\ handled' \in 0..Len(answers)
      /\ foreign' \in 0..MaxForeign /\ foreign' = foreign /\ foreign \in Nat
  <2>1. done' \subseteq KnownIDs
    BY <1>1, <1>2, Known
  <2>2. handled' \in 0..Len(answers)
    BY <1>1, LenProperties DEF IInv, TypeOK
  <2> QED
    BY <1>1, <2>1, <2>2, Known, Bounds
<1>4. OtherTypes
  BY <1>1, Known DEF OtherTypes
<1>5. /\ f \in Handled /\ f.id = dev.id /\ f.type = dev.type /\ f.out = <<>>
      /\ f.attempts = dev.attempts /\ f.fota \in {dev.fota, "init"}
  BY Saved, FotaApnStopped
<1> HIDE DEF f
<1>6. /\ d \in Handled /\ d.id = dev.id /\ d.type = dev.type /\ d.out = <<>>
      /\ d.attempts = dev.attempts /\ d.fota \in {dev.fota, "init"}
  BY <1>5, Saved, OffTyped DEF Handled
<1> HIDE DEF d
<1>7. /\ d1 \in Handled /\ d1.id = dev.id /\ d1.type = dev.type /\ d1.out = <<>>
      /\ d1.attempts = dev.attempts /\ d1.fota \in {dev.fota, "init"}
  BY <1>6 DEF Handled, UIModes
<1>8. CASE r.type = "tree"
  <2>1. x = dev
    BY <1>8
  <2>2. dev.id \notin done' \ {NoID}
    BY <1>1, <1>2, <1>8, Saved
  <2> HIDE DEF x
  <2>3. Owed(x) <= Owed(dev) + (foreign' - foreign)
    BY <1>3, <2>1 DEF Owed
  <2>4. x.attempts <= dev.attempts
    BY <2>1, Saved DEF Handled
  <2> QED
    BY <1>1, <1>3, <1>4, <2>1, <2>2, <2>3, <2>4, Saved, SilentStep
<1>9. CASE r.type # "tree" /\ (a.ret = "success" \/ ~CanRestart(d1))
  <2>1. x = CleanAll(d1)
    BY <1>9 DEF AfterResult
  <2> HIDE DEF x, d1
  <2>2. /\ x \in Handled /\ x.out = <<>> /\ x.attempts = 0 /\ x.id = NoID
        /\ x.fota \in {dev.fota, "init"} /\ x.state = "idle"
    BY <1>7, <2>1, Cleaned
  <2>3. Owed(x) <= Owed(dev) + (foreign' - foreign)
    BY <1>3, <2>2 DEF Owed
  <2> QED
    BY <1>1, <1>3, <1>4, <2>2, <2>3, SilentStep
<1>10. CASE r.type # "tree" /\ ~(a.ret = "success" \/ ~CanRestart(d1))
  <2> DEFINE b == SetState(d1, "approved")
  <2>1. x = Subscribe(b)
    BY <1>10 DEF AfterResult
  <2> HIDE DEF x, d1
  <2>2. /\ b \in Handled /\ b.id = dev.id /\ b.type = dev.type /\ b.out = <<>>
        /\ b.attempts = dev.attempts /\ b.fota \in {dev.fota, "init"}
    BY <1>7, StateSet DEF States
  <2> HIDE DEF b
  <2>3. /\ x \in Handled /\ x.id = dev.id /\ x.type = dev.type /\ x.out = <<>>
        /\ x.attempts = dev.attempts /\ x.fota \in {dev.fota, "init"} /\ x.alarm
    BY <2>1, <2>2, Subscribed
  <2>4. Owed(x) <= Owed(dev) + (foreign' - foreign)
    BY <1>3, <2>3 DEF Owed
  <2>5. x.attempts <= dev.attempts
    BY <2>3 DEF Handled
  <2>6. dev.id \notin done' \ {NoID}
    BY <1>1, <1>10, Saved
  <2> QED
    BY <1>1, <1>3, <1>4, <2>3, <2>4, <2>5, <2>6, SilentStep
<1> QED
  BY <1>8, <1>9, <1>10

\* start_up first asks for the tree, then for what the device y asks for.
LEMMA StartUpStep ==
    ASSUME IInv, NEW e \in Environments, StartUp(e)
    PROVE  Kept
<1> DEFINE first == IF initialWapPending THEN SetState(dev, "pending")
                    ELSE CleanAll(dev)
           d0 == IF tree THEN dev ELSE first
           l == [id |-> NoID, type |-> "tree"]
           makeTree == IF tree THEN <<>> ELSE <<l>>
           state == GetState(d0)
           idle == (~tree /\ ~initialWapPending) \/ state = "idle"
           gone == IsExpired(d0) \/ d0.uiMode = "none"
           y == CASE idle -> d0
                  [] OTHER -> IF gone THEN CleanAll(d0)
                              ELSE Preprocess(d0, state, d0.data, e)
           q == makeTree \o y.out
           x == [y EXCEPT !.out = q]
<1>1. /\ Perform(x, e.ecb) /\ booting' = FALSE
      /\ initialWapPending' = (initialWapPending /\ tree)
      /\ UNCHANGED <<ready, dialog, confirm, handled, done, lastID, foreign, crashes>>
  <2>1. x = [y EXCEPT !.out = makeTree \o @]
    OBVIOUS
  <2> QED
    BY <2>1 DEF StartUp, delivered, counters
<1>2. e.ecb \in BOOLEAN
  BY ECBAssumption DEF Environments
<1>3. /\ d0 \in Handled /\ d0.out = <<>> /\ d0.fota = dev.fota
      /\ d0.attempts <= Len(launched) /\ d0.attempts \in Nat
      /\ d0.id = NoID \/ (d0.id = dev.id /\ d0.type = dev.type)
  <2>1. /\ dev \in Handled /\ dev.out = <<>> /\ dev.attempts <= Len(launched)
        /\ Len(launched) \in Nat /\ dev.attempts \in Nat
    BY Saved, Known DEF Handled
  <2>2. CASE tree
    BY <2>1, <2>2
  <2>3. CASE ~tree /\ initialWapPending
    BY <2>1, <2>3, StateSet DEF States
  <2>4. CASE ~tree /\ ~initialWapPending
    BY <2>1, <2>4, Cleaned
  <2> QED
    BY <2>2, <2>3, <2>4
<1>4. state \in States
  BY <1>3 DEF GetState, States, Handled
<1>5. idle => d0.state = "idle"
  <2>1. state = "idle" => d0.state = "idle"
    BY DEF GetState
  <2>2. ~tree /\ ~initialWapPending => d0.state = "idle"
    BY Saved, Cleaned
  <2> QED
    BY <2>1, <2>2
<1> HIDE DEF d0, state
<1>6. /\ y \in Handled
      /\ y.id = NoID \/ (y.id = dev.id /\ y.type = dev.type)
      /\ y.state # "idle" => y.alarm \/ e.ecb
      /\ Owed(y) <= Owed(dev)
      /\ y.attempts <= Len(launched) + Len(y.out)
      /\ y.out = <<>> \/ \E k \in Launches : /\ y.out = <<k>> /\ Allowed(k)
                                              /\ k.type # "notify"
  <2>1. CASE idle
    <3>1. y = d0
      BY <2>1
    <3>2. Owed(y) <= Owed(dev) /\ Len(y.out) = 0
      BY <1>3, <3>1 DEF Owed
    <3> HIDE DEF y, idle
    <3> QED
      BY <1>3, <1>5, <2>1, <3>1, <3>2, Known
  <2>2. CASE ~idle /\ gone
    <3>1. y = CleanAll(d0)
      BY <2>2
    <3> HIDE DEF y
    <3>2. /\ y \in Handled /\ y.out = <<>> /\ y.attempts = 0 /\ y.id = NoID
          /\ y.fota = dev.fota /\ y.state = "idle"
      BY <1>3, <3>1, Cleaned
    <3>3. Owed(y) <= Owed(dev) /\ Len(y.out) = 0
      BY <3>2 DEF Owed
    <3> QED
      BY <3>2, <3>3, Known
  <2>3. CASE ~idle /\ ~gone
    <3>1. y = Preprocess(d0, state, d0.data, e)
      BY <2>3
    <3>2. d0.id # NoID /\ ~expired
      BY <2>3 DEF IsExpired
    <3>3. d0.id = dev.id /\ d0.type = dev.type /\ d0.type # "none"
      BY <1>3, <3>2, Saved
    <3>4. d0.data \in BOOLEAN
      BY <1>3 DEF Handled
    <3> HIDE DEF y
    <3>5. Taken(d0, y) /\ (Awake(y) \/ e.ecb)
      BY <1>3, <1>4, <3>1, <3>3, <3>4, Preprocessed
    <3>6. Owed(y) <= Owed(dev)
      BY <1>3, <3>5 DEF Taken, Owed
    <3>7. y.attempts \in Nat
      BY <3>5 DEF Taken, Handled
    <3>8. CASE y.out = <<>> /\ y.attempts <= d0.attempts
      <4>1. Len(y.out) = 0
        BY <3>8
      <4> QED
        BY <1>3, <3>3, <3>5, <3>6, <3>7, <3>8, <4>1, Known DEF Taken, Awake
    <3>9. CASE /\ y.out = <<[id |-> d0.id, type |-> d0.type]>>
               /\ y.attempts = d0.attempts + 1
      <4> DEFINE k == [id |-> d0.id, type |-> d0.type]
      <4>1. k \in Launches
        BY <1>3, Bounds, <3>3 DEF Launches, Types, Handled
      <4>2. k.id = dev.id /\ k.type \in {"pkg0", "fota"}
        BY <1>3, <3>3 DEF Handled
      <4>3. Len(y.out) = 1 /\ y.out = <<k>>
        BY <3>9
      <4> HIDE DEF k
      <4>4. Allowed(k) /\ k.type # "notify"
        BY <3>2, <4>2 DEF Allowed
      <4>5. y.attempts <= Len(launched) + Len(y.out)
        BY <1>3, <3>9, <4>3, Known
      <4> QED
        BY <3>3, <3>5, <3>6, <4>1, <4>3, <4>4, <4>5 DEF Taken, Awake
    <3> QED
      BY <3>5, <3>8, <3>9 DEF Taken
  <2> QED
    BY <2>1, <2>2, <2>3
<1> HIDE DEF y
<1>7. l \in Launches /\ Allowed(l) /\ l.type = "tree"
  BY Bounds DEF Launches, Types, Allowed
<1> HIDE DEF l
<1>8. /\ q \in Seq(Launches) /\ Len(q) = Len(makeTree) + Len(y.out)
      /\ Len(makeTree) \in Nat /\ Len(y.out) \in Nat /\ Len(q) \in Nat
      /\ \A i \in DOMAIN q : Allowed(q[i]) /\ q[i].type # "notify"
  <2>1. makeTree \in Seq(Launches) /\ y.out \in Seq(Launches)
        /\ Len(makeTree) \in Nat /\ Len(y.out) \in Nat
    BY <1>6, <1>7, LenProperties DEF Handled
  <2>2. \A i \in 1..Len(makeTree) : Allowed(makeTree[i]) /\ makeTree[i].type # "notify"
    BY <1>7
  <2>3. \A i \in 1..Len(y.out) : Allowed(y.out[i]) /\ y.out[i].type # "notify"
    BY <1>6
  <2> HIDE DEF makeTree
  <2>4. /\ q \in Seq(Launches) /\ Len(q) = Len(makeTree) + Len(y.out)
        /\ \A i \in 1..Len(makeTree) + Len(y.out) :
               q[i] = IF i <= Len(makeTree) THEN makeTree[i]
                      ELSE y.out[i - Len(makeTree)]
    BY <2>1, ConcatProperties
  <2> HIDE DEF q
  <2>5. DOMAIN q = 1..Len(q) /\ Len(q) \in Nat
    BY <2>4, LenProperties
  <2>6. ASSUME NEW i \in 1..Len(q)
        PROVE  Allowed(q[i]) /\ q[i].type # "notify"
    <3>1. CASE i <= Len(makeTree)
      BY <2>1, <2>2, <2>4, <3>1
    <3>2. CASE ~(i <= Len(makeTree))
      <4>1. i - Len(makeTree) \in 1..Len(y.out)
        BY <2>1, <2>4, <3>2
      <4>2. q[i] = y.out[i - Len(makeTree)]
        BY <2>4, <3>2
      <4> QED
        BY <2>3, <4>1, <4>2
    <3> QED
      BY <3>1, <3>2
  <2> QED
    BY <2>1, <2>4, <2>5, <2>6
<1> HIDE DEF q, makeTree
<1>9. /\ x \in Handled /\ x.out = q /\ x.id = y.id /\ x.type = y.type
      /\ x.attempts = y.attempts /\ x.fota = y.fota
      /\ x.state = y.state /\ x.alarm = y.alarm
  BY <1>6, <1>8 DEF Handled
<1> HIDE DEF x
<1>10. Reported(x)
  <2>1. Owed(x) <= Owed(dev) + (foreign' - foreign)
    <3>1. Owed(x) = Owed(y) /\ foreign' - foreign = 0
      BY <1>1, <1>9, Known, Bounds DEF Owed
    <3> QED
      BY <1>6, <3>1 DEF Owed
  <2> QED
    BY <1>8, <1>9, <2>1 DEF Reported
<1>11. x.attempts <= Len(launched) + Len(x.out)
  <2>1. y.attempts \in Nat
    BY <1>6 DEF Handled
  <2> QED
    BY <1>6, <1>8, <1>9, <2>1, Known
<1>12. \A i \in DOMAIN x.out : Allowed(x.out[i])
  BY <1>8, <1>9
<1>13. /\ done' \subseteq KnownIDs /\ handled' \in 0..Len(answers)
       /\ lastID' \in {lastID, lastID + 1} /\ lastID' <= MaxMessages
       /\ foreign' \in 0..MaxForeign
  BY <1>1, Known, Bounds
<1>14. x.id <= lastID' /\ (x.id # NoID => x.type # "none" /\ x.id \notin done')
  BY <1>1, <1>6, <1>9, Saved, Known, Bounds
<1>15. x.state # "idle" => x.alarm \/ booting' \/ held \/ e.ecb
  BY <1>6, <1>9
<1>16. OtherTypes
  <2>1. initialWapPending' \in BOOLEAN
    BY <1>1
  <2> QED
    BY <1>1, <2>1, Known DEF OtherTypes
<1> QED
  BY <1>1, <1>2, <1>9, <1>10, <1>11, <1>12, <1>13, <1>14, <1>15, <1>16, HandlerStep
     DEF OtherTypes

----------------------------------------------------------------------------
(* The steps of the others.                                                *)

\* A step that asks for nothing and leaves the message alone.
LEMMA OutsideStep ==
    ASSUME IInv, TypeOK', NotForgotten',
           dev'.id = dev.id, dev'.type = dev.type, dev'.attempts = dev.attempts,
           dev'.fota = dev.fota, UNCHANGED <<launched, done, lastID, foreign>>
    PROVE  Kept
<1>1. NewLaunches = {}
  BY DEF NewLaunches
<1>2. DoneStep /\ FreshStep
  BY <1>1 DEF DoneStep, FreshStep
<1>3. IDInv'
  BY DEF IInv, IDInv, KnownIDs
<1>4. ReportInv'
  BY DEF IInv, ReportInv, Reports, Owed
<1> QED
  BY <1>2, <1>3, <1>4 DEF IInv, Kept

LEMMA OpenDialogStep == ASSUME IInv, OpenDialog PROVE Kept
<1>1. /\ dialog' = TRUE /\ dev' = [dev EXCEPT !.notification = FALSE]
      /\ UNCHANGED <<ready, confirm, tree, initialWapPending, booting,
                     accepted, pending, active, busy, answers,
                     launched, handled, done, lastID, old, expired, rebooted, held,
                     foreign, crashes>>
  BY DEF OpenDialog, service, delivered, clock, counters
<1>2. /\ dev' \in Device /\ dev'.id = dev.id /\ dev'.type = dev.type
      /\ dev'.attempts = dev.attempts /\ dev'.fota = dev.fota
      /\ dev'.state = dev.state /\ dev'.alarm = dev.alarm /\ dev'.out = <<>>
  BY <1>1 DEF IInv, TypeOK, Device
<1>3. TypeOK'
  <2>1. {ready', dialog', confirm', tree', initialWapPending', booting'}
            \subseteq BOOLEAN
    BY <1>1 DEF IInv, TypeOK
  <2> QED
    BY <1>1, <1>2, <2>1 DEF IInv, TypeOK
<1>4. NotForgotten'
  BY <1>1, <1>2 DEF IInv, NotForgotten
<1> QED
  BY <1>1, <1>2, <1>3, <1>4, OutsideStep

LEMMA UserConfirmsStep == ASSUME IInv, UserConfirms PROVE Kept
<1>1. /\ dialog' = FALSE /\ confirm' = TRUE
      /\ UNCHANGED <<dev, ready, tree, initialWapPending, booting,
                     accepted, pending, active, busy, answers,
                     launched, handled, done, lastID, old, expired, rebooted, held,
                     foreign, crashes>>
  BY DEF UserConfirms, service, delivered, clock, counters
<1>2. TypeOK'
  <2>1. {ready', dialog', confirm', tree', initialWapPending', booting'}
            \subseteq BOOLEAN
    BY <1>1 DEF IInv, TypeOK
  <2> QED
    BY <1>1, <2>1 DEF IInv, TypeOK
<1>3. NotForgotten'
  BY <1>1 DEF IInv, NotForgotten
<1> QED
  BY <1>1, <1>2, <1>3, OutsideStep

\* The data connection service: dcs is its new state.
LEMMA NetworkStep ==
    ASSUME IInv, NEW dcs \in DataConnections, dev' = [dev EXCEPT !.dcs = dcs],
           ready' \in BOOLEAN, UNCHANGED NetworkUnchanged
    PROVE  Kept
<1>1. UNCHANGED <<dialog, confirm, tree, initialWapPending, booting,
                  accepted, pending, active, busy, answers,
                  launched, handled, done, lastID, old, expired, rebooted, held,
                  foreign, crashes>>
  BY DEF NetworkUnchanged, service, delivered, clock, counters
<1>2. /\ dev' \in Device /\ dev'.id = dev.id /\ dev'.type = dev.type
      /\ dev'.attempts = dev.attempts /\ dev'.fota = dev.fota
      /\ dev'.state = dev.state /\ dev'.alarm = dev.alarm /\ dev'.out = <<>>
  BY <1>1 DEF IInv, TypeOK, Device
<1>3. TypeOK'
  <2>1. {ready', dialog', confirm', tree', initialWapPending', booting'}
            \subseteq BOOLEAN
    BY <1>1 DEF IInv, TypeOK
  <2> QED
    BY <1>1, <1>2, <2>1 DEF IInv, TypeOK
<1>4. NotForgotten'
  BY <1>1, <1>2 DEF IInv, NotForgotten
<1> QED
  BY <1>1, <1>2, <1>3, <1>4, OutsideStep

LEMMA NetworksStep ==
    ASSUME IInv, NEW n \in Networks, NetworkAvailable(n) \/ NetworkUnavailable(n)
    PROVE  Kept
<1>1. dev \in Device /\ dev.dcs \in DataConnections
  BY DEF IInv, TypeOK, Device
<1>2. CASE NetworkAvailable(n)
  <2> DEFINE c == [dev.dcs EXCEPT !.waiting = @ \ {n}, !.available = @ \cup {n}]
  <2>1. dev' = [dev EXCEPT !.dcs = c]
    BY <1>1, <1>2 DEF NetworkAvailable, Device, DataConnections
  <2>2. c \in DataConnections
    BY <1>1 DEF DataConnections
  <2>3. ready' \in BOOLEAN /\ UNCHANGED NetworkUnchanged
    BY <1>2 DEF NetworkAvailable
  <2> HIDE DEF c
  <2> QED
    BY <2>1, <2>2, <2>3, NetworkStep
<1>3. CASE NetworkUnavailable(n)
  <2> DEFINE w == (dev.dcs.waiting \ {n}) \cup (IF n = "wifi" THEN {"cell"} ELSE {})
             c == [dev.dcs EXCEPT !.waiting = w]
  <2>1. dev' = [dev EXCEPT !.dcs = c]
    BY <1>1, <1>3 DEF NetworkUnavailable, Device, DataConnections
  <2>2. w \subseteq Networks
    BY <1>1 DEF DataConnections, Networks
  <2> HIDE DEF w
  <2>3. c \in DataConnections
    BY <1>1, <2>2 DEF DataConnections
  <2>4. ready' \in BOOLEAN /\ UNCHANGED NetworkUnchanged
    BY <1>3, Known DEF NetworkUnavailable
  <2> HIDE DEF c
  <2> QED
    BY <2>1, <2>3, <2>4, NetworkStep
<1> QED
  BY <1>2, <1>3

LEMMA ServiceStepStep == ASSUME IInv, ServiceStep PROVE Kept
<1>1. UNCHANGED <<dev, ready, dialog, confirm, tree, initialWapPending, booting,
                  launched, handled, done, lastID, old, expired, rebooted, held,
                  foreign, crashes>>
  BY DEF ServiceStep, ServiceUnchanged, delivered, clock, counters
<1>2. /\ accepted = 1..Len(launched) /\ pending \in Seq(accepted)
      /\ active \in accepted \cup {0} /\ busy \in BOOLEAN
      /\ answers \in Seq([req : accepted, ret : {"success", "fail"}])
      /\ handled \in 0..Len(answers)
  BY DEF IInv, TypeOK
<1>3. /\ accepted' = accepted /\ pending' \in Seq(accepted)
      /\ active' \in accepted \cup {0} /\ busy' \in BOOLEAN
      /\ answers' \in Seq([req : accepted, ret : {"success", "fail"}])
      /\ handled \in 0..Len(answers')
  <2>1. CASE Client!Skip
    BY <1>2, <2>1 DEF Client!Skip
  <2>2. CASE Client!Begin
    BY <1>2, <2>2 DEF Client!Begin
  <2>3. CASE Client!Engage
    BY <1>2, <2>3 DEF Client!Engage
  <2>4. CASE Client!Finish
    BY <1>2, <2>4 DEF Client!Finish
  <2>5. ASSUME NEW ret \in {"success", "fail"}, Client!Answer(ret)
        PROVE  /\ accepted' = accepted /\ pending' \in Seq(accepted)
               /\ active' \in accepted \cup {0} /\ busy' \in BOOLEAN
               /\ answers' \in Seq([req : accepted, ret : {"success", "fail"}])
               /\ handled \in 0..Len(answers')
    <3> DEFINE a == [req |-> active, ret |-> ret]
               A == [req : accepted, ret : {"success", "fail"}]
    <3>1. /\ active # 0 /\ answers' = Append(answers, a)
          /\ UNCHANGED <<accepted, pending, active, busy>>
      BY <2>5 DEF Client!Answer
    <3>2. a \in A /\ answers \in Seq(A)
      BY <1>2, <3>1
    <3> HIDE DEF a, A
    <3>3. answers' \in Seq(A) /\ Len(answers') = Len(answers) + 1
          /\ Len(answers) \in Nat
      BY <3>1, <3>2, LenProperties
    <3>4. handled \in 0..Len(answers')
      BY <1>2, <3>3
    <3> QED
      BY <1>2, <3>1, <3>3, <3>4 DEF A
  <2> QED
    BY <2>1, <2>2, <2>3, <2>4, <2>5 DEF ServiceStep
<1>4. TypeOK'
  BY <1>1, <1>2, <1>3 DEF IInv, TypeOK
<1>5. NotForgotten'
  BY <1>1 DEF IInv, NotForgotten
<1> QED
  BY <1>1, <1>4, <1>5, OutsideStep

LEMMA AgeStep == ASSUME IInv, Age PROVE Kept
<1>1. /\ old' = TRUE /\ expired' = (old \/ ~rebooted)
      /\ UNCHANGED <<dev, ready, dialog, confirm, tree, initialWapPending, booting,
                     accepted, pending, active, busy, answers,
                     launched, handled, done, lastID, rebooted, held,
                     foreign, crashes>>
  BY DEF Age, service, delivered, counters
<1>2. TypeOK'
  <2>1. {old', expired', rebooted', held'} \subseteq BOOLEAN
    BY <1>1 DEF IInv, TypeOK
  <2> QED
    BY <1>1, <2>1 DEF IInv, TypeOK
<1>3. NotForgotten'
  BY <1>1 DEF IInv, NotForgotten
<1> QED
  BY <1>1, <1>2, <1>3, OutsideStep

\* What a process that dies leaves of the client service.
LEMMA Lost ==
    ASSUME IInv, Client!Lose, launched' = launched
    PROVE  /\ accepted' = 1..Len(launched') /\ pending' \in Seq(accepted')
           /\ active' \in accepted' \cup {0} /\ busy' \in BOOLEAN
           /\ answers' \in Seq([req : accepted', ret : {"success", "fail"}])
           /\ answers' = answers
<1>1. /\ pending' = <<>> /\ active' = 0 /\ busy' = FALSE
      /\ UNCHANGED <<accepted, answers>>
  BY DEF Client!Lose
<1>2. /\ accepted = 1..Len(launched)
      /\ answers \in Seq([req : accepted, ret : {"success", "fail"}])
  BY DEF IInv, TypeOK
<1>3. pending' \in Seq(accepted')
  BY <1>1
<1>4. busy' \in BOOLEAN /\ active' \in accepted' \cup {0}
  BY <1>1
<1> QED
  BY <1>1, <1>2, <1>3, <1>4

LEMMA CrashStep == ASSUME IInv, NEW n \in Networks, Crash(n) PROVE Kept
<1> DEFINE c == [Off EXCEPT !.on = TRUE, !.waiting = {n}]
<1>1. /\ crashes < MaxCrashes /\ crashes' = crashes + 1 /\ Client!Lose
      /\ initialWapPending' = FALSE /\ dialog' = FALSE
      /\ dev' = IF dev.dcs.on THEN [dev EXCEPT !.dcs = c] ELSE dev
      /\ UNCHANGED <<ready, confirm, tree, booting, launched, handled, done, lastID,
                     old, expired, rebooted, held, foreign>>
  BY DEF Crash, delivered, clock
<1>2. c \in DataConnections
  BY OffTyped DEF DataConnections
<1> HIDE DEF c
<1>3. /\ dev' \in Device /\ dev'.id = dev.id /\ dev'.type = dev.type
      /\ dev'.attempts = dev.attempts /\ dev'.fota = dev.fota
      /\ dev'.state = dev.state /\ dev'.alarm = dev.alarm /\ dev'.out = <<>>
  BY <1>1, <1>2 DEF IInv, TypeOK, Device
<1>4. /\ accepted' = 1..Len(launched') /\ pending' \in Seq(accepted')
      /\ active' \in accepted' \cup {0} /\ busy' \in BOOLEAN
      /\ answers' \in Seq([req : accepted', ret : {"success", "fail"}])
      /\ answers' = answers
  BY <1>1, Lost
<1>5. TypeOK'
  <2>1. {ready', dialog', confirm', tree', initialWapPending', booting'}
            \subseteq BOOLEAN
    BY <1>1 DEF IInv, TypeOK
  <2>2. crashes' \in 0..MaxCrashes
    BY <1>1, Bounds DEF IInv, TypeOK
  <2>3. {old', expired', rebooted', held'} \subseteq BOOLEAN
    BY <1>1 DEF IInv, TypeOK
  <2> QED
    BY <1>1, <1>3, <1>4, <2>1, <2>2, <2>3 DEF IInv, TypeOK
<1>6. NotForgotten'
  BY <1>1, <1>3 DEF IInv, NotForgotten
<1> QED
  BY <1>1, <1>3, <1>5, <1>6, OutsideStep

LEMMA RebootStep == ASSUME IInv, Reboot PROVE Kept
<1>1. /\ crashes < MaxCrashes /\ crashes' = crashes + 1 /\ Client!Lose
      /\ handled' = Len(answers)
      /\ dev' = [dev EXCEPT !.alarm = FALSE, !.notification = FALSE, !.dcs = Off]
      /\ ready' = FALSE /\ dialog' = FALSE /\ confirm' = FALSE
      /\ initialWapPending' = FALSE /\ booting' = TRUE
      /\ rebooted' = (dev.id # NoID) /\ expired' = FALSE
      /\ UNCHANGED <<tree, launched, done, lastID, old, held, foreign>>
  BY DEF Reboot
<1>2. /\ dev' \in Device /\ dev'.id = dev.id /\ dev'.type = dev.type
      /\ dev'.attempts = dev.attempts /\ dev'.fota = dev.fota /\ dev'.out = <<>>
  BY <1>1, OffTyped DEF IInv, TypeOK, Device
<1>3. /\ accepted' = 1..Len(launched') /\ pending' \in Seq(accepted')
      /\ active' \in accepted' \cup {0} /\ busy' \in BOOLEAN
      /\ answers' \in Seq([req : accepted', ret : {"success", "fail"}])
      /\ answers' = answers
  BY <1>1, Lost
<1>4. TypeOK'
  <2>1. {ready', dialog', confirm', tree', initialWapPending', booting'}
            \subseteq BOOLEAN
    BY <1>1 DEF IInv, TypeOK
  <2>2. crashes' \in 0..MaxCrashes
    BY <1>1, Bounds DEF IInv, TypeOK
  <2>3. {old', expired', rebooted', held'} \subseteq BOOLEAN
    BY <1>1 DEF IInv, TypeOK
  <2>4. handled' \in 0..Len(answers')
    BY <1>1, <1>3, LenProperties DEF IInv, TypeOK
  <2> QED
    BY <1>1, <1>2, <1>3, <2>1, <2>2, <2>3, <2>4 DEF IInv, TypeOK
<1>5. NotForgotten'
  BY <1>1 DEF NotForgotten
<1> QED
  BY <1>1, <1>2, <1>4, <1>5, OutsideStep

LEMMA StutterStep == ASSUME IInv, UNCHANGED vars PROVE Kept
<1>1. UNCHANGED <<dev, ready, dialog, confirm, tree, initialWapPending, booting,
                  accepted, pending, active, busy, answers,
                  launched, handled, done, lastID, old, expired, rebooted, held,
                  foreign, crashes>>
  BY DEF vars, service, delivered, clock, counters
<1>2. TypeOK' /\ NotForgotten'
  BY <1>1 DEF IInv, TypeOK, NotForgotten
<1> QED
  BY <1>1, <1>2, OutsideStep

LEMMA NextStep == IInv /\ [Next]_vars => Kept
<1> SUFFICES ASSUME IInv, [Next]_vars PROVE Kept
  OBVIOUS
<1>1. ASSUME NEW e \in Environments,
             \/ ClientFota(e) \/ UserConfirmed(e) \/ StartUp(e) \/ TimeAlert(e)
             \/ NotifyResult(e)
      PROVE  Kept
  BY <1>1, ClientFotaStep, UserConfirmedStep, StartUpStep, TimeAlertStep,
     NotifyResultStep
<1>2. ASSUME NEW e \in Environments, NEW ui \in Modes, NEW written \in BOOLEAN,
             WapPush(ui, written, e)
      PROVE  Kept
  BY <1>2, WapPushStep
<1>3. CASE BadWapPush \/ DataConnectionReady \/ ServiceResult
  BY <1>3, BadWapPushStep, DataConnectionReadyStep, ServiceResultStep
<1>4. CASE CancelSession \/ InjectPackage0
  <2>1. /\ [id |-> NoID, type |-> "cancel"] \in Launches
        /\ [id |-> InjectedID, type |-> "client"] \in Launches
    BY Bounds DEF Launches, Types
  <2> QED
    BY <1>4, <2>1, OtherLaunchStep DEF CancelSession, InjectPackage0
<1>5. CASE OpenDialog \/ UserConfirms \/ UserDenies
  BY <1>5, OpenDialogStep, UserConfirmsStep, UserDeniesStep
<1>6. ASSUME NEW n \in Networks,
             NetworkAvailable(n) \/ NetworkUnavailable(n) \/ Crash(n)
      PROVE  Kept
  BY <1>6, NetworksStep, CrashStep
<1>7. CASE ServiceStep \/ Age \/ Reboot
  BY <1>7, ServiceStepStep, AgeStep, RebootStep
<1>8. CASE UNCHANGED vars
  BY <1>8, StutterStep
<1> QED
  BY <1>1, <1>2, <1>3, <1>4, <1>5, <1>6, <1>7, <1>8 DEF Next

LEMMA InitStep == Init => IInv
<1> SUFFICES ASSUME Init PROVE IInv
  OBVIOUS
<1>1. /\ dev.id = NoID /\ dev.type = "none" /\ dev.attempts = 0 /\ dev.fota = "init"
      /\ dev.state = "idle" /\ dev.out = <<>>
  BY DEF Init
<1>2. dev \in Device
  <2>1. /\ NoID \in 0..MaxMessages /\ 0 \in 0..MaxLaunches
        /\ "idle" \in States /\ "none" \in UIModes /\ "init" \in FotaStates
        /\ <<>> \in Seq(Launches)
    BY Bounds DEF States, UIModes, FotaStates
  <2> QED
    BY <2>1, OffTyped DEF Init, Device
<1>3. /\ accepted = {} /\ pending = <<>> /\ active = 0 /\ busy = FALSE
      /\ answers = <<>> /\ launched = <<>> /\ handled = 0 /\ done = {}
      /\ lastID = 0 /\ foreign = 0 /\ crashes = 0
  BY DEF Init, Client!Init
<1>4. TypeOK
  <2>1. {ready, dialog, confirm, tree, initialWapPending, booting} \subseteq BOOLEAN
    BY DEF Init
  <2>2. {old, expired, rebooted, held} \subseteq BOOLEAN
    BY DEF Init
  <2>3. accepted = 1..Len(launched) /\ Len(launched) <= MaxLaunches
    BY <1>3, Bounds
  <2>4. handled \in 0..Len(answers) /\ lastID \in 0..MaxMessages
        /\ foreign \in 0..MaxForeign /\ crashes \in 0..MaxCrashes
    BY <1>3, Bounds
  <2>5. busy \in BOOLEAN /\ done \subseteq 0..InjectedID
        /\ active \in accepted \cup {0}
    BY <1>3
  <2>6. /\ launched \in Seq(Launches) /\ pending \in Seq(accepted)
        /\ answers \in Seq([req : accepted, ret : {"success", "fail"}])
    BY <1>3, EmptySeq
  <2> QED
    BY <1>1, <1>2, <2>1, <2>2, <2>3, <2>4, <2>5, <2>6 DEF TypeOK
<1>5. IDInv
  BY <1>1, <1>3, Bounds DEF IDInv
<1>6. ReportInv
  <2>1. Reports = {}
    BY <1>3 DEF Reports
  <2> QED
    BY <1>1, <1>3, <2>1, FS_EmptySet DEF ReportInv, Owed
<1>7. NotForgotten
  BY <1>1 DEF NotForgotten
<1> QED
  BY <1>4, <1>5, <1>6, <1>7 DEF IInv

LEMMA Invariance == Spec => []IInv
<1>1. IInv /\ [Next]_vars => IInv'
  BY NextStep DEF Kept
<1> QED
  BY <1>1, InitStep, PTL DEF Spec

----------------------------------------------------------------------------
(* The theorems.                                                           *)

\* Every variable of the receiver keeps its type: the intents it sends have a
\* known type and an id that was given out, and the attempts never pass the
\* number of intents sent (DMIntentReceiver.java, DMHelper.java).
THEOREM ReceiverTypes == Spec => []TypeOK
BY Invariance, PTL DEF IInv

\* A message that is to lead to a session has an alarm or start_up ahead, or
\* was met by the emergency callback mode, in any order of broadcasts, results,
\* crashes and reboots (setState and subscribe of DMIntentReceiver.java).
THEOREM NeverForgotten == Spec => []NotForgotten
BY Invariance, PTL DEF IInv

\* A message whose success the receiver has heard of is not asked a session for
\* again (handleServiceResult and cleanAll of DMIntentReceiver.java).
THEOREM DoneForGood == Spec => DoneIsDone
<1>1. IInv /\ [Next]_vars => DoneStep
  BY NextStep DEF Kept
<1> QED
  BY <1>1, Invariance, PTL DEF Spec, DoneIsDone, DoneStep

\* Whatever leads to startDMSession tests the message's age first
\* (isMessageExpired and its callers, DMIntentReceiver.java).
THEOREM SessionsAreFresh == Spec => FreshSession
<1>1. IInv /\ [Next]_vars => FreshStep
  BY NextStep DEF Kept
<1> QED
  BY <1>1, Invariance, PTL DEF Spec, FreshSession, FreshStep

\* There are no more notification sessions than results to report, through the
\* "report" and "report_rptd" states of the FOTA APN (DMIntentReceiver.java).
THEOREM ReportsOnce == Spec => []ReportedOnce
<1>1. IInv => ReportedOnce
  <2> SUFFICES ASSUME IInv PROVE ReportedOnce
    OBVIOUS
  <2>1. Cardinality(Reports) \in Nat /\ foreign \in Nat
    BY ReportsFinite, Known, Bounds DEF IInv
  <2>2. Cardinality(Reports) <= foreign
    BY <2>1 DEF IInv, ReportInv, Owed
  <2> QED
    BY <2>2 DEF ReportedOnce, Reports
<1> QED
  BY <1>1, Invariance, PTL
=============================================================================
