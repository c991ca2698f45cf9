------------------------------ MODULE DMCommands ------------------------------
(***************************************************************************)
(* The commands of a server's messages: Add, Replace, Delete, Get, Exec,   *)
(* Copy, Alert, TNDS objects, Sequence and Atomic                          *)
(* (dm_ua_handlecommand.cc, dmSessionDefs.h), objects that come or go in   *)
(* chunks (SYNCML_DM_BuildPackage.cc), and the saves and rollbacks of the  *)
(* session's lock context (dmLockCtxMgr.cc), in the build of Android.mk:   *)
(* DM_ATOMIC_SUPPORTED, LOB_SUPPORT, TNDS_SUPPORT and DM_NO_LOCKING.       *)
(*                                                                         *)
(* The tree is the set of commands that had their effect on it.  A command *)
(* has one item and a number, its CmdID.  The statuses of a message fit in *)
(* the answer, memory is not exhausted, and a failing save or rollback is  *)
(* a message that cannot be processed (ParseFails).  The server sends the  *)
(* rest of an object only after its beginning was buffered.                *)
(***************************************************************************)
EXTENDS Naturals, Sequences

CONSTANTS URIs, NoURI,
          MaxCommands,  \* bound: commands in a session
          MaxDepth      \* bound: Atomics and Sequences in each other

ASSUME URIAssumption == NoURI \notin URIs
ASSUME BoundAssumption == MaxCommands \in Nat /\ MaxDepth \in Nat

VARIABLES
    s,         \* user data, the session's flag inAtomic, the tree and statuses
    lob,       \* the large object on its way
    results,   \* aResults, the number of results to send
    auth,      \* the server's message is authorized
    aborted,   \* SetSessionAborted
    nest,      \* the Atomics and Sequences around the next command
    n,         \* commands so far
    over,      \* the session: "none" as long as it goes on
    expect,    \* the server: the object whose rest it has to send
    edits, cut, torn, members, odd, cancelled  \* history, see below

history == <<expect, edits, cut, torn, members, odd, cancelled>>
vars == <<s, lob, results, auth, aborted, nest, n, over, history>>

Ids == 1..MaxCommands
Statuses == {"ok", "chunk", "failed", "not_executed", "rolled_back",
             "unsupported"}
Answers == [id : Ids, status : Statuses]
Replies == [id : Ids \cup {0}, status : Statuses]

NoLob == [cmd |-> "none", uri |-> NoURI]
Sending == [cmd |-> "Results", uri |-> NoURI]
Lobs == [cmd : {"Add", "Replace"}, uri : URIs] \cup {NoLob, Sending}

id == n + 1 \* the command that is handled

Init ==
    /\ s = [inAtomic |-> FALSE,       \* of the session object
            bValueSet |-> FALSE,      \* pAtomicStatus: an Atomic is open
            bInSequence |-> FALSE,
            cmdId |-> 0, status |-> "ok", \* pAtomicStatus
            rollback |-> FALSE, sequenceFailed |-> FALSE,
            alertState |-> "none",
            oStatus |-> <<>>,         \* statuses kept until the Atomic ends
            told |-> <<>>,            \* aStatuses, those sent included
            tree |-> {}, saved |-> {}]
    /\ lob = NoLob /\ results = 0
    /\ auth \in BOOLEAN /\ aborted = FALSE
    /\ nest = <<>> /\ n = 0 /\ over = "none"
    /\ expect = NoLob
    /\ edits = {}         \* commands that change the tree
    /\ cut = {}           \* Deletes that interrupted an object
    /\ torn = {}          \* objects applied without their beginning
    /\ members = {}       \* edits in the last Atomic
    /\ odd = {}           \* what went beyond the handlers' care
    /\ cancelled = FALSE  \* the user cancelled an alert

----------------------------------------------------------------------------
\* The user data and the statuses.

IsCommandSkipped ==
    \/ s.alertState = "cancel"
    \/ (s.bValueSet \/ s.bInSequence) /\ (s.rollback \/ s.alertState = "no")
    \/ s.bInSequence /\ s.sequenceFailed

Answer(t, i, st) == [t EXCEPT !.told = Append(@, [id |-> i, status |-> st])]
Keep(t, i, st) == [t EXCEPT !.oStatus = Append(@, [id |-> i, status |-> st])]

Save(t) == [t EXCEPT !.saved = t.tree]

\* Mutant: the statuses change, the tree does not.
AtomicRollbackStatuses(t) ==
    IF t.rollback THEN t
    ELSE [t EXCEPT !.rollback = TRUE, !.status = "failed",
                   !.oStatus = [i \in DOMAIN t.oStatus |->
                       [id |-> t.oStatus[i].id, status |-> "rolled_back"]]]

AtomicRollback(t) ==
    IF t.rollback THEN t
    ELSE [t EXCEPT !.tree = t.saved, !.rollback = TRUE, !.status = "failed",
                   !.oStatus = [i \in DOMAIN t.oStatus |->
                       [id |-> t.oStatus[i].id, status |-> "rolled_back"]]]

SequenceStatus(t, st) ==
    IF t.bInSequence /\ st # "ok" THEN [t EXCEPT !.sequenceFailed = TRUE] ELSE t

ProcessStatus(t, i, st) ==
    IF ~t.inAtomic THEN Answer(t, i, st)
    ELSE Keep(IF st = "ok" THEN t ELSE AtomicRollback(t), i, st)

\* GenerateAlertForLOB: another kind of command ends the object on its way,
\* also one that is sent, whose result is dropped with it.
Interrupts(cmd) == lob # NoLob /\ lob.cmd # cmd

\* Mutant: a result is dropped whatever the object was.
LargeObjectClearAny ==
    lob' = NoLob /\ results' = results - 1

LargeObjectClear ==
    /\ lob' = NoLob
    /\ results' = IF lob = Sending THEN results - 1 ELSE results

----------------------------------------------------------------------------
\* The commands of a message.

Command == over = "none" /\ n < MaxCommands /\ n' = n + 1

IsEdit ==
    /\ edits' = edits \cup {id}
    /\ members' = IF s.inAtomic THEN members \cup {id} ELSE members

\* An object comes whole, or in chunks of which the first has its size and the
\* last no MoreData.
Buffered(here) == [status |-> "chunk", lob |-> here, add |-> {}]
Applied == [status |-> "ok", lob |-> NoLob, add |-> {id}]
Failed == [status |-> "failed", lob |-> NoLob, add |-> {}]

\* LargeObjectRecvFirstChunk: what has no MoreData is a whole object.
RecvFirstChunk(here, part) ==
    IF part = "first" THEN Buffered(here)
    ELSE IF part \in {"whole", "last"} THEN Applied ELSE Failed

\* LargeObjectRecvNextChunk: another URI, a second size, a size that does not
\* match are failures.
RecvNextChunk(here, part) ==
    IF lob = here /\ part = "next" THEN Buffered(here)
    ELSE IF lob = here /\ part = "last" THEN Applied ELSE Failed

Receive(here, part, ok) ==
    IF ~ok THEN Failed
    ELSE IF lob = NoLob THEN RecvFirstChunk(here, part)
    ELSE RecvNextChunk(here, part)

\* The server goes on with the object whose beginning was buffered.
Parts(here) ==
    IF expect = NoLob THEN {"whole", "first"}
    ELSE IF expect = here THEN {"whole", "next", "last"} ELSE {"whole"}

\* ProcessCommand, for Add and Replace.  PrepareCommandItem refuses an item
\* without a good URI, which is no failure to a Sequence.
Edit(cmd, uri, part, outcome) ==
    LET here == [cmd |-> cmd, uri |-> uri]
        r == Receive(here, part, outcome = "ok")
        t == [s EXCEPT !.tree = @ \cup r.add]
        received == ~Interrupts(cmd) /\ auth /\ ~IsCommandSkipped
                        /\ outcome # "refused"
    IN  /\ Command /\ IsEdit /\ part \in Parts(here)
        /\ \/ /\ Interrupts(cmd)
              /\ s' = ProcessStatus(s, id, "failed") /\ LargeObjectClear
           \/ /\ ~Interrupts(cmd) /\ ~auth
              /\ s' = Answer(s, id, "failed")
              /\ UNCHANGED <<lob, results>>
           \/ /\ ~Interrupts(cmd) /\ auth /\ IsCommandSkipped
              /\ s' = ProcessStatus(s, id, "not_executed")
              /\ UNCHANGED <<lob, results>>
           \/ /\ ~Interrupts(cmd) /\ auth /\ ~IsCommandSkipped
              /\ outcome = "refused"
              /\ s' = ProcessStatus(s, id, "failed")
              /\ UNCHANGED <<lob, results>>
           \/ /\ received
              /\ s' = ProcessStatus(SequenceStatus(t, r.status), id, r.status)
              /\ lob' = r.lob
              /\ UNCHANGED results
        /\ expect' = IF received /\ r.status = "chunk" THEN here ELSE NoLob
        /\ torn' = IF received /\ r.add # {} /\ lob = NoLob /\ part = "last"
                   THEN torn \cup {id} ELSE torn
        /\ UNCHANGED <<auth, aborted, nest, over, cut, odd, cancelled>>

\* ProcessCommand and ProcessTndsCommand: a TNDS object saves the tree, has an
\* Atomic of its own, which it does not commit, and rolls back when a node
\* fails after others; not when the failure is FEATURE_NOT_SUPPORTED.
Tnds(cmd, outcome) ==
    LET t == [Save(s) EXCEPT !.tree = @ \cup {id}]
        r == CASE outcome = "ok" -> [s |-> t, status |-> "ok"]
               [] outcome = "fails" ->
                      [s |-> AtomicRollback(t), status |-> "failed"]
               [] outcome = "unsupported" -> [s |-> t, status |-> "unsupported"]
               [] outcome = "refused" -> [s |-> s, status |-> "failed"]
        processed == ~Interrupts(cmd) /\ auth /\ ~IsCommandSkipped
    IN  /\ Command /\ IsEdit
        /\ \/ /\ Interrupts(cmd)
              /\ s' = ProcessStatus(s, id, "failed") /\ LargeObjectClear
           \/ /\ ~Interrupts(cmd) /\ ~auth
              /\ s' = Answer(s, id, "failed")
              /\ UNCHANGED <<lob, results>>
           \/ /\ ~Interrupts(cmd) /\ auth /\ IsCommandSkipped
              /\ s' = ProcessStatus(s, id, "not_executed")
              /\ UNCHANGED <<lob, results>>
           \/ /\ processed
              /\ s' = ProcessStatus(SequenceStatus(r.s, r.status), id, r.status)
              /\ UNCHANGED <<lob, results>>
        /\ expect' = NoLob
        /\ odd' = IF processed /\ (s.inAtomic \/ outcome # "ok")
                  THEN odd \cup {"tnds"} ELSE odd
        /\ UNCHANGED <<auth, aborted, nest, over, cut, torn, cancelled>>

\* HandleDeleteCommand asks for an interrupted object as a Replace does, and
\* answers with dm_stat, which is still SUCCESS.
Delete(outcome) ==
    LET t == IF outcome = "ok" THEN [s EXCEPT !.tree = @ \cup {id}] ELSE s
        st == IF outcome = "ok" THEN "ok" ELSE "failed"
    IN  /\ Command /\ IsEdit
        /\ \/ /\ Interrupts("Replace")
              /\ s' = ProcessStatus(s, id, "ok") /\ LargeObjectClear
              /\ cut' = cut \cup {id}
           \/ /\ ~Interrupts("Replace") /\ ~auth
              /\ s' = Answer(s, id, "failed")
              /\ UNCHANGED <<lob, results, cut>>
           \/ /\ ~Interrupts("Replace") /\ auth /\ IsCommandSkipped
              /\ s' = ProcessStatus(s, id, "not_executed")
              /\ UNCHANGED <<lob, results, cut>>
           \/ /\ ~Interrupts("Replace") /\ auth /\ ~IsCommandSkipped
              /\ s' = ProcessStatus(IF outcome = "refused" THEN s
                                    ELSE SequenceStatus(t, st), id, st)
              /\ UNCHANGED <<lob, results, cut>>
        /\ expect' = NoLob
        /\ UNCHANGED <<auth, aborted, nest, over, torn, odd, cancelled>>

\* HandleGetCommand, never inside an Atomic.  A failing Get is no failure to
\* a Sequence.
Get(ok) ==
    /\ Command
    /\ \/ /\ Interrupts("Get")
          /\ s' = ProcessStatus(s, id, "failed") /\ LargeObjectClear
       \/ /\ ~Interrupts("Get") /\ s.inAtomic
          /\ s' = Answer(AtomicRollback(s), id, "failed")
          /\ UNCHANGED <<lob, results>>
       \/ /\ ~Interrupts("Get") /\ ~s.inAtomic /\ ~auth
          /\ s' = Answer(s, id, "failed")
          /\ UNCHANGED <<lob, results>>
       \/ /\ ~Interrupts("Get") /\ ~s.inAtomic /\ auth /\ IsCommandSkipped
          /\ s' = Answer(s, id, "not_executed")
          /\ UNCHANGED <<lob, results>>
       \/ /\ ~Interrupts("Get") /\ ~s.inAtomic /\ auth /\ ~IsCommandSkipped
          /\ s' = Answer(s, id, IF ok THEN "ok" ELSE "failed")
          /\ results' = IF ok THEN results + 1 ELSE results
          /\ UNCHANGED lob
    /\ expect' = NoLob
    /\ UNCHANGED <<auth, aborted, nest, over, edits, cut, torn, members, odd,
                   cancelled>>

\* HandleExecCommand, never inside an Atomic; it is skipped by nothing, and
\* dropped without a status when it interrupts an object.
Exec(ok) ==
    LET st == IF ok THEN "ok" ELSE "failed"
    IN  /\ Command
        /\ \/ /\ Interrupts("Exec") /\ LargeObjectClear
              /\ odd' = odd \cup {"chunk"}
              /\ UNCHANGED s
           \/ /\ ~Interrupts("Exec") /\ s.inAtomic
              /\ s' = Answer(AtomicRollback(s), id, "failed")
              /\ UNCHANGED <<lob, results, odd>>
           \/ /\ ~Interrupts("Exec") /\ ~s.inAtomic /\ ~auth
              /\ s' = Answer(s, id, "failed")
              /\ UNCHANGED <<lob, results, odd>>
           \/ /\ ~Interrupts("Exec") /\ ~s.inAtomic /\ auth
              /\ s' = Answer(SequenceStatus(s, st), id, st)
              /\ results' \in IF ok THEN {results, results + 1} ELSE {results}
              /\ UNCHANGED <<lob, odd>>
        /\ expect' = NoLob
        /\ UNCHANGED <<auth, aborted, nest, over, edits, cut, torn, members,
                       cancelled>>

Copy ==
    /\ Command
    /\ s' = Answer(s, id, "unsupported")
    /\ expect' = NoLob
    /\ UNCHANGED <<lob, results, auth, aborted, nest, over, edits, cut, torn,
                   members, odd, cancelled>>

\* HandleAlertCommand, ProcessAlertCommand and processResponse.  The alerts
\* that ask nothing are "ok", "abort" (1223) and "unsupported"; those that
\* ask the user are skipped like other commands.
Alert(action) ==
    LET asks == action \in {"yes", "no", "cancel", "leave"}
        skipped == asks /\ (IsCommandSkipped \/ aborted)
        st == CASE skipped -> "not_executed"
                [] ~skipped /\ action \in {"no", "cancel", "incomplete"} ->
                       "failed"
                [] action = "unsupported" -> "unsupported"
                [] ~skipped /\ action \in {"ok", "abort", "yes", "leave"} -> "ok"
        t == IF action \in {"no", "cancel"} /\ ~skipped
             THEN [s EXCEPT !.alertState = action] ELSE s
    IN  /\ Command
        /\ \/ /\ ~auth
              /\ s' = Answer(s, id, "failed")
              /\ UNCHANGED <<aborted, cancelled>>
           \/ /\ auth
              /\ s' = IF ~s.inAtomic THEN Answer(t, id, st)
                      ELSE Keep(IF st \in {"ok", "unsupported"} THEN t
                                ELSE AtomicRollback(t), id, st)
              /\ aborted' = (aborted \/ action = "abort"
                                \/ (action = "leave" /\ ~skipped))
              /\ cancelled' = (cancelled \/ (action = "cancel" /\ ~skipped))
        /\ UNCHANGED <<lob, results, auth, nest, over, expect, edits, cut,
                       torn, members, odd>>

----------------------------------------------------------------------------
\* Sequence and Atomic.  The toolkit calls the end of each that has begun,
\* also of one that the start's handler refused or dropped.

Opens(kind) == Command /\ Len(nest) < MaxDepth /\ nest' = Append(nest, kind)
Closes(kind) ==
    /\ over = "none" /\ nest # <<>> /\ nest[Len(nest)] = kind
    /\ nest' = SubSeq(nest, 1, Len(nest) - 1)

StartSequence ==
    /\ Opens("Sequence")
    /\ \/ /\ Interrupts("Sequence") /\ LargeObjectClear
          /\ odd' = odd \cup {"chunk"}
          /\ UNCHANGED s
       \/ /\ ~Interrupts("Sequence")
          /\ s' = Answer([s EXCEPT !.bInSequence = TRUE], id,
                         IF auth THEN "ok" ELSE "failed")
          /\ UNCHANGED <<lob, results, odd>>
    /\ expect' = NoLob
    /\ UNCHANGED <<auth, aborted, over, edits, cut, torn, members, cancelled>>

EndSequence ==
    /\ Closes("Sequence")
    /\ s' = [s EXCEPT !.bInSequence = FALSE, !.sequenceFailed = FALSE,
                      !.alertState = IF @ = "cancel" THEN @ ELSE "none"]
    /\ UNCHANGED <<lob, results, auth, aborted, n, over, history>>

\* Mutant: the tree is not saved before the Atomic.
BeginAtomicUnsaved(t) ==
    [t EXCEPT !.inAtomic = TRUE, !.bValueSet = TRUE, !.cmdId = id,
              !.status = "ok"]

BeginAtomic(t) ==
    [Save(t) EXCEPT !.inAtomic = TRUE, !.bValueSet = TRUE, !.cmdId = id,
                    !.status = "ok"]

\* An Atomic inside an Atomic is refused, but its end is handled as an end.
StartAtomic ==
    /\ Opens("Atomic")
    /\ \/ /\ Interrupts("Atomic") /\ LargeObjectClear
          /\ odd' = odd \cup {"chunk"}
          /\ UNCHANGED <<s, members>>
       \/ /\ ~Interrupts("Atomic") /\ auth /\ s.inAtomic
          /\ s' = Answer(s, id, "failed")
          /\ odd' = odd \cup {"nested"}
          /\ UNCHANGED <<lob, results, members>>
       \/ /\ ~Interrupts("Atomic") /\ auth /\ ~s.inAtomic
          /\ s' = BeginAtomic(s) /\ members' = {}
          /\ UNCHANGED <<lob, results, odd>>
       \/ /\ ~Interrupts("Atomic") /\ ~auth
          /\ s' = Answer(s, id, "failed")
          /\ UNCHANGED <<lob, results, members, odd>>
    /\ expect' = NoLob
    /\ UNCHANGED <<auth, aborted, over, edits, cut, torn, cancelled>>

\* Mutant: the kept statuses are not forgotten.
FinishAtomicKeeps(t) ==
    [t EXCEPT !.told = (@ \o <<[id |-> t.cmdId, status |-> t.status]>>) \o t.oStatus,
              !.bValueSet = FALSE, !.rollback = FALSE,
              !.alertState = IF @ = "cancel" THEN @ ELSE "none"]
\* Mutant: a cancelled alert is forgotten.
FinishAtomicForgets(t) ==
    [t EXCEPT !.told = (@ \o <<[id |-> t.cmdId, status |-> t.status]>>) \o t.oStatus,
              !.bValueSet = FALSE, !.rollback = FALSE, !.oStatus = <<>>,
              !.alertState = "none"]

\* The statuses are told and EndAtomic resets the user data.
FinishAtomic(t) ==
    [t EXCEPT !.told = (@ \o <<[id |-> t.cmdId, status |-> t.status]>>) \o t.oStatus,
              !.bValueSet = FALSE, !.rollback = FALSE, !.oStatus = <<>>,
              !.alertState = IF @ = "cancel" THEN @ ELSE "none"]

\* Mutant: no commit.
CommitNot(t) == t

Commit(t) == IF t.rollback THEN t ELSE Save(t)

EndAtomic ==
    /\ Closes("Atomic")
    /\ s' = IF auth THEN FinishAtomic(Commit([s EXCEPT !.inAtomic = FALSE]))
            ELSE s
    /\ UNCHANGED <<lob, results, auth, aborted, n, over, history>>

----------------------------------------------------------------------------
\* LargeObjectSendNextChunk: a result that is on its way goes on or is ended.
GoesOn(sent, chunk) == lob = Sending => sent > 0 \/ chunk

\* LargeObjectSendFirstChunk: a result that fits clears the object on its way,
\* whichever it is; one that does not is begun.
AfterSending(sent, chunk) ==
    IF chunk THEN Sending ELSE IF sent > 0 THEN NoLob ELSE lob

\* HandleEndMessage: so many results are sent, and the next one in part or
\* not at all.  Results that lie in a file of their own, for which
\* m_bProcessingLargeObject is set in passing (BuildPackage.cc:4256-4260), are
\* left out.
EndMessage(sent, chunk) ==
    /\ over = "none" /\ nest = <<>> /\ ~aborted
    /\ sent + (IF chunk THEN 1 ELSE 0) <= results
    /\ GoesOn(sent, chunk)
    /\ results' = results - sent
    /\ lob' = AfterSending(sent, chunk)
    /\ auth' \in BOOLEAN
    /\ UNCHANGED <<s, aborted, nest, n, over, history>>

\* The session is left, and its lock context saves the tree.
EndSession ==
    /\ over = "none" /\ nest = <<>>
    /\ over' = "success" /\ s' = Save(s)
    /\ UNCHANGED <<lob, results, auth, aborted, nest, n, history>>

\* A message that cannot be processed to its end; or the process dies.
ParseFails ==
    /\ over = "none"
    /\ over' = "fail" /\ s' = [s EXCEPT !.tree = s.saved]
    /\ UNCHANGED <<lob, results, auth, aborted, nest, n, history>>

Next ==
    \/ \E cmd \in {"Add", "Replace"}, uri \in URIs,
          part \in {"whole", "first", "next", "last"},
          outcome \in {"ok", "fails", "refused"} : Edit(cmd, uri, part, outcome)
    \/ \E cmd \in {"Add", "Replace"},
          outcome \in {"ok", "fails", "unsupported", "refused"} :
              Tnds(cmd, outcome)
    \/ \E outcome \in {"ok", "fails", "refused"} : Delete(outcome)
    \/ \E ok \in BOOLEAN : Get(ok)
    \/ \E ok \in BOOLEAN : Exec(ok)
    \/ Copy
    \/ \E action \in {"ok", "abort", "unsupported", "incomplete", "yes", "no",
                      "cancel", "leave"} : Alert(action)
    \/ StartSequence \/ EndSequence \/ StartAtomic \/ EndAtomic
    \/ \E sent \in 0..results, chunk \in BOOLEAN : EndMessage(sent, chunk)
    \/ EndSession \/ ParseFails

Spec == Init /\ [][Next]_vars

----------------------------------------------------------------------------
Told == {s.told[i] : i \in DOMAIN s.told}

UserData ==
    [inAtomic : BOOLEAN, bValueSet : BOOLEAN, bInSequence : BOOLEAN,
     cmdId : Ids \cup {0}, status : Statuses,
     rollback : BOOLEAN, sequenceFailed : BOOLEAN,
     alertState : {"none", "no", "cancel"},
     oStatus : Seq(Answers), told : Seq(Replies),
     tree : SUBSET Ids, saved : SUBSET Ids]

TypeOK ==
    /\ s \in UserData
    /\ lob \in Lobs /\ results \in Nat /\ (lob = Sending => results > 0)
    /\ auth \in BOOLEAN /\ aborted \in BOOLEAN
    /\ nest \in Seq({"Atomic", "Sequence"}) /\ n \in 0..MaxCommands
    /\ over \in {"none", "success", "fail"}
    /\ expect \in Lobs
    /\ edits \subseteq Ids /\ cut \subseteq Ids /\ torn \subseteq Ids
    /\ members \subseteq Ids
    /\ odd \subseteq {"tnds", "nested", "chunk"}
    /\ cancelled \in BOOLEAN

\* A command that changes the tree and is answered with SUCCESS has its effect
\* as long as the session does not fail, whatever is rolled back later, and
\* keeps it on disk when the session ends (dm_ua_handlecommand.cc:342-364,
\* 2352); but a Delete that interrupted an object (README, section 6).
SuccessHolds ==
    over # "fail" =>
        \A e \in Told : (e.status = "ok" /\ e.id \in edits \ cut) =>
            e.id \in s.tree /\ (over = "success" => e.id \in s.saved)

\* One that is answered with another status has left nothing in the tree
\* (AtomicRollback, dm_ua_handlecommand.cc:342); but around a TNDS object in
\* an Atomic or after one that failed.
FailureLeavesNothing ==
    "tnds" \notin odd =>
        \A e \in Told : (e.status # "ok" /\ e.id \in edits) =>
            e.id \notin s.tree \cup s.saved

\* The edits of an Atomic reach the disk together or not at all, a failure or
\* death in between included, and its status tells which
\* (dm_ua_handlecommand.cc:2352-2463); but for what README, section 6, tells
\* of TNDS objects, Atomics inside Atomics and interrupted objects.
AtomicAllOrNothing ==
    odd = {} =>
        IF s.inAtomic /\ over # "success"
        THEN members \cap s.saved = {}
        ELSE \/ members \cap (s.tree \cup s.saved) = {}
             \/ /\ members \ cut \subseteq s.saved
                /\ [id |-> s.cmdId, status |-> "ok"] \in Told

\* Every command is answered once, those of an Atomic when it ends
\* (dm_ua_handlecommand.cc:2426-2455).
Times(i) == {k \in DOMAIN s.told : s.told[k].id = i}
AnsweredOnce ==
    odd = {} =>
        /\ \A i \in 0..n : \A j, k \in Times(i) : j = k
        /\ (nest = <<>> /\ over = "none") => \A i \in 1..n : Times(i) # {}

\* Once the user has cancelled an alert nothing is added to the tree for the
\* rest of the session (alertState, dmSessionDefs.h:236-251).
CancelIsFinal == [][cancelled => s'.tree \subseteq s.tree]_vars

----------------------------------------------------------------------------
\* What a comment promises and the code does not keep.

\* "Receives the next/last chunk of a large object data"
\* (SYNCML_DM_BuildPackage.cc:3634): a last chunk ends the object that was
\* buffered before.
ObjectsAreWhole == torn = {}
=============================================================================
