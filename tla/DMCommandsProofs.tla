-------------------------- MODULE DMCommandsProofs --------------------------
(***************************************************************************)
(* Proofs about DMCommands, for every number of commands, every depth of   *)
(* Atomics and Sequences and every set of URIs.                            *)
(*                                                                         *)
(* Each invariant speaks about one state of the user data and the commands *)
(* so far.  The lemmas of a family say what the helpers Answer, Keep,      *)
(* AtomicRollback and ProcessStatus, which every handler is built from, do *)
(* to it; the step is then one case for each handler.  Sound: what is      *)
(* answered with success, or kept to be, is in the tree.  Clean: what is   *)
(* answered with a failure is neither in the tree nor saved, and what is   *)
(* kept is not saved.  CancelInv: what is saved is in the tree.            *)
(***************************************************************************)
EXTENDS DMCommands, TLAPS

LEMMA AnswerType ==
    ASSUME NEW t \in UserData, NEW i \in Ids, NEW st \in Statuses
    PROVE  Answer(t, i, st) \in UserData
  <1> DEFINE r == [id |-> i, status |-> st]
  <1>1. r \in Replies
    BY DEF Replies
  <1>2. t.told \in Seq(Replies)
    BY DEF UserData
  <1>3. Append(t.told, r) \in Seq(Replies)
    BY <1>1, <1>2
  <1> QED
    BY <1>3 DEF Answer, UserData

LEMMA KeepType ==
    ASSUME NEW t \in UserData, NEW i \in Ids, NEW st \in Statuses
    PROVE  Keep(t, i, st) \in UserData
  <1> DEFINE r == [id |-> i, status |-> st]
  <1>1. r \in Answers
    BY DEF Answers
  <1>2. t.oStatus \in Seq(Answers)
    BY DEF UserData
  <1>3. Append(t.oStatus, r) \in Seq(Answers)
    BY <1>1, <1>2
  <1> QED
    BY <1>3 DEF Keep, UserData

LEMMA SaveType ==
    ASSUME NEW t \in UserData
    PROVE  Save(t) \in UserData
  BY DEF Save, UserData

LEMMA RollbackType ==
    ASSUME NEW t \in UserData
    PROVE  AtomicRollback(t) \in UserData
  <1> DEFINE kept == [i \in DOMAIN t.oStatus |->
                         [id |-> t.oStatus[i].id, status |-> "rolled_back"]]
  <1>3. PICK m \in Nat : t.oStatus \in [1..m -> Answers]
    BY DEF UserData
  <1>4. \A i \in 1..m : t.oStatus[i].id \in Ids
    BY <1>3 DEF Answers
  <1>5. kept \in [1..m -> Answers]
    BY <1>3, <1>4 DEF Answers, Statuses
  <1>1. kept \in Seq(Answers)
    BY <1>5
  <1>2. "failed" \in Statuses
    BY DEF Statuses
  <1> QED
    BY <1>1, <1>2 DEF AtomicRollback, UserData

LEMMA SequenceStatusType ==
    ASSUME NEW t \in UserData, NEW st
    PROVE  SequenceStatus(t, st) \in UserData
  BY DEF SequenceStatus, UserData

LEMMA ProcessStatusType ==
    ASSUME NEW t \in UserData, NEW i \in Ids, NEW st \in Statuses
    PROVE  ProcessStatus(t, i, st) \in UserData
  BY AnswerType, KeepType, RollbackType DEF ProcessStatus

LEMMA KeptAreReplies ==
    ASSUME NEW t \in UserData
    PROVE  t.oStatus \in Seq(Replies)
  <1>1. PICK m \in Nat : t.oStatus \in [1..m -> Answers]
    BY DEF UserData
  <1>2. Answers \subseteq Replies
    BY DEF Answers, Replies
  <1>3. t.oStatus \in [1..m -> Replies]
    BY <1>1, <1>2
  <1> QED
    BY <1>3

LEMMA FinishType ==
    ASSUME NEW t \in UserData
    PROVE  FinishAtomic(t) \in UserData
  <1> DEFINE r == [id |-> t.cmdId, status |-> t.status]
             told == (t.told \o <<r>>) \o t.oStatus
             alert == IF t.alertState = "cancel" THEN t.alertState ELSE "none"
  <1>1. r \in Replies /\ t.told \in Seq(Replies)
    BY DEF Replies, UserData
  <1>2. t.oStatus \in Seq(Replies)
    BY KeptAreReplies
  <1>3. told \in Seq(Replies)
    BY <1>1, <1>2
  <1>4. alert \in {"none", "no", "cancel"}
    BY DEF UserData
  <1>5. <<>> \in Seq(Answers)
    OBVIOUS
  <1> QED
    BY <1>3, <1>4, <1>5 DEF FinishAtomic, UserData

LEMMA UnitTypes ==
    /\ {"ok", "chunk", "failed", "not_executed", "rolled_back",
        "unsupported"} = Statuses
    /\ \A i \in 0..MaxCommands : i < MaxCommands => i + 1 \in Ids
  BY BoundAssumption DEF Statuses, Ids

LEMMA TypeInit == Init => TypeOK
  <1> SUFFICES ASSUME Init
               PROVE  TypeOK
    OBVIOUS
  <1>1. <<>> \in Seq(Answers) /\ <<>> \in Seq(Replies)
    OBVIOUS
  <1>2. "ok" \in Statuses
    BY DEF Statuses
  <1>3. s \in UserData
    BY <1>1, <1>2 DEF Init, UserData
  <1>4. NoLob \in Lobs /\ NoLob # Sending
    BY DEF Lobs, NoLob, Sending
  <1>5. <<>> \in Seq({"Atomic", "Sequence"})
    OBVIOUS
  <1>6. /\ lob = NoLob /\ expect = NoLob /\ results = 0 /\ auth \in BOOLEAN
        /\ aborted = FALSE /\ nest = <<>> /\ n = 0 /\ over = "none"
    BY DEF Init
  <1>7. /\ edits = {} /\ cut = {} /\ torn = {} /\ members = {} /\ odd = {}
        /\ cancelled = FALSE
    BY DEF Init
  <1>8. results \in Nat /\ n \in 0..MaxCommands
    BY <1>6, BoundAssumption
  <1>9. lob \in Lobs /\ (lob = Sending => results > 0) /\ expect \in Lobs
    BY <1>4, <1>6
  <1>10. nest \in Seq({"Atomic", "Sequence"}) /\ over \in {"none", "success", "fail"}
    BY <1>5, <1>6
  <1>11. aborted \in BOOLEAN /\ cancelled \in BOOLEAN
    BY <1>6, <1>7
  <1> QED
    BY <1>3, <1>6, <1>7, <1>8, <1>9, <1>10, <1>11, Zenon DEF TypeOK

LEMMA TypeStep == TypeOK /\ [Next]_vars => TypeOK'
  <1> SUFFICES ASSUME TypeOK, [Next]_vars
               PROVE  TypeOK'
    OBVIOUS
  <1>a. s \in UserData
    BY DEF TypeOK
  <1> USE BoundAssumption
  <1>1. ASSUME NEW cmd \in {"Add", "Replace"}, NEW uri \in URIs,
               NEW part \in {"whole", "first", "next", "last"},
               NEW outcome \in {"ok", "fails", "refused"},
               Edit(cmd, uri, part, outcome)
        PROVE  TypeOK'
    <2> DEFINE here == [cmd |-> cmd, uri |-> uri]
               r == Receive(here, part, outcome = "ok")
               t == [s EXCEPT !.tree = @ \cup r.add]
    <2>1. here \in Lobs /\ here # Sending /\ NoLob \in Lobs
      BY DEF Lobs, Sending, NoLob
    <2>2. id \in Ids /\ n' \in 0..MaxCommands
      BY <1>1, UnitTypes DEF TypeOK, Edit, Command, id
    <2>3. r.status \in Statuses /\ r.lob \in {here, NoLob} /\ r.add \subseteq Ids
      BY <2>2 DEF Receive, RecvFirstChunk, RecvNextChunk, Buffered, Applied,
         Failed, Statuses
    <2>4. t \in UserData
      BY <1>a, <2>3 DEF UserData
    <2> HIDE DEF here, r, t
    <2>5. s' \in UserData
      BY <1>1, <1>a, <2>2, <2>3, <2>4, UnitTypes, AnswerType,
         ProcessStatusType, SequenceStatusType DEF Edit, here, r, t
    <2>6. results' \in Nat /\ (lob' = Sending => results' > 0)
      BY <1>1, <2>1, <2>3 DEF TypeOK, Edit, LargeObjectClear, Sending, NoLob,
         here, r
    <2>7. lob' \in Lobs /\ expect' \in Lobs
      BY <1>1, <2>1, <2>3 DEF TypeOK, Edit, LargeObjectClear, here, r
    <2> QED
      BY <1>1, <2>2, <2>5, <2>6, <2>7 DEF TypeOK, Edit, Command, IsEdit
  <1>2. ASSUME NEW cmd \in {"Add", "Replace"},
               NEW outcome \in {"ok", "fails", "unsupported", "refused"},
               Tnds(cmd, outcome)
        PROVE  TypeOK'
    <2>1. id \in Ids /\ n' \in 0..MaxCommands
      BY <1>2, UnitTypes DEF TypeOK, Tnds, Command, id
    <2>2. [Save(s) EXCEPT !.tree = @ \cup {id}] \in UserData
      BY <1>a, <2>1, SaveType DEF UserData
    <2>3. s' \in UserData
      <3>1. CASE outcome = "ok"
        BY <1>2, <1>a, <2>1, <2>2, <3>1, UnitTypes, AnswerType,
           ProcessStatusType, SequenceStatusType DEF Tnds
      <3>2. CASE outcome = "fails"
        BY <1>2, <1>a, <2>1, <2>2, <3>2, UnitTypes, AnswerType, RollbackType,
           ProcessStatusType, SequenceStatusType DEF Tnds
      <3>3. CASE outcome = "unsupported"
        BY <1>2, <1>a, <2>1, <2>2, <3>3, UnitTypes, AnswerType,
           ProcessStatusType, SequenceStatusType DEF Tnds
      <3>4. CASE outcome = "refused"
        BY <1>2, <1>a, <2>1, <2>2, <3>4, UnitTypes, AnswerType,
           ProcessStatusType, SequenceStatusType DEF Tnds
      <3> QED
        BY <3>1, <3>2, <3>3, <3>4
    <2>4. results' \in Nat /\ (lob' = Sending => results' > 0)
      BY <1>2 DEF TypeOK, Tnds, LargeObjectClear, Sending, NoLob
    <2>5. lob' \in Lobs /\ expect' \in Lobs
      BY <1>2 DEF TypeOK, Tnds, LargeObjectClear, Lobs
    <2> QED
      BY <1>2, <2>1, <2>3, <2>4, <2>5 DEF TypeOK, Tnds, Command, IsEdit
  <1>3. ASSUME NEW outcome \in {"ok", "fails", "refused"}, Delete(outcome)
        PROVE  TypeOK'
    <2>1. id \in Ids /\ n' \in 0..MaxCommands
      BY <1>3, UnitTypes DEF TypeOK, Delete, Command, id
    <2>2. [s EXCEPT !.tree = @ \cup {id}] \in UserData
      BY <1>a, <2>1 DEF UserData
    <2>3. s' \in UserData
      BY <1>3, <1>a, <2>1, <2>2, UnitTypes, AnswerType, ProcessStatusType,
         SequenceStatusType DEF Delete
    <2>4. results' \in Nat /\ (lob' = Sending => results' > 0)
      BY <1>3 DEF TypeOK, Delete, LargeObjectClear, Sending, NoLob
    <2>5. lob' \in Lobs /\ expect' \in Lobs
      BY <1>3 DEF TypeOK, Delete, LargeObjectClear, Lobs
    <2> QED
      BY <1>3, <2>1, <2>3, <2>4, <2>5 DEF TypeOK, Delete, Command, IsEdit
  <1>4. ASSUME NEW ok \in BOOLEAN, Get(ok)
        PROVE  TypeOK'
    <2>1. s' \in UserData
      BY <1>4, <1>a, UnitTypes, AnswerType, ProcessStatusType, RollbackType
         DEF TypeOK, Get, Command, id
    <2>2. results' \in Nat /\ (lob' = Sending => results' > 0)
      BY <1>4 DEF TypeOK, Get, LargeObjectClear, Sending, NoLob
    <2> QED
      BY <1>4, <2>1, <2>2 DEF TypeOK, Get, Command, LargeObjectClear, Lobs
  <1>5. ASSUME NEW ok \in BOOLEAN, Exec(ok)
        PROVE  TypeOK'
    <2>1. s' \in UserData
      BY <1>5, <1>a, UnitTypes, AnswerType, SequenceStatusType, RollbackType
         DEF TypeOK, Exec, Command, id
    <2>2. results' \in Nat /\ (lob' = Sending => results' > 0)
      BY <1>5 DEF TypeOK, Exec, LargeObjectClear, Sending, NoLob
    <2>3. odd' \subseteq {"tnds", "nested", "chunk"}
      BY <1>5 DEF TypeOK, Exec
    <2>4. lob' \in Lobs /\ expect' \in Lobs
      BY <1>5 DEF TypeOK, Exec, LargeObjectClear, Lobs
    <2> QED
      BY <1>5, <2>1, <2>2, <2>3, <2>4 DEF TypeOK, Exec, Command
  <1>6. CASE Copy
    <2>1. s' \in UserData
      BY <1>6, <1>a, UnitTypes, AnswerType DEF TypeOK, Copy, Command, id
    <2> QED
      BY <1>6, <2>1 DEF TypeOK, Copy, Command, Lobs
  <1>7. ASSUME NEW action \in {"ok", "abort", "unsupported", "incomplete",
                               "yes", "no", "cancel", "leave"},
               Alert(action)
        PROVE  TypeOK'
    <2>1. id \in Ids /\ n' \in 0..MaxCommands
      BY <1>7, UnitTypes DEF TypeOK, Alert, Command, id
    <2>2. \A a \in {"no", "cancel"} : [s EXCEPT !.alertState = a] \in UserData
      BY <1>a DEF UserData
    <2>3. s' \in UserData
      BY <1>7, <1>a, <2>1, <2>2, UnitTypes, AnswerType, KeepType, RollbackType
         DEF Alert
    <2>4. aborted' \in BOOLEAN /\ cancelled' \in BOOLEAN
      BY <1>7 DEF TypeOK, Alert
    <2> QED
      BY <1>7, <2>1, <2>3, <2>4 DEF TypeOK, Alert, Command
  <1>8. CASE StartSequence
    <2>1. id \in Ids /\ n' \in 0..MaxCommands
      BY <1>8, UnitTypes DEF TypeOK, StartSequence, Opens, Command, id
    <2>2. [s EXCEPT !.bInSequence = TRUE] \in UserData
      BY <1>a DEF UserData
    <2>3. s' \in UserData
      BY <1>8, <1>a, <2>1, <2>2, UnitTypes, AnswerType DEF StartSequence
    <2>4. results' \in Nat /\ (lob' = Sending => results' > 0)
      BY <1>8 DEF TypeOK, StartSequence, LargeObjectClear, Sending, NoLob
    <2>5. lob' \in Lobs /\ expect' \in Lobs
      BY <1>8 DEF TypeOK, StartSequence, LargeObjectClear, Lobs
    <2>6. nest' \in Seq({"Atomic", "Sequence"})
      BY <1>8 DEF TypeOK, StartSequence, Opens
    <2>7. odd' \subseteq {"tnds", "nested", "chunk"}
      BY <1>8 DEF TypeOK, StartSequence
    <2> QED
      BY <1>8, <2>1, <2>3, <2>4, <2>5, <2>6, <2>7 DEF TypeOK, StartSequence
  <1>9. CASE EndSequence
    <2>1. [s EXCEPT !.bInSequence = FALSE, !.sequenceFailed = FALSE,
                    !.alertState = IF @ = "cancel" THEN @ ELSE "none"]
              \in UserData
      BY <1>a DEF UserData
    <2>2. nest' \in Seq({"Atomic", "Sequence"})
      BY <1>9 DEF TypeOK, EndSequence, Closes
    <2> QED
      BY <1>9, <2>1, <2>2 DEF TypeOK, EndSequence, history
  <1>10. CASE StartAtomic
    <2>1. id \in Ids /\ n' \in 0..MaxCommands
      BY <1>10, UnitTypes DEF TypeOK, StartAtomic, Opens, Command, id
    <2>2. BeginAtomic(s) \in UserData
      BY <1>a, <2>1, SaveType DEF BeginAtomic, UserData, Statuses
    <2>3. s' \in UserData
      BY <1>10, <1>a, <2>1, <2>2, UnitTypes, AnswerType DEF StartAtomic
    <2>4. results' \in Nat /\ (lob' = Sending => results' > 0)
      BY <1>10 DEF TypeOK, StartAtomic, LargeObjectClear, Sending, NoLob
    <2>5. lob' \in Lobs /\ expect' \in Lobs
      BY <1>10 DEF TypeOK, StartAtomic, LargeObjectClear, Lobs
    <2>6. nest' \in Seq({"Atomic", "Sequence"})
      BY <1>10 DEF TypeOK, StartAtomic, Opens
    <2>7. odd' \subseteq {"tnds", "nested", "chunk"} /\ members' \subseteq Ids
      BY <1>10 DEF TypeOK, StartAtomic
    <2> QED
      BY <1>10, <2>1, <2>3, <2>4, <2>5, <2>6, <2>7 DEF TypeOK, StartAtomic
  <1>11. CASE EndAtomic
    <2>1. [s EXCEPT !.inAtomic = FALSE] \in UserData
      BY <1>a DEF UserData
    <2>2. s' \in UserData
      BY <1>11, <1>a, <2>1, SaveType, FinishType DEF EndAtomic, Commit
    <2>3. nest' \in Seq({"Atomic", "Sequence"})
      BY <1>11 DEF TypeOK, EndAtomic, Closes
    <2> QED
      BY <1>11, <2>2, <2>3 DEF TypeOK, EndAtomic, history
  <1>12. ASSUME NEW sent \in 0..results, NEW chunk \in BOOLEAN,
                EndMessage(sent, chunk)
         PROVE  TypeOK'
    BY <1>12 DEF TypeOK, EndMessage, AfterSending, GoesOn, Sending, NoLob,
       Lobs, history
  <1>13. CASE EndSession
    BY <1>13, <1>a, SaveType DEF TypeOK, EndSession, history
  <1>14. CASE ParseFails
    <2>1. [s EXCEPT !.tree = s.saved] \in UserData
      BY <1>a DEF UserData
    <2> QED
      BY <1>14, <2>1 DEF TypeOK, ParseFails, history
  <1>15. CASE UNCHANGED vars
    BY <1>15 DEF TypeOK, vars, history
  <1> QED
    BY <1>1, <1>2, <1>3, <1>4, <1>5, <1>6, <1>7, <1>8, <1>9, <1>10, <1>11,
       <1>12, <1>13, <1>14, <1>15 DEF Next

----------------------------------------------------------------------------
\* What the helpers do to the statuses and the tree.

RepliesOf(q) == {q[i] : i \in DOMAIN q}

LEMMA AppendReplies ==
    ASSUME NEW S, NEW q \in Seq(S), NEW e \in S
    PROVE  RepliesOf(Append(q, e)) = RepliesOf(q) \cup {e}
  <1>1. DOMAIN Append(q, e) = DOMAIN q \cup {Len(q) + 1}
    OBVIOUS
  <1>2. /\ \A i \in DOMAIN q : Append(q, e)[i] = q[i]
        /\ Append(q, e)[Len(q) + 1] = e
    OBVIOUS
  <1> QED
    BY <1>1, <1>2 DEF RepliesOf

LEMMA ConcatReplies ==
    ASSUME NEW S, NEW p \in Seq(S), NEW q \in Seq(S)
    PROVE  RepliesOf(p \o q) = RepliesOf(p) \cup RepliesOf(q)
  <1>1. DOMAIN (p \o q) = 1..(Len(p) + Len(q))
    OBVIOUS
  <1>2. \A i \in 1..(Len(p) + Len(q)) :
            (p \o q)[i] = IF i <= Len(p) THEN p[i] ELSE q[i - Len(p)]
    OBVIOUS
  <1>3. RepliesOf(p \o q) \subseteq RepliesOf(p) \cup RepliesOf(q)
    BY <1>1, <1>2 DEF RepliesOf
  <1>4. \A i \in DOMAIN p : p[i] \in RepliesOf(p \o q)
    BY <1>1, <1>2 DEF RepliesOf
  <1>5. ASSUME NEW i \in DOMAIN q
        PROVE  q[i] \in RepliesOf(p \o q)
    <2>1. Len(p) + i \in 1..(Len(p) + Len(q)) /\ ~(Len(p) + i <= Len(p))
      OBVIOUS
    <2>2. (p \o q)[Len(p) + i] = q[i]
      BY <1>2, <2>1
    <2> QED
      BY <1>1, <2>1, <2>2 DEF RepliesOf
  <1> QED
    BY <1>3, <1>4, <1>5 DEF RepliesOf

LEMMA AnswerFields ==
    ASSUME NEW t \in UserData, NEW i \in Ids, NEW st \in Statuses,
           NEW u, u = Answer(t, i, st)
    PROVE  /\ RepliesOf(u.told) = RepliesOf(t.told)
                                      \cup {[id |-> i, status |-> st]}
           /\ u.oStatus = t.oStatus /\ u.tree = t.tree /\ u.saved = t.saved
           /\ u.inAtomic = t.inAtomic /\ u.cmdId = t.cmdId
           /\ u.status = t.status /\ u.rollback = t.rollback
           /\ u.alertState = t.alertState
  <1> DEFINE r == [id |-> i, status |-> st]
  <1>1. r \in Replies
    BY DEF Replies
  <1>2. t.told \in Seq(Replies)
    BY DEF UserData
  <1>3. RepliesOf(Append(t.told, r)) = RepliesOf(t.told) \cup {r}
    BY <1>1, <1>2, AppendReplies
  <1> QED
    BY <1>3 DEF Answer, UserData

LEMMA KeepFields ==
    ASSUME NEW t \in UserData, NEW i \in Ids, NEW st \in Statuses,
           NEW u, u = Keep(t, i, st)
    PROVE  /\ RepliesOf(u.oStatus) = RepliesOf(t.oStatus)
                                         \cup {[id |-> i, status |-> st]}
           /\ u.told = t.told /\ u.tree = t.tree /\ u.saved = t.saved
           /\ u.inAtomic = t.inAtomic /\ u.cmdId = t.cmdId
           /\ u.status = t.status /\ u.rollback = t.rollback
           /\ u.alertState = t.alertState
  <1> DEFINE r == [id |-> i, status |-> st]
  <1>1. r \in Answers
    BY DEF Answers
  <1>2. t.oStatus \in Seq(Answers)
    BY DEF UserData
  <1>3. RepliesOf(Append(t.oStatus, r)) = RepliesOf(t.oStatus) \cup {r}
    BY <1>1, <1>2, AppendReplies
  <1> QED
    BY <1>3 DEF Keep, UserData

LEMMA RollbackFields ==
    ASSUME NEW t \in UserData, ~t.rollback, NEW u, u = AtomicRollback(t)
    PROVE  /\ RepliesOf(u.oStatus) =
                  {[id |-> e.id, status |-> "rolled_back"] :
                      e \in RepliesOf(t.oStatus)}
           /\ u.told = t.told /\ u.tree = t.saved /\ u.saved = t.saved
           /\ u.inAtomic = t.inAtomic /\ u.cmdId = t.cmdId
           /\ u.status = "failed" /\ u.rollback = TRUE
           /\ u.alertState = t.alertState
  <1>1. u.oStatus = [i \in DOMAIN t.oStatus |->
                         [id |-> t.oStatus[i].id, status |-> "rolled_back"]]
    BY DEF AtomicRollback, UserData
  <1>2. RepliesOf(u.oStatus) = {[id |-> e.id, status |-> "rolled_back"] :
                                   e \in RepliesOf(t.oStatus)}
    BY <1>1 DEF RepliesOf
  <1> QED
    BY <1>2 DEF AtomicRollback, UserData

LEMMA SequenceFields ==
    ASSUME NEW t \in UserData, NEW st, NEW u, u = SequenceStatus(t, st)
    PROVE  /\ u.oStatus = t.oStatus /\ u.told = t.told
           /\ u.tree = t.tree /\ u.saved = t.saved
           /\ u.inAtomic = t.inAtomic /\ u.cmdId = t.cmdId
           /\ u.status = t.status /\ u.rollback = t.rollback
           /\ u.alertState = t.alertState
  BY DEF SequenceStatus, UserData

LEMMA FinishFields ==
    ASSUME NEW t \in UserData, NEW u, u = FinishAtomic(t)
    PROVE  /\ RepliesOf(u.told) = (RepliesOf(t.told)
                  \cup {[id |-> t.cmdId, status |-> t.status]})
                      \cup RepliesOf(t.oStatus)
           /\ u.oStatus = <<>> /\ u.tree = t.tree /\ u.saved = t.saved
           /\ u.inAtomic = t.inAtomic /\ u.cmdId = t.cmdId
           /\ u.status = t.status /\ u.rollback = FALSE
           /\ u.alertState = "cancel" <=> t.alertState = "cancel"
  <1> DEFINE r == [id |-> t.cmdId, status |-> t.status]
  <1>1. r \in Replies /\ t.told \in Seq(Replies)
    BY DEF Replies, UserData
  <1>2. t.oStatus \in Seq(Replies)
    BY KeptAreReplies
  <1>3. t.told \o <<r>> = Append(t.told, r)
    BY <1>1
  <1>7. RepliesOf(Append(t.told, r)) = RepliesOf(t.told) \cup {r}
    BY <1>1, AppendReplies
  <1> HIDE DEF r
  <1>4. RepliesOf(t.told \o <<r>>) = RepliesOf(t.told) \cup {r}
    BY <1>3, <1>7
  <1>5. t.told \o <<r>> \in Seq(Replies)
    BY <1>1
  <1>6. RepliesOf((t.told \o <<r>>) \o t.oStatus) =
            (RepliesOf(t.told) \cup {r}) \cup RepliesOf(t.oStatus)
    <2> DEFINE p == t.told \o <<r>>
    <2>1. p \in Seq(Replies) /\ RepliesOf(p) = RepliesOf(t.told) \cup {r}
      BY <1>4, <1>5
    <2> HIDE DEF p
    <2>2. RepliesOf(p \o t.oStatus) = RepliesOf(p) \cup RepliesOf(t.oStatus)
      BY <1>2, <2>1, ConcatReplies
    <2> QED
      BY <2>1, <2>2 DEF p
  <1>8. u.told = (t.told \o <<r>>) \o t.oStatus
    BY DEF FinishAtomic, UserData, r
  <1>9. /\ u.oStatus = <<>> /\ u.tree = t.tree /\ u.saved = t.saved
        /\ u.inAtomic = t.inAtomic /\ u.cmdId = t.cmdId
        /\ u.status = t.status /\ u.rollback = FALSE
    BY DEF FinishAtomic, UserData
  <1>10. u.alertState = "cancel" <=> t.alertState = "cancel"
    BY DEF FinishAtomic, UserData
  <1> QED
    BY <1>6, <1>8, <1>9, <1>10 DEF r

----------------------------------------------------------------------------
\* SuccessHolds.  E are the commands that change the tree and are executed
\* when they are answered, k is the number of commands so far.

ToldSound(t, E, k) ==
    \A e \in RepliesOf(t.told) :
        /\ e.id <= k
        /\ (e.status = "ok" /\ e.id \in E) =>
              e.id \in t.tree /\ (t.inAtomic => e.id \in t.saved)

KeptSound(t, E, k) ==
    \A e \in RepliesOf(t.oStatus) :
        e.id <= k /\ ((e.status = "ok" /\ e.id \in E) => e.id \in t.tree)

Sound(t, E, k) == /\ ToldSound(t, E, k) /\ KeptSound(t, E, k)
                  /\ t.cmdId <= k /\ t.cmdId \notin E

LEMMA RepliesTyped ==
    ASSUME NEW t \in UserData
    PROVE  /\ \A e \in RepliesOf(t.told) : e \in Replies /\ e.id \in Nat
           /\ \A e \in RepliesOf(t.oStatus) : e \in Answers /\ e.id \in Nat
           /\ t.cmdId \in Nat
  <1>1. t.told \in Seq(Replies) /\ t.oStatus \in Seq(Answers)
    BY DEF UserData
  <1>2. \A e \in RepliesOf(t.told) : e \in Replies
    BY <1>1 DEF RepliesOf
  <1>3. \A e \in RepliesOf(t.oStatus) : e \in Answers
    BY <1>1 DEF RepliesOf
  <1>4. Ids \cup {0} \subseteq Nat
    BY BoundAssumption DEF Ids
  <1>5. t.cmdId \in Nat
    BY <1>4 DEF UserData
  <1> QED
    BY <1>2, <1>3, <1>4, <1>5 DEF Replies, Answers

\* A command more, k + 1, that is answered below.
LEMMA SoundGrows ==
    ASSUME NEW t \in UserData, NEW E, NEW F, NEW k \in Nat, Sound(t, E, k),
           F \subseteq E \cup {k + 1}
    PROVE  Sound(t, F, k)
  BY RepliesTyped DEF Sound, ToldSound, KeptSound

LEMMA SoundAnswer ==
    ASSUME NEW t \in UserData, NEW E, NEW k \in Nat, Sound(t, E, k),
           k + 1 \in Ids, NEW st \in Statuses,
           (st = "ok" /\ k + 1 \in E) =>
               k + 1 \in t.tree /\ (t.inAtomic => k + 1 \in t.saved)
    PROVE  Sound(Answer(t, k + 1, st), E, k + 1)
  BY AnswerFields, RepliesTyped DEF Sound, ToldSound, KeptSound

LEMMA SoundKeep ==
    ASSUME NEW t \in UserData, NEW E, NEW k \in Nat, Sound(t, E, k),
           k + 1 \in Ids, NEW st \in Statuses,
           (st = "ok" /\ k + 1 \in E) => k + 1 \in t.tree
    PROVE  Sound(Keep(t, k + 1, st), E, k + 1)
  BY KeepFields, RepliesTyped DEF Sound, ToldSound, KeptSound

\* What was told before is in the tree that comes back.
ToldSaved(t, E) ==
    \A e \in RepliesOf(t.told) :
        (e.status = "ok" /\ e.id \in E) => e.id \in t.saved

LEMMA SoundRollback ==
    ASSUME NEW t \in UserData, NEW E, NEW k \in Nat, Sound(t, E, k),
           t.inAtomic \/ ToldSaved(t, E)
    PROVE  Sound(AtomicRollback(t), E, k)
  <1>1. CASE t.rollback
    BY <1>1 DEF AtomicRollback
  <1>2. CASE ~t.rollback
    <2> DEFINE u == AtomicRollback(t)
    <2>1. /\ u.told = t.told /\ u.tree = t.saved /\ u.saved = t.saved
          /\ u.inAtomic = t.inAtomic /\ u.cmdId = t.cmdId
          /\ RepliesOf(u.oStatus) =
                 {[id |-> e.id, status |-> "rolled_back"] :
                     e \in RepliesOf(t.oStatus)}
      BY <1>2, RollbackFields
    <2> HIDE DEF u
    <2>2. ToldSound(u, E, k)
      BY <2>1 DEF Sound, ToldSound, ToldSaved
    <2>3. KeptSound(u, E, k)
      BY <2>1 DEF Sound, KeptSound
    <2> QED
      BY <2>1, <2>2, <2>3 DEF Sound, u
  <1> QED
    BY <1>1, <1>2

LEMMA SoundProcess ==
    ASSUME NEW t \in UserData, NEW E, NEW k \in Nat, Sound(t, E, k),
           k + 1 \in Ids, NEW st \in Statuses,
           (st = "ok" /\ k + 1 \in E) => k + 1 \in t.tree
    PROVE  Sound(ProcessStatus(t, k + 1, st), E, k + 1)
  <1>1. CASE ~t.inAtomic
    BY <1>1, SoundAnswer DEF ProcessStatus
  <1>2. CASE t.inAtomic /\ st = "ok"
    BY <1>2, SoundKeep DEF ProcessStatus
  <1>3. CASE t.inAtomic /\ st # "ok"
    BY <1>3, SoundKeep, SoundRollback, RollbackType DEF ProcessStatus
  <1> QED
    BY <1>1, <1>2, <1>3

LEMMA SoundSequence ==
    ASSUME NEW t \in UserData, NEW E, NEW k \in Nat, Sound(t, E, k), NEW st
    PROVE  Sound(SequenceStatus(t, st), E, k)
  BY SequenceFields DEF Sound, ToldSound, KeptSound

LEMMA SoundEdit ==
    ASSUME NEW t \in UserData, NEW E, NEW k \in Nat, Sound(t, E, k),
           NEW X \in SUBSET Ids
    PROVE  /\ [t EXCEPT !.tree = @ \cup X] \in UserData
           /\ Sound([t EXCEPT !.tree = @ \cup X], E, k)
  BY DEF Sound, ToldSound, KeptSound, UserData

LEMMA SoundSave ==
    ASSUME NEW t \in UserData, NEW E, NEW k \in Nat, Sound(t, E, k)
    PROVE  Sound(Save(t), E, k)
  BY DEF Sound, ToldSound, KeptSound, UserData, Save

LEMMA SoundFinish ==
    ASSUME NEW t \in UserData, NEW E, NEW k \in Nat, Sound(t, E, k), ~t.inAtomic
    PROVE  Sound(FinishAtomic(t), E, k)
  <1> DEFINE u == FinishAtomic(t)
  <1>1. /\ RepliesOf(u.told) = (RepliesOf(t.told)
                  \cup {[id |-> t.cmdId, status |-> t.status]})
                      \cup RepliesOf(t.oStatus)
        /\ u.oStatus = <<>> /\ u.tree = t.tree /\ u.saved = t.saved
        /\ u.inAtomic = t.inAtomic /\ u.cmdId = t.cmdId
    BY FinishFields
  <1> HIDE DEF u
  <1>2. RepliesOf(u.oStatus) = {}
    BY <1>1 DEF RepliesOf
  <1>3. ToldSound(u, E, k)
    BY <1>1 DEF Sound, ToldSound, KeptSound
  <1>4. KeptSound(u, E, k)
    BY <1>2 DEF KeptSound
  <1> QED
    BY <1>1, <1>3, <1>4 DEF Sound, u

LEMMA SoundLater ==
    ASSUME NEW t \in UserData, NEW E, NEW k \in Nat, Sound(t, E, k)
    PROVE  Sound(t, E, k + 1)
  BY RepliesTyped DEF Sound, ToldSound, KeptSound

LEMMA SoundBegin ==
    ASSUME NEW t \in UserData, NEW E, NEW k \in Nat, Sound(t, E, k),
           NEW u, k + 1 \notin E, u.told = t.told, u.oStatus = t.oStatus,
           u.tree = t.tree, u.saved = t.tree, u.cmdId = k + 1
    PROVE  Sound(u, E, k + 1)
  BY RepliesTyped DEF Sound, ToldSound, KeptSound

\* A record with the same statuses and tree.
LEMMA SoundSame ==
    ASSUME NEW t \in UserData, NEW E, NEW k \in Nat, Sound(t, E, k),
           NEW u, u.told = t.told, u.oStatus = t.oStatus, u.tree = t.tree,
           u.saved = t.saved, u.cmdId = t.cmdId,
           u.inAtomic = t.inAtomic \/ u.inAtomic = FALSE
    PROVE  Sound(u, E, k)
  BY DEF Sound, ToldSound, KeptSound

SoundInv ==
    /\ edits \subseteq 1..n
    /\ over # "fail" => Sound(s, edits \ cut, n)

LEMMA SoundInit == Init => SoundInv
  <1> SUFFICES ASSUME Init
               PROVE  edits = {} /\ Sound(s, edits \ cut, n)
    BY DEF SoundInv
  <1>1. s.told = <<>> /\ s.oStatus = <<>> /\ s.cmdId = 0 /\ n = 0 /\ edits = {}
    BY DEF Init
  <1>2. RepliesOf(s.told) = {} /\ RepliesOf(s.oStatus) = {}
    BY <1>1 DEF RepliesOf
  <1> QED
    BY <1>1, <1>2 DEF Sound, ToldSound, KeptSound

LEMMA SoundStep == TypeOK /\ SoundInv /\ [Next]_vars => SoundInv'
  <1> SUFFICES ASSUME TypeOK, SoundInv, [Next]_vars
               PROVE  SoundInv'
    OBVIOUS
  <1>a. s \in UserData /\ n \in Nat
    BY BoundAssumption DEF TypeOK
  <1> DEFINE E == edits \ cut
  <1>b. over = "none" => Sound(s, E, n)
    BY DEF SoundInv
  <1> DEFINE F == edits' \ cut'
  <1>c. over = "none" /\ F \subseteq E \cup {n + 1} => Sound(s, F, n)
    BY <1>a, <1>b, SoundGrows
  <1>d. n < MaxCommands => n + 1 \in Ids
    BY UnitTypes, BoundAssumption DEF TypeOK
  <1>e. edits \subseteq 1..n
    BY DEF SoundInv
  \* Commands that are answered without an effect.
  <1>f. ASSUME over = "none", n < MaxCommands, F \subseteq E \cup {n + 1},
               NEW st \in Statuses, st # "ok" \/ n + 1 \notin F
        PROVE  /\ Sound(Answer(s, n + 1, st), F, n + 1)
               /\ Sound(Keep(s, n + 1, st), F, n + 1)
               /\ Sound(ProcessStatus(s, n + 1, st), F, n + 1)
    BY <1>a, <1>c, <1>d, <1>f, SoundAnswer, SoundKeep, SoundProcess
  <1>1. ASSUME NEW cmd \in {"Add", "Replace"}, NEW uri \in URIs,
               NEW part \in {"whole", "first", "next", "last"},
               NEW outcome \in {"ok", "fails", "refused"},
               Edit(cmd, uri, part, outcome)
        PROVE  SoundInv'
    <2> DEFINE here == [cmd |-> cmd, uri |-> uri]
               r == Receive(here, part, outcome = "ok")
               t == [s EXCEPT !.tree = @ \cup r.add]
    <2>1. /\ over = "none" /\ n < MaxCommands /\ n' = n + 1 /\ over' = over
          /\ id = n + 1 /\ n + 1 \in Ids
          /\ F \subseteq E \cup {n + 1} /\ edits' = edits \cup {n + 1}
      BY <1>1, <1>d DEF Edit, Command, IsEdit, id
    <2>2. Sound(s, F, n)
      BY <1>c, <2>1
    <2>3. /\ r.status \in Statuses /\ r.add \subseteq Ids
          /\ r.status = "ok" => r.add = {id}
      BY <2>1 DEF Receive, RecvFirstChunk, RecvNextChunk, Buffered, Applied,
         Failed, Statuses
    <2> HIDE DEF E, F, here, r
    <2>4. t \in UserData /\ Sound(t, F, n)
      BY <1>a, <2>2, <2>3, SoundEdit
    <2>5. r.status = "ok" => id \in t.tree
      BY <1>a, <2>3 DEF UserData
    <2> HIDE DEF t
    <2>6. SequenceStatus(t, r.status) \in UserData
          /\ Sound(SequenceStatus(t, r.status), F, n)
          /\ SequenceStatus(t, r.status).tree = t.tree
      BY <1>a, <2>4, SoundSequence, SequenceFields, SequenceStatusType
    <2>7. Sound(s', F, n + 1)
      <3>1. CASE s' = ProcessStatus(s, id, "failed")
        BY <1>f, <2>1, <3>1, UnitTypes
      <3>2. CASE s' = Answer(s, id, "failed")
        BY <1>f, <2>1, <3>2, UnitTypes
      <3>3. CASE s' = ProcessStatus(s, id, "not_executed")
        BY <1>f, <2>1, <3>3, UnitTypes
      <3>4. CASE s' = ProcessStatus(SequenceStatus(t, r.status), id, r.status)
        BY <1>a, <2>1, <2>3, <2>5, <2>6, <3>4, SoundProcess
      <3> QED
        BY <1>1, <3>1, <3>2, <3>3, <3>4 DEF Edit, here, r, t
    <2> QED
      BY <1>a, <1>e, <2>1, <2>7 DEF SoundInv, F
  <1>2. ASSUME NEW cmd \in {"Add", "Replace"},
               NEW outcome \in {"ok", "fails", "unsupported", "refused"},
               Tnds(cmd, outcome)
        PROVE  SoundInv'
    <2> DEFINE u == Save(s)
               t == [u EXCEPT !.tree = @ \cup {id}]
    <2>1. /\ over = "none" /\ n < MaxCommands /\ n' = n + 1 /\ over' = over
          /\ id = n + 1 /\ n + 1 \in Ids
          /\ F \subseteq E \cup {n + 1} /\ edits' = edits \cup {n + 1}
      BY <1>2, <1>d DEF Tnds, Command, IsEdit, id
    <2>2. Sound(s, F, n)
      BY <1>c, <2>1
    <2> HIDE DEF E, F
    <2>3. /\ u \in UserData /\ Sound(u, F, n)
          /\ u.saved = s.tree /\ u.tree = s.tree /\ u.told = s.told
      BY <1>a, <2>2, SoundSave, SaveType DEF Save, UserData
    <2> HIDE DEF u
    <2>4. t \in UserData /\ Sound(t, F, n)
      BY <1>a, <2>1, <2>3, SoundEdit
    <2>5. id \in t.tree /\ t.saved = s.tree /\ t.told = s.told
      BY <1>a, <2>3 DEF UserData
    <2>6. ToldSaved(t, F)
      BY <2>2, <2>5 DEF Sound, ToldSound, ToldSaved
    <2> HIDE DEF t
    <2>7. AtomicRollback(t) \in UserData /\ Sound(AtomicRollback(t), F, n)
      BY <1>a, <2>4, <2>6, SoundRollback, RollbackType
    <2>8. ASSUME NEW v \in UserData, Sound(v, F, n), NEW st \in Statuses,
                 st = "ok" => id \in v.tree
          PROVE  Sound(ProcessStatus(SequenceStatus(v, st), id, st), F, n + 1)
      <3>1. SequenceStatus(v, st) \in UserData
            /\ Sound(SequenceStatus(v, st), F, n)
            /\ SequenceStatus(v, st).tree = v.tree
        BY <1>a, <2>8, SoundSequence, SequenceFields, SequenceStatusType
      <3> QED
        BY <1>a, <2>1, <2>8, <3>1, SoundProcess
    <2>9. Sound(s', F, n + 1)
      <3>1. CASE s' = ProcessStatus(s, id, "failed")
        BY <1>f, <2>1, <3>1, UnitTypes
      <3>2. CASE s' = Answer(s, id, "failed")
        BY <1>f, <2>1, <3>2, UnitTypes
      <3>3. CASE s' = ProcessStatus(s, id, "not_executed")
        BY <1>f, <2>1, <3>3, UnitTypes
      <3>4. CASE s' = ProcessStatus(SequenceStatus(t, "ok"), id, "ok")
        BY <2>4, <2>5, <2>8, <3>4, UnitTypes
      <3>5. CASE s' = ProcessStatus(SequenceStatus(AtomicRollback(t), "failed"),
                                    id, "failed")
        BY <2>7, <2>8, <3>5, UnitTypes
      <3>6. CASE s' = ProcessStatus(SequenceStatus(t, "unsupported"), id,
                                    "unsupported")
        BY <2>4, <2>8, <3>6, UnitTypes
      <3>7. CASE s' = ProcessStatus(SequenceStatus(s, "failed"), id, "failed")
        BY <1>a, <2>2, <2>8, <3>7, UnitTypes
      <3>8. CASE outcome = "ok"
        BY <1>2, <3>1, <3>2, <3>3, <3>4, <3>8 DEF Tnds, t, u
      <3>9. CASE outcome = "fails"
        BY <1>2, <3>1, <3>2, <3>3, <3>5, <3>9 DEF Tnds, t, u
      <3>10. CASE outcome = "unsupported"
        BY <1>2, <3>1, <3>2, <3>3, <3>6, <3>10 DEF Tnds, t, u
      <3>11. CASE outcome = "refused"
        BY <1>2, <3>1, <3>2, <3>3, <3>7, <3>11 DEF Tnds, t, u
      <3> QED
        BY <3>8, <3>9, <3>10, <3>11
    <2> QED
      BY <1>a, <1>e, <2>1, <2>9 DEF SoundInv, F
  <1>3. ASSUME NEW outcome \in {"ok", "fails", "refused"}, Delete(outcome)
        PROVE  SoundInv'
    <2> DEFINE t == [s EXCEPT !.tree = @ \cup {id}]
    <2>1. /\ over = "none" /\ n < MaxCommands /\ n' = n + 1 /\ over' = over
          /\ id = n + 1 /\ n + 1 \in Ids
          /\ F \subseteq E \cup {n + 1} /\ edits' = edits \cup {n + 1}
      BY <1>3, <1>d DEF Delete, Command, IsEdit, id
    <2>2. Sound(s, F, n)
      BY <1>c, <2>1
    <2> HIDE DEF E
    <2>3. CASE Interrupts("Replace")
      <3>1. s' = ProcessStatus(s, n + 1, "ok") /\ n + 1 \notin F
        BY <1>3, <2>1, <2>3 DEF Delete, id
      <3>2. Sound(s', F, n + 1)
        BY <1>f, <2>1, <3>1, UnitTypes
      <3> QED
        BY <1>a, <1>e, <2>1, <3>2 DEF SoundInv
    <2>4. CASE ~Interrupts("Replace")
      <3> HIDE DEF F
      <3>1. t \in UserData /\ Sound(t, F, n) /\ id \in t.tree
        <4>1. s \in UserData /\ n \in Nat /\ {id} \in SUBSET Ids
          BY <1>a, <2>1
        <4>2. t \in UserData /\ Sound(t, F, n)
          BY <2>2, <4>1, SoundEdit
        <4>3. id \in t.tree
          BY <4>1 DEF UserData
        <4> QED
          BY <4>2, <4>3
      <3> HIDE DEF t
      <3>2. ASSUME NEW v \in UserData, Sound(v, F, n), NEW st \in Statuses,
                   st = "ok" => id \in v.tree
            PROVE  Sound(ProcessStatus(SequenceStatus(v, st), id, st), F, n + 1)
        <4>1. SequenceStatus(v, st) \in UserData
              /\ Sound(SequenceStatus(v, st), F, n)
              /\ SequenceStatus(v, st).tree = v.tree
          BY <1>a, <3>2, SoundSequence, SequenceFields, SequenceStatusType
        <4> QED
          BY <1>a, <2>1, <3>2, <4>1, SoundProcess
      <3>3. \/ s' = Answer(s, id, "failed")
            \/ s' = ProcessStatus(s, id, "not_executed")
            \/ s' = ProcessStatus(s, id, "failed")
            \/ s' = ProcessStatus(SequenceStatus(t, "ok"), id, "ok")
            \/ s' = ProcessStatus(SequenceStatus(s, "failed"), id, "failed")
        BY <1>3, <2>4 DEF Delete, t
      <3>4. Sound(s', F, n + 1)
        BY <1>a, <1>f, <2>1, <2>2, <3>1, <3>2, <3>3, UnitTypes
      <3> QED
        BY <1>a, <1>e, <2>1, <3>4 DEF SoundInv, F
    <2> QED
      BY <2>3, <2>4
  \* Other commands: nothing is added to the edits, and the tree stays.
  <1>g. ASSUME Command, over' = over, UNCHANGED <<edits, cut>>
        PROVE  /\ F = E /\ n < MaxCommands /\ n + 1 \notin F /\ n + 1 = id
               /\ id \in Ids /\ over = "none" /\ Sound(s, F, n)
               /\ Sound(s', F, n + 1) => SoundInv'
    BY <1>a, <1>b, <1>d, <1>e, <1>g DEF Command, id, SoundInv
  <1>h. ASSUME Command, over' = over, UNCHANGED <<edits, cut>>, s.inAtomic,
               NEW st \in Statuses
        PROVE  /\ Sound(Answer(AtomicRollback(s), id, st), F, n + 1)
               /\ Sound(Keep(AtomicRollback(s), id, st), F, n + 1)
    BY <1>a, <1>g, <1>h, SoundRollback, RollbackType, SoundAnswer, SoundKeep
  <1>4. ASSUME NEW ok \in BOOLEAN, Get(ok)
        PROVE  SoundInv'
    <2>1. Command /\ over' = over /\ UNCHANGED <<edits, cut>>
      BY <1>4 DEF Get
    <2>2. \/ s.inAtomic /\ s' = Answer(AtomicRollback(s), id, "failed")
          \/ s' = ProcessStatus(s, id, "failed")
          \/ \E st \in Statuses : s' = Answer(s, id, st)
      BY <1>4, UnitTypes DEF Get
    <2> HIDE DEF E, F
    <2>3. Sound(s', F, n + 1)
      BY <1>f, <1>g, <1>h, <2>1, <2>2, UnitTypes
    <2> QED
      BY <1>g, <2>1, <2>3
  <1>5. ASSUME NEW ok \in BOOLEAN, Exec(ok)
        PROVE  SoundInv'
    <2> DEFINE st == IF ok THEN "ok" ELSE "failed"
               u == SequenceStatus(s, st)
    <2>1. Command /\ over' = over /\ UNCHANGED <<edits, cut>>
      BY <1>5 DEF Exec
    <2>2. \/ UNCHANGED s
          \/ s.inAtomic /\ s' = Answer(AtomicRollback(s), id, "failed")
          \/ s' = Answer(s, id, "failed")
          \/ s' = Answer(u, id, st)
      BY <1>5 DEF Exec
    <2>3. st \in Statuses
      BY UnitTypes
    <2> HIDE DEF E, F, st
    <2>4. u \in UserData /\ Sound(u, F, n)
      BY <1>a, <1>g, <2>1, SoundSequence, SequenceStatusType
    <2> HIDE DEF u
    <2>5. Sound(Answer(u, id, st), F, n + 1)
      BY <1>a, <1>g, <2>1, <2>3, <2>4, SoundAnswer
    <2>6. Sound(s', F, n + 1)
      BY <1>a, <1>f, <1>g, <1>h, <2>1, <2>2, <2>5, UnitTypes, SoundLater
    <2> QED
      BY <1>g, <2>1, <2>6
  <1>6. CASE Copy
    <2>1. /\ Command /\ over' = over /\ UNCHANGED <<edits, cut>>
          /\ s' = Answer(s, id, "unsupported")
      BY <1>6 DEF Copy
    <2> HIDE DEF E, F
    <2>2. Sound(s', F, n + 1)
      BY <1>f, <1>g, <2>1, UnitTypes
    <2> QED
      BY <1>g, <2>1, <2>2
  <1>7. ASSUME NEW action \in {"ok", "abort", "unsupported", "incomplete",
                               "yes", "no", "cancel", "leave"},
               Alert(action)
        PROVE  SoundInv'
    <2>1. Command /\ over' = over /\ UNCHANGED <<edits, cut>>
      BY <1>7 DEF Alert
    <2> HIDE DEF E, F
    <2>2. ASSUME NEW a \in {"no", "cancel"},
                 NEW t, t = [s EXCEPT !.alertState = a]
          PROVE  t \in UserData /\ Sound(t, F, n) /\ t.inAtomic = s.inAtomic
      <3>1. /\ t \in UserData /\ t.told = s.told /\ t.oStatus = s.oStatus
            /\ t.tree = s.tree /\ t.saved = s.saved /\ t.cmdId = s.cmdId
            /\ t.inAtomic = s.inAtomic
        BY <1>a, <2>2 DEF UserData
      <3> QED
        BY <1>a, <1>g, <2>1, <3>1, SoundSame
    <2>3. PICK t \in {s} \cup {[s EXCEPT !.alertState = a] :
                                 a \in {"no", "cancel"}}, st \in Statuses :
              \/ s' = Answer(t, id, st)
              \/ s' = Keep(t, id, st)
              \/ s.inAtomic /\ s' = Keep(AtomicRollback(t), id, st)
      BY <1>7, UnitTypes DEF Alert
    <2>4. t \in UserData /\ Sound(t, F, n) /\ t.inAtomic = s.inAtomic
      BY <1>a, <1>g, <2>1, <2>2, <2>3
    <2>5. s.inAtomic => /\ AtomicRollback(t) \in UserData
                        /\ Sound(AtomicRollback(t), F, n)
      BY <1>a, <2>4, SoundRollback, RollbackType
    <2>6. Sound(s', F, n + 1)
      BY <1>a, <1>g, <2>1, <2>3, <2>4, <2>5, SoundAnswer, SoundKeep
    <2> QED
      BY <1>g, <2>1, <2>6
  <1>8. CASE StartSequence
    <2> DEFINE t == [s EXCEPT !.bInSequence = TRUE]
    <2>1. Command /\ over' = over /\ UNCHANGED <<edits, cut>>
      BY <1>8 DEF StartSequence, Opens
    <2> HIDE DEF E, F
    <2>2. /\ t \in UserData /\ t.told = s.told /\ t.oStatus = s.oStatus
          /\ t.tree = s.tree /\ t.saved = s.saved /\ t.cmdId = s.cmdId
          /\ t.inAtomic = s.inAtomic
      BY <1>a DEF UserData
    <2>3. UNCHANGED s \/ \E st \in Statuses : s' = Answer(t, id, st)
      BY <1>8, UnitTypes DEF StartSequence
    <2> HIDE DEF t
    <2>4. Sound(t, F, n)
      BY <1>a, <1>g, <2>1, <2>2, SoundSame
    <2>5. Sound(s', F, n + 1)
      BY <1>a, <1>g, <2>1, <2>2, <2>3, <2>4, SoundAnswer, SoundLater
    <2> QED
      BY <1>g, <2>1, <2>5
  \* The commands stay as they are.
  <1>i. ASSUME over = "none", over' = over, UNCHANGED <<n, edits, cut>>,
               Sound(s', E, n)
        PROVE  SoundInv'
    BY <1>e, <1>i DEF SoundInv
  <1>9. CASE EndSequence
    <2>1. /\ over = "none" /\ over' = over /\ UNCHANGED <<n, edits, cut>>
          /\ s' = [s EXCEPT !.bInSequence = FALSE, !.sequenceFailed = FALSE,
                      !.alertState = IF @ = "cancel" THEN @ ELSE "none"]
      BY <1>9 DEF EndSequence, Closes, history
    <2>2. /\ s'.told = s.told /\ s'.oStatus = s.oStatus /\ s'.tree = s.tree
          /\ s'.saved = s.saved /\ s'.cmdId = s.cmdId
          /\ s'.inAtomic = s.inAtomic
      BY <1>a, <2>1 DEF UserData
    <2> HIDE DEF E
    <2>3. Sound(s', E, n)
      BY <1>a, <1>b, <2>1, <2>2, SoundSame
    <2> QED
      BY <1>i, <2>1, <2>3
  <1>10. CASE StartAtomic
    <2>1. Command /\ over' = over /\ UNCHANGED <<edits, cut>>
      BY <1>10 DEF StartAtomic, Opens
    <2> HIDE DEF E, F
    <2>2. \/ UNCHANGED s
          \/ s' = Answer(s, id, "failed")
          \/ s' = BeginAtomic(s)
      BY <1>10 DEF StartAtomic
    <2>3. ASSUME NEW u, u = BeginAtomic(s)
          PROVE  Sound(u, F, n + 1)
      <3>1. /\ u.told = s.told /\ u.oStatus = s.oStatus /\ u.tree = s.tree
            /\ u.saved = s.tree /\ u.cmdId = n + 1
        BY <1>a, <2>3 DEF BeginAtomic, Save, UserData, id
      <3> QED
        BY <1>a, <1>g, <2>1, <3>1, SoundBegin
    <2>4. Sound(s', F, n + 1)
      BY <1>a, <1>f, <1>g, <2>1, <2>2, <2>3, UnitTypes, SoundLater
    <2> QED
      BY <1>g, <2>1, <2>4
  <1>11. CASE EndAtomic
    <2> DEFINE t == [s EXCEPT !.inAtomic = FALSE]
               u == Commit(t)
    <2>1. /\ over = "none" /\ over' = over /\ UNCHANGED <<n, edits, cut>>
          /\ s' = IF auth THEN FinishAtomic(u) ELSE s
      BY <1>11 DEF EndAtomic, Closes, history
    <2>2. /\ t \in UserData /\ t.told = s.told /\ t.oStatus = s.oStatus
          /\ t.tree = s.tree /\ t.saved = s.saved /\ t.cmdId = s.cmdId
          /\ t.inAtomic = FALSE
      BY <1>a DEF UserData
    <2> HIDE DEF E, t
    <2>3. Sound(t, E, n)
      BY <1>a, <1>b, <2>1, <2>2, SoundSame
    <2>4. Save(t) \in UserData /\ Sound(Save(t), E, n) /\ ~Save(t).inAtomic
      BY <1>a, <2>2, <2>3, SoundSave, SaveType DEF Save, UserData
    <2>5. u \in UserData /\ Sound(u, E, n) /\ ~u.inAtomic
      BY <2>2, <2>3, <2>4 DEF Commit
    <2> HIDE DEF u
    <2>6. Sound(s', E, n)
      BY <1>a, <1>b, <2>1, <2>5, SoundFinish
    <2> QED
      BY <1>i, <2>1, <2>6
  <1>12. ASSUME NEW sent \in 0..results, NEW chunk \in BOOLEAN,
                EndMessage(sent, chunk)
         PROVE  SoundInv'
    BY <1>12 DEF SoundInv, EndMessage, history
  <1>13. CASE EndSession
    <2>1. /\ over = "none" /\ over' = "success" /\ s' = Save(s)
          /\ UNCHANGED <<n, edits, cut>>
      BY <1>13 DEF EndSession, history
    <2> HIDE DEF E
    <2>2. Sound(s', E, n)
      BY <1>a, <1>b, <2>1, SoundSave
    <2> QED
      BY <1>e, <2>1, <2>2 DEF SoundInv, E
  <1>14. CASE ParseFails
    BY <1>14, <1>e DEF SoundInv, ParseFails, history
  <1>15. CASE UNCHANGED vars
    BY <1>15 DEF SoundInv, vars, history
  <1> QED
    BY <1>1, <1>2, <1>3, <1>4, <1>5, <1>6, <1>7, <1>8, <1>9, <1>10, <1>11,
       <1>12, <1>13, <1>14, <1>15 DEF Next

----------------------------------------------------------------------------
\* CancelIsFinal: the alert's state stays, and so does the tree, but for a
\* rollback to what was saved, which is a part of it.

CancelInv == /\ s.saved \subseteq s.tree
             /\ cancelled => s.alertState = "cancel"
             /\ over = "success" => s.saved = s.tree

\* u comes from t without an edit.
Shrinks(t, u) == /\ u.saved \subseteq u.tree /\ u.tree \subseteq t.tree
                 /\ u.alertState = "cancel" <=> t.alertState = "cancel"

LEMMA AnswerShrinks ==
    ASSUME NEW t \in UserData, t.saved \subseteq t.tree, NEW i \in Ids,
           NEW st \in Statuses
    PROVE  /\ Shrinks(t, Answer(t, i, st)) /\ Shrinks(t, Keep(t, i, st))
           /\ Shrinks(t, AtomicRollback(t))
           /\ Shrinks(t, Answer(AtomicRollback(t), i, st))
           /\ Shrinks(t, Keep(AtomicRollback(t), i, st))
           /\ Shrinks(t, ProcessStatus(t, i, st))
  <1>1. Shrinks(t, Answer(t, i, st)) /\ Shrinks(t, Keep(t, i, st))
    BY AnswerFields, KeepFields DEF Shrinks
  <1>2. Shrinks(t, AtomicRollback(t)) /\ AtomicRollback(t) \in UserData
    <2>1. CASE t.rollback
      BY <2>1 DEF Shrinks, AtomicRollback
    <2>2. CASE ~t.rollback
      <3> DEFINE u == AtomicRollback(t)
      <3>1. /\ u.tree = t.saved /\ u.saved = t.saved
            /\ u.alertState = t.alertState
        BY <2>2, RollbackFields
      <3> QED
        BY <3>1, RollbackType DEF Shrinks
    <2> QED
      BY <2>1, <2>2
  <1> DEFINE u == AtomicRollback(t)
  <1> HIDE DEF u
  <1>3. Shrinks(t, Answer(u, i, st)) /\ Shrinks(t, Keep(u, i, st))
    BY <1>2, AnswerFields, KeepFields DEF Shrinks, u
  <1> QED
    BY <1>1, <1>2, <1>3 DEF ProcessStatus, u

LEMMA SequenceShrinks ==
    ASSUME NEW t \in UserData, t.saved \subseteq t.tree, NEW st
    PROVE  /\ Shrinks(t, SequenceStatus(t, st))
           /\ SequenceStatus(t, st) \in UserData
  BY SequenceFields, SequenceStatusType DEF Shrinks

\* An executed command: u is what it makes of s.
LEMMA ExecutedShrinks ==
    ASSUME NEW u \in UserData, u.saved \subseteq u.tree, NEW i \in Ids,
           NEW st \in Statuses
    PROVE  /\ Shrinks(u, ProcessStatus(SequenceStatus(u, st), i, st))
           /\ Shrinks(u, Answer(SequenceStatus(u, st), i, st))
  <1> DEFINE v == SequenceStatus(u, st)
  <1>1. v \in UserData /\ Shrinks(u, v)
    BY SequenceShrinks
  <1> HIDE DEF v
  <1>2. Shrinks(v, ProcessStatus(v, i, st)) /\ Shrinks(v, Answer(v, i, st))
    BY <1>1, AnswerShrinks DEF Shrinks
  <1> QED
    BY <1>1, <1>2 DEF Shrinks, v

LEMMA CancelInit == Init => CancelInv
  BY DEF Init, CancelInv

LEMMA CancelStep ==
    TypeOK /\ CancelInv /\ [Next]_vars
        => CancelInv' /\ (cancelled => s'.tree \subseteq s.tree)
  <1> SUFFICES ASSUME TypeOK, CancelInv, [Next]_vars
               PROVE  CancelInv' /\ (cancelled => s'.tree \subseteq s.tree)
    OBVIOUS
  <1>a. /\ s \in UserData /\ s.saved \subseteq s.tree
        /\ s.tree \subseteq Ids /\ cancelled \in BOOLEAN
    BY DEF TypeOK, CancelInv, UserData
  <1>b. n < MaxCommands => id \in Ids
    BY UnitTypes, BoundAssumption DEF TypeOK, id
  <1>c. cancelled => IsCommandSkipped
    BY DEF CancelInv, IsCommandSkipped
  \* What every action but an executed edit comes to.
  <1>d. ASSUME over' = "none", cancelled' = cancelled, Shrinks(s, s')
        PROVE  CancelInv' /\ (cancelled => s'.tree \subseteq s.tree)
    BY <1>d DEF CancelInv, Shrinks
  \* An executed edit.
  <1>e. ASSUME over' = "none", cancelled' = cancelled, ~IsCommandSkipped,
               s'.saved \subseteq s'.tree
        PROVE  CancelInv' /\ (cancelled => s'.tree \subseteq s.tree)
    BY <1>c, <1>e DEF CancelInv
  <1>f. \A u : u = s => Shrinks(s, u)
    BY <1>a DEF Shrinks
  <1>1. ASSUME NEW cmd \in {"Add", "Replace"}, NEW uri \in URIs,
               NEW part \in {"whole", "first", "next", "last"},
               NEW outcome \in {"ok", "fails", "refused"},
               Edit(cmd, uri, part, outcome)
        PROVE  CancelInv' /\ (cancelled => s'.tree \subseteq s.tree)
    <2> DEFINE here == [cmd |-> cmd, uri |-> uri]
               r == Receive(here, part, outcome = "ok")
               t == [s EXCEPT !.tree = @ \cup r.add]
    <2>1. over' = "none" /\ cancelled' = cancelled /\ id \in Ids
      BY <1>1, <1>b DEF Edit, Command
    <2>2. r.status \in Statuses /\ r.add \subseteq Ids
      BY <2>1 DEF Receive, RecvFirstChunk, RecvNextChunk, Buffered, Applied,
         Failed, Statuses
    <2> HIDE DEF here, r
    <2>3. t \in UserData /\ t.saved \subseteq t.tree
      BY <1>a, <2>2 DEF UserData
    <2> HIDE DEF t
    <2>4. \/ \E st \in Statuses : \/ s' = ProcessStatus(s, id, st)
                                  \/ s' = Answer(s, id, st)
          \/ /\ ~IsCommandSkipped
             /\ s' = ProcessStatus(SequenceStatus(t, r.status), id, r.status)
      BY <1>1, UnitTypes DEF Edit, here, r, t
    <2>5. Shrinks(s, s') \/ (~IsCommandSkipped /\ s'.saved \subseteq s'.tree)
      <3>1. ASSUME NEW st \in Statuses, \/ s' = ProcessStatus(s, id, st)
                                       \/ s' = Answer(s, id, st)
            PROVE  Shrinks(s, s')
        <4>1. /\ Shrinks(s, ProcessStatus(s, id, st))
              /\ Shrinks(s, Answer(s, id, st))
          BY <1>a, <2>1, AnswerShrinks
        <4> QED
          BY <3>1, <4>1
      <3>2. CASE /\ ~IsCommandSkipped
                 /\ s' = ProcessStatus(SequenceStatus(t, r.status), id, r.status)
        BY <2>1, <2>2, <2>3, <3>2, ExecutedShrinks DEF Shrinks
      <3> QED
        BY <2>4, <3>1, <3>2
    <2> QED
      BY <1>d, <1>e, <2>1, <2>5
  <1>2. ASSUME NEW cmd \in {"Add", "Replace"},
               NEW outcome \in {"ok", "fails", "unsupported", "refused"},
               Tnds(cmd, outcome)
        PROVE  CancelInv' /\ (cancelled => s'.tree \subseteq s.tree)
    <2> DEFINE t == [Save(s) EXCEPT !.tree = @ \cup {id}]
    <2>1. over' = "none" /\ cancelled' = cancelled /\ id \in Ids
      BY <1>2, <1>b DEF Tnds, Command
    <2>2. t \in UserData /\ t.saved \subseteq t.tree
      BY <1>a, <2>1, SaveType DEF Save, UserData
    <2> HIDE DEF t
    <2>3. /\ AtomicRollback(t) \in UserData
          /\ AtomicRollback(t).saved \subseteq AtomicRollback(t).tree
      BY <2>1, <2>2, AnswerShrinks, RollbackType, UnitTypes DEF Shrinks
    <2>4. \/ \E st \in Statuses : \/ s' = ProcessStatus(s, id, st)
                                  \/ s' = Answer(s, id, st)
          \/ /\ ~IsCommandSkipped
             /\ \E u \in {s, t, AtomicRollback(t)}, st \in Statuses :
                    s' = ProcessStatus(SequenceStatus(u, st), id, st)
      <3>1. CASE outcome = "ok"
        BY <1>2, <3>1, UnitTypes DEF Tnds, t
      <3>2. CASE outcome = "fails"
        BY <1>2, <3>2, UnitTypes DEF Tnds, t
      <3>3. CASE outcome = "unsupported"
        BY <1>2, <3>3, UnitTypes DEF Tnds, t
      <3>4. CASE outcome = "refused"
        BY <1>2, <3>4, UnitTypes DEF Tnds, t
      <3> QED
        BY <3>1, <3>2, <3>3, <3>4
    <2>5. Shrinks(s, s') \/ (~IsCommandSkipped /\ s'.saved \subseteq s'.tree)
      <3>1. ASSUME NEW st \in Statuses, \/ s' = ProcessStatus(s, id, st)
                                       \/ s' = Answer(s, id, st)
            PROVE  Shrinks(s, s')
        <4>1. /\ Shrinks(s, ProcessStatus(s, id, st))
              /\ Shrinks(s, Answer(s, id, st))
          BY <1>a, <2>1, AnswerShrinks
        <4> QED
          BY <3>1, <4>1
      <3>2. ASSUME ~IsCommandSkipped,
                   NEW u \in {s, t, AtomicRollback(t)}, NEW st \in Statuses,
                   s' = ProcessStatus(SequenceStatus(u, st), id, st)
            PROVE  s'.saved \subseteq s'.tree
        <4>1. u \in UserData /\ u.saved \subseteq u.tree
          BY <1>a, <2>2, <2>3
        <4> QED
          BY <2>1, <3>2, <4>1, ExecutedShrinks DEF Shrinks
      <3> QED
        BY <2>4, <3>1, <3>2
    <2> QED
      BY <1>d, <1>e, <2>1, <2>5
  <1>3. ASSUME NEW outcome \in {"ok", "fails", "refused"}, Delete(outcome)
        PROVE  CancelInv' /\ (cancelled => s'.tree \subseteq s.tree)
    <2> DEFINE t == [s EXCEPT !.tree = @ \cup {id}]
    <2>1. over' = "none" /\ cancelled' = cancelled /\ id \in Ids
      BY <1>3, <1>b DEF Delete, Command
    <2>2. t \in UserData /\ t.saved \subseteq t.tree
      BY <1>a, <2>1 DEF UserData
    <2> HIDE DEF t
    <2>3. \/ \E st \in Statuses : \/ s' = ProcessStatus(s, id, st)
                                  \/ s' = Answer(s, id, st)
          \/ /\ ~IsCommandSkipped
             /\ \E u \in {s, t}, st \in Statuses :
                    s' = ProcessStatus(SequenceStatus(u, st), id, st)
      BY <1>3, UnitTypes DEF Delete, t
    <2>4. Shrinks(s, s') \/ (~IsCommandSkipped /\ s'.saved \subseteq s'.tree)
      <3>1. ASSUME NEW st \in Statuses, \/ s' = ProcessStatus(s, id, st)
                                       \/ s' = Answer(s, id, st)
            PROVE  Shrinks(s, s')
        <4>1. /\ Shrinks(s, ProcessStatus(s, id, st))
              /\ Shrinks(s, Answer(s, id, st))
          BY <1>a, <2>1, AnswerShrinks
        <4> QED
          BY <3>1, <4>1
      <3>2. ASSUME ~IsCommandSkipped, NEW u \in {s, t}, NEW st \in Statuses,
                   s' = ProcessStatus(SequenceStatus(u, st), id, st)
            PROVE  s'.saved \subseteq s'.tree
        BY <1>a, <2>1, <2>2, <3>2, ExecutedShrinks DEF Shrinks
      <3> QED
        BY <2>3, <3>1, <3>2
    <2> QED
      BY <1>d, <1>e, <2>1, <2>4
  <1>4. ASSUME NEW ok \in BOOLEAN, Get(ok)
        PROVE  CancelInv' /\ (cancelled => s'.tree \subseteq s.tree)
    <2>1. over' = "none" /\ cancelled' = cancelled /\ id \in Ids
      BY <1>4, <1>b DEF Get, Command
    <2>2. \E st \in Statuses : \/ s' = ProcessStatus(s, id, st)
                               \/ s' = Answer(s, id, st)
                               \/ s' = Answer(AtomicRollback(s), id, st)
      BY <1>4, UnitTypes DEF Get
    <2> QED
      BY <1>a, <1>d, <2>1, <2>2, AnswerShrinks
  <1>5. ASSUME NEW ok \in BOOLEAN, Exec(ok)
        PROVE  CancelInv' /\ (cancelled => s'.tree \subseteq s.tree)
    <2>1. over' = "none" /\ cancelled' = cancelled /\ id \in Ids
      BY <1>5, <1>b DEF Exec, Command
    <2>2. \/ UNCHANGED s
          \/ \E st \in Statuses : \/ s' = Answer(AtomicRollback(s), id, st)
                                  \/ s' = Answer(s, id, st)
                                  \/ s' = Answer(SequenceStatus(s, st), id, st)
      BY <1>5, UnitTypes DEF Exec
    <2> QED
      BY <1>a, <1>d, <1>f, <2>1, <2>2, AnswerShrinks, ExecutedShrinks
  <1>6. CASE Copy
    <2>1. over' = "none" /\ cancelled' = cancelled /\ id \in Ids
      BY <1>6, <1>b DEF Copy, Command
    <2> QED
      BY <1>6, <1>a, <1>d, <2>1, AnswerShrinks, UnitTypes DEF Copy
  <1>7. ASSUME NEW action \in {"ok", "abort", "unsupported", "incomplete",
                               "yes", "no", "cancel", "leave"},
               Alert(action)
        PROVE  CancelInv' /\ (cancelled => s'.tree \subseteq s.tree)
    <2> DEFINE t(a) == [s EXCEPT !.alertState = a]
    <2>1. over' = "none" /\ id \in Ids
      BY <1>7, <1>b DEF Alert, Command
    <2>2. \A a \in {"no", "cancel"} :
              /\ t(a) \in UserData /\ t(a).alertState = a
              /\ t(a).tree = s.tree /\ t(a).saved = s.saved
      BY <1>a DEF UserData
    <2>3. CASE cancelled' = cancelled /\ (IsCommandSkipped \/
                   ~(action \in {"no", "cancel"}) \/ aborted \/ ~auth)
      <3>1. \E st \in Statuses : \/ s' = Answer(s, id, st)
                                 \/ s' = Keep(s, id, st)
                                 \/ s' = Keep(AtomicRollback(s), id, st)
        BY <1>7, <2>3, UnitTypes DEF Alert
      <3> QED
        BY <1>a, <1>d, <2>1, <2>3, <3>1, AnswerShrinks
    <2>4. CASE action \in {"no", "cancel"} /\ ~IsCommandSkipped /\ ~aborted
                   /\ auth
      <3>1. \E st \in Statuses :
                \/ s' = Answer(t(action), id, st)
                \/ s' = Keep(t(action), id, st)
                \/ s' = Keep(AtomicRollback(t(action)), id, st)
        BY <1>7, <2>4, UnitTypes DEF Alert
      <3>2. cancelled' => action = "cancel"
        BY <1>7, <1>c, <2>4 DEF Alert
      <3>3. Shrinks(t(action), s')
        BY <1>a, <2>1, <2>2, <2>4, <3>1, AnswerShrinks
      <3> QED
        BY <1>a, <2>1, <2>2, <2>4, <3>2, <3>3 DEF Shrinks, CancelInv
    <2>5. cancelled' = cancelled \/ (action = "cancel" /\ auth /\
              ~IsCommandSkipped /\ ~aborted)
      BY <1>7, <1>a DEF Alert
    <2> QED
      BY <2>3, <2>4, <2>5
  <1>8. CASE StartSequence
    <2> DEFINE t == [s EXCEPT !.bInSequence = TRUE]
    <2>1. over' = "none" /\ cancelled' = cancelled /\ id \in Ids
      BY <1>8, <1>b DEF StartSequence, Opens, Command
    <2>2. /\ t \in UserData /\ t.tree = s.tree /\ t.saved = s.saved
          /\ t.alertState = s.alertState
      BY <1>a DEF UserData
    <2>3. UNCHANGED s \/ \E st \in Statuses : s' = Answer(t, id, st)
      BY <1>8, UnitTypes DEF StartSequence
    <2> HIDE DEF t
    <2>4. Shrinks(s, s')
      BY <1>a, <1>f, <2>1, <2>2, <2>3, AnswerShrinks DEF Shrinks
    <2> QED
      BY <1>d, <2>1, <2>4
  <1>9. CASE EndSequence
    <2>1. over' = "none" /\ cancelled' = cancelled
      BY <1>9 DEF EndSequence, Closes, history
    <2>2. Shrinks(s, s')
      BY <1>9, <1>a DEF EndSequence, Shrinks, UserData
    <2> QED
      BY <1>d, <2>1, <2>2
  <1>10. CASE StartAtomic
    <2>1. over' = "none" /\ cancelled' = cancelled /\ id \in Ids
      BY <1>10, <1>b DEF StartAtomic, Opens, Command
    <2>2. \/ UNCHANGED s
          \/ s' = Answer(s, id, "failed")
          \/ s' = BeginAtomic(s)
      BY <1>10 DEF StartAtomic
    <2>3. Shrinks(s, BeginAtomic(s))
      BY <1>a DEF Shrinks, BeginAtomic, Save, UserData
    <2>4. Shrinks(s, s')
      BY <1>a, <1>f, <2>1, <2>2, <2>3, AnswerShrinks, UnitTypes
    <2> QED
      BY <1>d, <2>1, <2>4
  <1>11. CASE EndAtomic
    <2> DEFINE t == [s EXCEPT !.inAtomic = FALSE]
               u == Commit(t)
    <2>1. over' = "none" /\ cancelled' = cancelled
          /\ s' = IF auth THEN FinishAtomic(u) ELSE s
      BY <1>11 DEF EndAtomic, Closes, history
    <2>2. t \in UserData /\ Shrinks(s, t) /\ Shrinks(s, Save(t))
      BY <1>a DEF Shrinks, UserData, Save
    <2> HIDE DEF t
    <2>3. u \in UserData /\ Shrinks(s, u)
      BY <2>2, SaveType DEF Commit
    <2> HIDE DEF u
    <2>4. Shrinks(s, FinishAtomic(u))
      BY <2>3, FinishFields DEF Shrinks
    <2> QED
      BY <1>d, <1>f, <2>1, <2>4
  <1>12. ASSUME NEW sent \in 0..results, NEW chunk \in BOOLEAN,
                EndMessage(sent, chunk)
         PROVE  CancelInv' /\ (cancelled => s'.tree \subseteq s.tree)
    BY <1>12 DEF CancelInv, EndMessage, history
  <1>13. CASE EndSession
    BY <1>13, <1>a DEF CancelInv, EndSession, history, Save, UserData
  <1>14. CASE ParseFails
    BY <1>14, <1>a DEF CancelInv, ParseFails, history, UserData
  <1>15. CASE UNCHANGED vars
    BY <1>15 DEF CancelInv, vars, history
  <1> QED
    BY <1>1, <1>2, <1>3, <1>4, <1>5, <1>6, <1>7, <1>8, <1>9, <1>10, <1>11,
       <1>12, <1>13, <1>14, <1>15 DEF Next

----------------------------------------------------------------------------
\* FailureLeavesNothing.  E are the commands that change the tree, k is the
\* number of commands, m that of commands with an effect.

ToldClean(t, E, k) ==
    \A e \in RepliesOf(t.told) :
        /\ e.id <= k
        /\ (e.status # "ok" /\ e.id \in E) => e.id \notin t.tree \cup t.saved

KeptClean(t, E, k) ==
    \A e \in RepliesOf(t.oStatus) :
        /\ e.id <= k
        /\ e.id \in E => /\ e.id \notin t.saved
                         /\ e.status # "ok" => e.id \notin t.tree

Clean(t, E, k, m) ==
    /\ t.tree \subseteq 1..m /\ t.saved \subseteq 1..k
    /\ ToldClean(t, E, k) /\ KeptClean(t, E, k)
    /\ t.cmdId <= k /\ t.cmdId \notin E
    /\ RepliesOf(t.oStatus) # {} => t.inAtomic

LEMMA CleanGrows ==
    ASSUME NEW t \in UserData, NEW E, NEW F, NEW k \in Nat, NEW m,
           Clean(t, E, k, m), F \subseteq E \cup {k + 1}
    PROVE  Clean(t, F, k, m)
  BY RepliesTyped DEF Clean, ToldClean, KeptClean

LEMMA CleanLater ==
    ASSUME NEW t \in UserData, NEW E, NEW k \in Nat, Clean(t, E, k, k)
    PROVE  Clean(t, E, k + 1, k + 1)
  BY RepliesTyped DEF Clean, ToldClean, KeptClean

LEMMA CleanAnswer ==
    ASSUME NEW t \in UserData, NEW E, NEW k \in Nat, Clean(t, E, k, k + 1),
           k + 1 \in Ids, NEW st \in Statuses, st = "ok" \/ k + 1 \notin t.tree
    PROVE  Clean(Answer(t, k + 1, st), E, k + 1, k + 1)
  <1> DEFINE u == Answer(t, k + 1, st)
  <1>1. /\ RepliesOf(u.told) = RepliesOf(t.told)
                                   \cup {[id |-> k + 1, status |-> st]}
        /\ u.oStatus = t.oStatus /\ u.tree = t.tree /\ u.saved = t.saved
        /\ u.inAtomic = t.inAtomic /\ u.cmdId = t.cmdId
    BY AnswerFields
  <1> HIDE DEF u
  <1>2. ToldClean(u, E, k + 1)
    BY <1>1, RepliesTyped DEF Clean, ToldClean
  <1>3. KeptClean(u, E, k + 1)
    BY <1>1, RepliesTyped DEF Clean, KeptClean
  <1> QED
    BY <1>1, <1>2, <1>3, RepliesTyped DEF Clean, u

LEMMA CleanKeep ==
    ASSUME NEW t \in UserData, NEW E, NEW k \in Nat, Clean(t, E, k, k + 1),
           k + 1 \in Ids, NEW st \in Statuses, st = "ok" \/ k + 1 \notin t.tree,
           t.inAtomic = TRUE
    PROVE  Clean(Keep(t, k + 1, st), E, k + 1, k + 1)
  <1> DEFINE u == Keep(t, k + 1, st)
             a == [id |-> k + 1, status |-> st]
  <1>0. u = Keep(t, k + 1, st)
    OBVIOUS
  <1> HIDE DEF u
  <1>1. /\ RepliesOf(u.oStatus) = RepliesOf(t.oStatus)
                                   \cup {a}
        /\ u.told = t.told /\ u.tree = t.tree /\ u.saved = t.saved
        /\ u.inAtomic = t.inAtomic /\ u.cmdId = t.cmdId
    BY <1>0, KeepFields
  <1>2. ToldClean(u, E, k + 1)
    BY <1>1, RepliesTyped DEF Clean, ToldClean
  <1>3. KeptClean(u, E, k + 1)
    <2>1. /\ a.id = k + 1 /\ a.status = st /\ k + 1 \notin t.saved
          /\ st # "ok" => k + 1 \notin t.tree
      BY DEF Clean
    <2> HIDE DEF a
    <2>2. \A e \in RepliesOf(t.oStatus) : e.id <= k + 1
      BY RepliesTyped DEF Clean, KeptClean
    <2> QED
      BY <1>1, <2>1, <2>2 DEF Clean, KeptClean
  <1>4. u.inAtomic
    BY <1>1
  <1> QED
    BY <1>1, <1>2, <1>3, <1>4, RepliesTyped DEF Clean, u

LEMMA CleanRollback ==
    ASSUME NEW t \in UserData, NEW E, NEW k \in Nat, Clean(t, E, k, k + 1),
           t.saved \subseteq t.tree
    PROVE  /\ Clean(AtomicRollback(t), E, k, k + 1)
           /\ AtomicRollback(t).tree \subseteq t.tree
           /\ AtomicRollback(t).inAtomic = t.inAtomic
  <1>1. CASE t.rollback
    BY <1>1 DEF AtomicRollback
  <1>2. CASE ~t.rollback
    <2> DEFINE u == AtomicRollback(t)
    <2>1. /\ u.told = t.told /\ u.tree = t.saved /\ u.saved = t.saved
          /\ u.inAtomic = t.inAtomic /\ u.cmdId = t.cmdId
          /\ RepliesOf(u.oStatus) =
                 {[id |-> e.id, status |-> "rolled_back"] :
                     e \in RepliesOf(t.oStatus)}
      BY <1>2, RollbackFields
    <2> HIDE DEF u
    <2>2. ToldClean(u, E, k)
      BY <2>1 DEF Clean, ToldClean
    <2>3. KeptClean(u, E, k)
      BY <2>1 DEF Clean, KeptClean
    <2>4. RepliesOf(u.oStatus) # {} => t.inAtomic
      BY <2>1 DEF Clean
    <2> QED
      BY <2>1, <2>2, <2>3, <2>4 DEF Clean, u
  <1> QED
    BY <1>1, <1>2

LEMMA CleanProcess ==
    ASSUME NEW t \in UserData, NEW E, NEW k \in Nat, Clean(t, E, k, k + 1),
           t.saved \subseteq t.tree, k + 1 \in Ids, NEW st \in Statuses,
           st = "ok" \/ k + 1 \notin t.tree
    PROVE  Clean(ProcessStatus(t, k + 1, st), E, k + 1, k + 1)
  <1>1. CASE ~t.inAtomic
    BY <1>1, CleanAnswer DEF ProcessStatus
  <1>2. CASE t.inAtomic /\ st = "ok"
    BY <1>2, CleanKeep DEF ProcessStatus, UserData
  <1>3. CASE t.inAtomic /\ st # "ok"
    <2> DEFINE u == AtomicRollback(t)
    <2>1. /\ u \in UserData /\ Clean(u, E, k, k + 1) /\ k + 1 \notin u.tree
          /\ u.inAtomic
      BY <1>3, CleanRollback, RollbackType
    <2> HIDE DEF u
    <2>3. u.inAtomic = TRUE
      BY <2>1 DEF UserData
    <2>2. Clean(Keep(u, k + 1, st), E, k + 1, k + 1)
      BY <2>1, <2>3, CleanKeep
    <2> QED
      BY <1>3, <2>2 DEF ProcessStatus, u
  <1> QED
    BY <1>1, <1>2, <1>3

\* A record with the same statuses, and with k + 1 in the tree or not.
LEMMA CleanSame ==
    ASSUME NEW t \in UserData, NEW E, NEW k \in Nat, NEW m, Clean(t, E, k, m),
           NEW u, u.told = t.told, u.oStatus = t.oStatus, u.tree = t.tree,
           u.saved = t.saved, u.cmdId = t.cmdId, u.inAtomic = t.inAtomic
    PROVE  Clean(u, E, k, m)
  BY DEF Clean, ToldClean, KeptClean

LEMMA CleanEdit ==
    ASSUME NEW t \in UserData, NEW E, NEW k \in Nat, Clean(t, E, k, k),
           NEW u, u.told = t.told, u.oStatus = t.oStatus,
           u.tree \subseteq t.tree \cup {k + 1}, u.cmdId = t.cmdId,
           u.inAtomic = t.inAtomic,
           u.saved = t.saved \/ (~t.inAtomic /\ u.saved = t.tree)
    PROVE  Clean(u, E, k, k + 1)
  BY RepliesTyped DEF Clean, ToldClean, KeptClean

LEMMA CleanBegin ==
    ASSUME NEW t \in UserData, NEW E, NEW k \in Nat, Clean(t, E, k, k),
           ~t.inAtomic, k + 1 \notin E,
           NEW u, u.told = t.told, u.oStatus = t.oStatus, u.tree = t.tree,
           u.saved = t.tree, u.cmdId = k + 1
    PROVE  Clean(u, E, k + 1, k + 1)
  BY RepliesTyped DEF Clean, ToldClean, KeptClean

LEMMA CleanFinish ==
    ASSUME NEW t \in UserData, NEW E, NEW k \in Nat, Clean(t, E, k, k),
           NEW u, u.tree = t.tree, u.saved \in {t.saved, t.tree},
           RepliesOf(u.told) = (RepliesOf(t.told)
                  \cup {[id |-> t.cmdId, status |-> t.status]})
                      \cup RepliesOf(t.oStatus),
           RepliesOf(u.oStatus) = {}, u.cmdId = t.cmdId
    PROVE  Clean(u, E, k, k)
  <1>1. ToldClean(u, E, k)
    BY DEF Clean, ToldClean, KeptClean
  <1> QED
    BY <1>1 DEF Clean, KeptClean

CleanInv ==
    /\ edits \subseteq 1..n
    /\ "tnds" \notin odd =>
          /\ ToldClean(s, edits, n)
          /\ over = "none" => Clean(s, edits, n, n)

LEMMA CleanInit == Init => CleanInv
  <1> SUFFICES ASSUME Init
               PROVE  CleanInv
    OBVIOUS
  <1>1. /\ s.told = <<>> /\ s.oStatus = <<>> /\ s.cmdId = 0 /\ s.tree = {}
        /\ s.saved = {} /\ n = 0 /\ edits = {}
    BY DEF Init
  <1>2. RepliesOf(s.told) = {} /\ RepliesOf(s.oStatus) = {}
    BY <1>1 DEF RepliesOf
  <1> QED
    BY <1>1, <1>2 DEF CleanInv, Clean, ToldClean, KeptClean

LEMMA CleanStep == TypeOK /\ CancelInv /\ CleanInv /\ [Next]_vars => CleanInv'
  <1> SUFFICES ASSUME TypeOK, CancelInv, CleanInv, [Next]_vars
               PROVE  CleanInv'
    OBVIOUS
  <1>a. /\ s \in UserData /\ n \in Nat /\ s.saved \subseteq s.tree
        /\ edits \subseteq 1..n
    BY BoundAssumption DEF TypeOK, CancelInv, CleanInv
  <1> DEFINE E == edits
             F == edits'
             Fair == "tnds" \notin odd'
  <1>b. over = "none" /\ "tnds" \notin odd => Clean(s, E, n, n)
    BY DEF CleanInv
  <1>c. over = "none" /\ "tnds" \notin odd /\ F \subseteq E \cup {n + 1}
            => Clean(s, F, n, n)
    BY <1>a, <1>b, CleanGrows
  <1>d. n < MaxCommands => n + 1 \in Ids
    BY UnitTypes, BoundAssumption DEF TypeOK
  <1> DEFINE Fresh == /\ over = "none" /\ over' = "none" /\ n' = n + 1
                      /\ n + 1 \in Ids /\ F \subseteq E \cup {n + 1}
                      /\ odd \subseteq odd'
  <1>e. ASSUME Fresh, Fair
        PROVE  Clean(s, F, n, n) /\ n + 1 \notin s.tree /\ Clean(s, F, n, n + 1)
    <2>1. Clean(s, F, n, n)
      BY <1>c, <1>e
    <2> QED
      BY <1>a, <2>1 DEF Clean
  <1>f. ASSUME Fresh, Fair => Clean(s', F, n + 1, n + 1)
        PROVE  CleanInv'
    <2>1. edits' \subseteq 1..(n + 1)
      BY <1>a, <1>f
    <2> QED
      BY <1>f, <2>1 DEF CleanInv, Clean
  \* Commands that are answered without an effect.
  <1>g. ASSUME Fresh, Fair, NEW st \in Statuses
        PROVE  /\ Clean(Answer(s, n + 1, st), F, n + 1, n + 1)
               /\ Clean(ProcessStatus(s, n + 1, st), F, n + 1, n + 1)
               /\ Clean(Answer(AtomicRollback(s), n + 1, st), F, n + 1, n + 1)
    <2> DEFINE u == AtomicRollback(s)
    <2>1. u \in UserData /\ Clean(u, F, n, n + 1) /\ n + 1 \notin u.tree
      BY <1>a, <1>e, <1>g, CleanRollback, RollbackType
    <2> HIDE DEF u, F, E
    <2>2. Clean(Answer(u, n + 1, st), F, n + 1, n + 1)
      BY <1>a, <1>g, <2>1, CleanAnswer
    <2>3. Clean(Answer(s, n + 1, st), F, n + 1, n + 1)
      BY <1>a, <1>e, <1>g, CleanAnswer
    <2>4. Clean(ProcessStatus(s, n + 1, st), F, n + 1, n + 1)
      BY <1>a, <1>e, <1>g, CleanProcess
    <2> QED
      BY <2>2, <2>3, <2>4 DEF u
  \* An executed edit, which gives u.
  <1>h. ASSUME Fresh, Fair, NEW u \in UserData, u.saved \subseteq u.tree,
               u.told = s.told, u.oStatus = s.oStatus,
               u.tree \subseteq s.tree \cup {n + 1}, u.cmdId = s.cmdId,
               u.inAtomic = s.inAtomic,
               u.saved = s.saved \/ (~s.inAtomic /\ u.saved = s.tree),
               NEW st \in Statuses, st = "ok" \/ n + 1 \notin u.tree
        PROVE  /\ Clean(ProcessStatus(SequenceStatus(u, st), n + 1, st), F,
                        n + 1, n + 1)
               /\ Clean(Answer(SequenceStatus(u, st), n + 1, st), F,
                        n + 1, n + 1)
    <2> DEFINE v == SequenceStatus(u, st)
    <2>1. Clean(u, F, n, n + 1)
      BY <1>a, <1>e, <1>h, CleanEdit
    <2>2. v \in UserData /\ v.saved \subseteq v.tree /\ v.tree = u.tree
      BY <1>h, SequenceFields, SequenceStatusType
    <2>3. Clean(v, F, n, n + 1)
      BY <1>a, <2>1, CleanSame, SequenceFields
    <2> HIDE DEF v, F, E
    <2>4. Clean(ProcessStatus(v, n + 1, st), F, n + 1, n + 1)
      BY <1>a, <1>h, <2>2, <2>3, CleanProcess
    <2>5. Clean(Answer(v, n + 1, st), F, n + 1, n + 1)
      BY <1>a, <1>h, <2>2, <2>3, CleanAnswer
    <2> QED
      BY <2>4, <2>5 DEF v
  <1>1. ASSUME NEW cmd \in {"Add", "Replace"}, NEW uri \in URIs,
               NEW part \in {"whole", "first", "next", "last"},
               NEW outcome \in {"ok", "fails", "refused"},
               Edit(cmd, uri, part, outcome)
        PROVE  CleanInv'
    <2> DEFINE here == [cmd |-> cmd, uri |-> uri]
               r == Receive(here, part, outcome = "ok")
               t == [s EXCEPT !.tree = @ \cup r.add]
    <2>1. Fresh /\ id = n + 1
      BY <1>1, <1>d DEF Edit, Command, IsEdit, id
    <2>2. /\ r.status \in Statuses /\ r.add \subseteq {n + 1}
          /\ r.status = "ok" \/ r.add = {}
      BY <2>1 DEF Receive, RecvFirstChunk, RecvNextChunk, Buffered, Applied,
         Failed, Statuses
    <2> HIDE DEF here, r
    <2>3. /\ t \in UserData /\ t.saved \subseteq t.tree
          /\ t.told = s.told /\ t.oStatus = s.oStatus /\ t.cmdId = s.cmdId
          /\ t.inAtomic = s.inAtomic /\ t.saved = s.saved
          /\ t.tree = s.tree \cup r.add
      BY <1>a, <2>1, <2>2 DEF UserData
    <2> HIDE DEF t
    <2>4. \/ \E st \in Statuses : \/ s' = ProcessStatus(s, id, st)
                                  \/ s' = Answer(s, id, st)
          \/ s' = ProcessStatus(SequenceStatus(t, r.status), id, r.status)
      BY <1>1, UnitTypes DEF Edit, here, r, t
    <2>5. ASSUME Fair
          PROVE  Clean(s', F, n + 1, n + 1)
      <3>1. n + 1 \notin s.tree
        BY <1>e, <2>1, <2>5
      <3>2. r.status = "ok" \/ n + 1 \notin t.tree
        BY <2>2, <2>3, <3>1
      <3>3. t.tree \subseteq s.tree \cup {n + 1}
        BY <2>2, <2>3
      <3>4. Clean(ProcessStatus(SequenceStatus(t, r.status), n + 1, r.status),
                  F, n + 1, n + 1)
        BY <1>h, <2>1, <2>2, <2>3, <2>5, <3>2, <3>3
      <3> QED
        BY <1>g, <2>1, <2>4, <2>5, <3>4
    <2> QED
      BY <1>f, <2>1, <2>5
  <1>2. ASSUME NEW cmd \in {"Add", "Replace"},
               NEW outcome \in {"ok", "fails", "unsupported", "refused"},
               Tnds(cmd, outcome)
        PROVE  CleanInv'
    <2> DEFINE t == [Save(s) EXCEPT !.tree = @ \cup {id}]
    <2>1. Fresh /\ id = n + 1
      BY <1>2, <1>d DEF Tnds, Command, IsEdit, id
    <2>2. /\ t \in UserData /\ t.saved \subseteq t.tree
          /\ t.told = s.told /\ t.oStatus = s.oStatus /\ t.cmdId = s.cmdId
          /\ t.inAtomic = s.inAtomic /\ t.saved = s.tree
          /\ t.tree = s.tree \cup {n + 1}
      BY <1>a, <2>1 DEF UserData, Save
    <2> HIDE DEF t
    <2>3. ASSUME Fair
          PROVE  \/ \E st \in Statuses : \/ s' = ProcessStatus(s, id, st)
                                         \/ s' = Answer(s, id, st)
                 \/ /\ ~s.inAtomic
                    /\ s' = ProcessStatus(SequenceStatus(t, "ok"), id, "ok")
      <3>1. CASE ~(~Interrupts(cmd) /\ auth /\ ~IsCommandSkipped)
        BY <1>2, <3>1, UnitTypes DEF Tnds
      <3>2. CASE ~Interrupts(cmd) /\ auth /\ ~IsCommandSkipped
        <4>1. ~s.inAtomic /\ outcome = "ok"
          BY <1>2, <2>3, <3>2 DEF Tnds
        <4> QED
          BY <1>2, <3>2, <4>1 DEF Tnds, t
      <3> QED
        BY <3>1, <3>2
    <2>4. ASSUME Fair
          PROVE  Clean(s', F, n + 1, n + 1)
      <3>1. ASSUME ~s.inAtomic
            PROVE  Clean(ProcessStatus(SequenceStatus(t, "ok"), n + 1, "ok"),
                         F, n + 1, n + 1)
        BY <1>h, <2>1, <2>2, <2>4, <3>1, UnitTypes
      <3> QED
        BY <1>g, <2>1, <2>3, <2>4, <3>1
    <2> QED
      BY <1>f, <2>1, <2>4
  <1>3. ASSUME NEW outcome \in {"ok", "fails", "refused"}, Delete(outcome)
        PROVE  CleanInv'
    <2> DEFINE t == [s EXCEPT !.tree = @ \cup {id}]
    <2>1. Fresh /\ id = n + 1
      BY <1>3, <1>d DEF Delete, Command, IsEdit, id
    <2>2. /\ t \in UserData /\ t.saved \subseteq t.tree
          /\ t.told = s.told /\ t.oStatus = s.oStatus /\ t.cmdId = s.cmdId
          /\ t.inAtomic = s.inAtomic /\ t.saved = s.saved
          /\ t.tree = s.tree \cup {n + 1}
      BY <1>a, <2>1 DEF UserData
    <2> HIDE DEF t
    <2>3. \/ \E st \in Statuses : \/ s' = ProcessStatus(s, id, st)
                                  \/ s' = Answer(s, id, st)
          \/ s' = ProcessStatus(SequenceStatus(t, "ok"), id, "ok")
          \/ s' = ProcessStatus(SequenceStatus(s, "failed"), id, "failed")
      BY <1>3, UnitTypes DEF Delete, t
    <2>4. ASSUME Fair
          PROVE  Clean(s', F, n + 1, n + 1)
      <3>1. Clean(ProcessStatus(SequenceStatus(t, "ok"), n + 1, "ok"),
                  F, n + 1, n + 1)
        BY <1>h, <2>1, <2>2, <2>4, UnitTypes
      <3>2. n + 1 \notin s.tree
        BY <1>e, <2>1, <2>4
      <3>3. Clean(ProcessStatus(SequenceStatus(s, "failed"), n + 1, "failed"),
                  F, n + 1, n + 1)
        BY <1>a, <1>h, <2>1, <2>4, <3>2, UnitTypes
      <3> QED
        BY <1>g, <2>1, <2>3, <2>4, <3>1, <3>3
    <2> QED
      BY <1>f, <2>1, <2>4
  <1>4. ASSUME NEW ok \in BOOLEAN, Get(ok)
        PROVE  CleanInv'
    <2>1. Fresh /\ id = n + 1
      BY <1>4, <1>d DEF Get, Command, id
    <2>2. \E st \in Statuses : \/ s' = ProcessStatus(s, id, st)
                               \/ s' = Answer(s, id, st)
                               \/ s' = Answer(AtomicRollback(s), id, st)
      BY <1>4, UnitTypes DEF Get
    <2> QED
      BY <1>f, <1>g, <2>1, <2>2
  <1>5. ASSUME NEW ok \in BOOLEAN, Exec(ok)
        PROVE  CleanInv'
    <2>1. Fresh /\ id = n + 1
      BY <1>5, <1>d DEF Exec, Command, id
    <2>2. \/ UNCHANGED s
          \/ \E st \in Statuses : \/ s' = Answer(AtomicRollback(s), id, st)
                                  \/ s' = Answer(s, id, st)
                                  \/ s' = Answer(SequenceStatus(s, st), id, st)
      BY <1>5, UnitTypes DEF Exec
    <2>3. ASSUME Fair
          PROVE  Clean(s', F, n + 1, n + 1)
      <3>1. Clean(s, F, n + 1, n + 1) /\ n + 1 \notin s.tree
        BY <1>a, <1>e, <2>1, <2>3, CleanLater
      <3>2. ASSUME NEW st \in Statuses
            PROVE  Clean(Answer(SequenceStatus(s, st), n + 1, st),
                         F, n + 1, n + 1)
        BY <1>a, <1>h, <2>1, <2>3, <3>1
      <3> QED
        BY <1>g, <2>1, <2>2, <2>3, <3>1, <3>2
    <2> QED
      BY <1>f, <2>1, <2>3
  <1>6. CASE Copy
    <2>1. Fresh /\ id = n + 1
      BY <1>6, <1>d DEF Copy, Command, id
    <2> QED
      BY <1>6, <1>f, <1>g, <2>1, UnitTypes DEF Copy
  <1>7. ASSUME NEW action \in {"ok", "abort", "unsupported", "incomplete",
                               "yes", "no", "cancel", "leave"},
               Alert(action)
        PROVE  CleanInv'
    <2>1. /\ Fresh /\ id = n + 1 /\ UNCHANGED <<edits, odd>>
          /\ n + 1 \notin F
      BY <1>7, <1>a, <1>d DEF Alert, Command, id
    <2>2. ASSUME NEW a \in {"no", "cancel"},
                 NEW t, t = [s EXCEPT !.alertState = a]
          PROVE  /\ t \in UserData /\ t.saved = s.saved /\ t.tree = s.tree
                 /\ t.told = s.told /\ t.oStatus = s.oStatus
                 /\ t.cmdId = s.cmdId /\ t.inAtomic = s.inAtomic
      BY <1>a, <2>2 DEF UserData
    <2>3. PICK t \in {s} \cup {[s EXCEPT !.alertState = a] :
                                 a \in {"no", "cancel"}}, st \in Statuses :
              \/ s' = Answer(t, id, st)
              \/ s.inAtomic /\ s' = Keep(t, id, st)
              \/ s.inAtomic /\ s' = Keep(AtomicRollback(t), id, st)
      BY <1>7, UnitTypes DEF Alert
    <2>4. /\ t \in UserData /\ t.saved = s.saved /\ t.tree = s.tree
          /\ t.told = s.told /\ t.oStatus = s.oStatus
          /\ t.cmdId = s.cmdId /\ t.inAtomic = s.inAtomic
      BY <1>a, <2>2, <2>3
    <2>5. ASSUME Fair
          PROVE  Clean(s', F, n + 1, n + 1)
      <3>1. n + 1 \notin s.tree /\ Clean(s, F, n, n + 1)
        BY <1>e, <2>1, <2>5
      <3>2. Clean(t, F, n, n + 1) /\ n + 1 \notin t.tree
        BY <1>a, <2>4, <3>1, CleanSame
      <3>3. AtomicRollback(t) \in UserData /\ Clean(AtomicRollback(t), F, n, n + 1)
            /\ n + 1 \notin AtomicRollback(t).tree
            /\ AtomicRollback(t).inAtomic = t.inAtomic
        BY <1>a, <2>4, <3>2, CleanRollback, RollbackType
      <3>4. s.inAtomic \in BOOLEAN
        BY <1>a DEF UserData
      <3>5. CASE s' = Answer(t, id, st)
        BY <1>a, <2>1, <2>4, <3>2, <3>5, CleanAnswer
      <3>6. CASE s.inAtomic /\ s' = Keep(t, id, st)
        <4>1. t.inAtomic = TRUE
          BY <2>4, <3>4, <3>6
        <4> QED
          BY <1>a, <2>1, <2>4, <3>2, <3>6, <4>1, CleanKeep
      <3>7. CASE s.inAtomic /\ s' = Keep(AtomicRollback(t), id, st)
        <4> DEFINE u == AtomicRollback(t)
        <4>1. u.inAtomic = TRUE
          BY <2>4, <3>3, <3>4, <3>7
        <4>2. u \in UserData /\ Clean(u, F, n, n + 1) /\ n + 1 \notin u.tree
              /\ s' = Keep(u, id, st)
          BY <3>3, <3>7
        <4> HIDE DEF u
        <4> QED
          BY <1>a, <2>1, <4>1, <4>2, CleanKeep
      <3> QED
        BY <2>3, <3>5, <3>6, <3>7
    <2> QED
      BY <1>f, <2>1, <2>5
  <1>8. CASE StartSequence
    <2> DEFINE t == [s EXCEPT !.bInSequence = TRUE]
    <2>1. Fresh /\ id = n + 1
      BY <1>8, <1>d DEF StartSequence, Opens, Command, id
    <2>2. /\ t \in UserData /\ t.tree = s.tree /\ t.saved = s.saved
          /\ t.told = s.told /\ t.oStatus = s.oStatus
          /\ t.cmdId = s.cmdId /\ t.inAtomic = s.inAtomic
      BY <1>a DEF UserData
    <2>3. UNCHANGED s \/ \E st \in Statuses : s' = Answer(t, id, st)
      BY <1>8, UnitTypes DEF StartSequence
    <2> HIDE DEF t
    <2>4. ASSUME Fair
          PROVE  Clean(s', F, n + 1, n + 1)
      <3>1. /\ n + 1 \notin s.tree /\ Clean(s, F, n, n + 1)
            /\ Clean(s, F, n + 1, n + 1)
        BY <1>a, <1>e, <2>1, <2>4, CleanLater
      <3>2. Clean(t, F, n, n + 1) /\ n + 1 \notin t.tree
        BY <1>a, <2>2, <3>1, CleanSame
      <3> QED
        BY <1>a, <2>1, <2>2, <2>3, <3>1, <3>2, CleanAnswer
    <2> QED
      BY <1>f, <2>1, <2>4
  \* The commands stay as they are.
  <1>i. ASSUME over = "none", UNCHANGED <<n, edits, odd>>,
               Fair => Clean(s', E, n, n)
        PROVE  CleanInv'
    BY <1>a, <1>i DEF CleanInv, Clean
  <1>9. CASE EndSequence
    <2>1. over = "none" /\ UNCHANGED <<n, edits, odd>>
      BY <1>9 DEF EndSequence, Closes, history
    <2>2. /\ s'.tree = s.tree /\ s'.saved = s.saved
          /\ s'.told = s.told /\ s'.oStatus = s.oStatus
          /\ s'.cmdId = s.cmdId /\ s'.inAtomic = s.inAtomic
      BY <1>9, <1>a DEF EndSequence, UserData
    <2> QED
      BY <1>a, <1>b, <1>i, <2>1, <2>2, CleanSame
  <1>10. CASE StartAtomic
    <2>1. /\ Fresh /\ id = n + 1 /\ n + 1 \notin F
      BY <1>10, <1>a, <1>d DEF StartAtomic, Opens, Command, id
    <2>2. \/ UNCHANGED s
          \/ s' = Answer(s, id, "failed")
          \/ ~s.inAtomic /\ s' = BeginAtomic(s)
      BY <1>10 DEF StartAtomic
    <2>3. ASSUME Fair
          PROVE  Clean(s', F, n + 1, n + 1)
      <3>1. CASE UNCHANGED s
        BY <1>a, <1>e, <2>1, <2>3, <3>1, CleanLater
      <3>2. CASE s' = Answer(s, id, "failed")
        BY <1>g, <2>1, <2>3, <3>2, UnitTypes
      <3>3. CASE ~s.inAtomic /\ s' = BeginAtomic(s)
        <4>1. /\ s'.told = s.told /\ s'.oStatus = s.oStatus
              /\ s'.tree = s.tree /\ s'.saved = s.tree /\ s'.cmdId = n + 1
          BY <1>a, <3>3 DEF BeginAtomic, Save, UserData, id
        <4> QED
          BY <1>a, <1>e, <2>1, <2>3, <3>3, <4>1, CleanBegin
      <3> QED
        BY <2>2, <3>1, <3>2, <3>3
    <2> QED
      BY <1>f, <2>1, <2>3
  <1>11. CASE EndAtomic
    <2> DEFINE t == [s EXCEPT !.inAtomic = FALSE]
               u == Commit(t)
               v == FinishAtomic(u)
    <2>1. /\ over = "none" /\ UNCHANGED <<n, edits, odd>>
          /\ s' = IF auth THEN v ELSE s
      BY <1>11 DEF EndAtomic, Closes, history
    <2>2. /\ t \in UserData /\ t.tree = s.tree /\ t.saved = s.saved
          /\ t.told = s.told /\ t.oStatus = s.oStatus
          /\ t.cmdId = s.cmdId /\ t.status = s.status
      BY <1>a DEF UserData
    <2> HIDE DEF t
    <2>3. /\ u \in UserData /\ u.tree = s.tree /\ u.saved \in {s.saved, s.tree}
          /\ u.told = s.told /\ u.oStatus = s.oStatus
          /\ u.cmdId = s.cmdId /\ u.status = s.status
      BY <2>2, SaveType DEF Commit, Save, UserData
    <2> HIDE DEF u
    <2>4. /\ RepliesOf(v.told) = (RepliesOf(s.told)
                  \cup {[id |-> s.cmdId, status |-> s.status]})
                      \cup RepliesOf(s.oStatus)
          /\ v.oStatus = <<>> /\ v.tree = s.tree
          /\ v.saved \in {s.saved, s.tree} /\ v.cmdId = s.cmdId
      BY <2>3, FinishFields
    <2> HIDE DEF v
    <2>5. RepliesOf(v.oStatus) = {}
      BY <2>4 DEF RepliesOf
    <2>6. Fair => Clean(v, E, n, n)
      BY <1>a, <1>b, <2>1, <2>4, <2>5, CleanFinish
    <2> QED
      BY <1>b, <1>i, <2>1, <2>6
  <1>12. ASSUME NEW sent \in 0..results, NEW chunk \in BOOLEAN,
                EndMessage(sent, chunk)
         PROVE  CleanInv'
    BY <1>12 DEF CleanInv, EndMessage, history
  <1>13. CASE EndSession
    <2>1. /\ over = "none" /\ over' = "success" /\ s' = Save(s)
          /\ UNCHANGED <<n, edits, odd>>
      BY <1>13 DEF EndSession, history
    <2>2. s'.told = s.told /\ s'.tree = s.tree /\ s'.saved = s.tree
      BY <1>a, <2>1 DEF Save, UserData
    <2>3. Fair => ToldClean(s', edits, n)
      BY <1>b, <2>1, <2>2 DEF Clean, ToldClean
    <2> QED
      BY <1>a, <2>1, <2>3 DEF CleanInv
  <1>14. CASE ParseFails
    <2>1. /\ over = "none" /\ over' = "fail"
          /\ UNCHANGED <<n, edits, odd>>
      BY <1>14 DEF ParseFails, history
    <2>2. s'.told = s.told /\ s'.tree = s.saved /\ s'.saved = s.saved
      BY <1>14, <1>a DEF ParseFails, UserData
    <2>3. Fair => ToldClean(s', edits, n)
      BY <1>b, <2>1, <2>2 DEF Clean, ToldClean
    <2> QED
      BY <1>a, <2>1, <2>3 DEF CleanInv
  <1>15. CASE UNCHANGED vars
    BY <1>15 DEF CleanInv, vars, history
  <1> QED
    BY <1>1, <1>2, <1>3, <1>4, <1>5, <1>6, <1>7, <1>8, <1>9, <1>10, <1>11,
       <1>12, <1>13, <1>14, <1>15 DEF Next

----------------------------------------------------------------------------
\* The theorems.

\* The user data of the processor, the lock context's two trees and the
\* session keep their types in every handler, the number of results to send
\* included.
THEOREM CommandTypes == Spec => []TypeOK
<1> QED
  BY TypeInit, TypeStep, PTL DEF Spec

\* Once the user has cancelled an alert, no handler adds to the tree.
THEOREM CancelledForGood == Spec => CancelIsFinal
<1>1. TypeOK /\ CancelInv /\ [Next]_vars => CancelInv'
  BY CancelStep
<1>2. TypeOK /\ CancelInv /\ [Next]_vars
          => [cancelled => s'.tree \subseteq s.tree]_vars
  BY CancelStep
<1> QED
  BY <1>1, <1>2, CancelInit, CommandTypes, PTL DEF Spec, CancelIsFinal

\* What was answered with success is in the tree, and saved when the session
\* has ended.
THEOREM SuccessfulCommandsHold == Spec => []SuccessHolds
<1>1. TypeOK /\ SoundInv /\ CancelInv => SuccessHolds
  BY DEF SoundInv, Sound, ToldSound, CancelInv, SuccessHolds, Told, RepliesOf
<1>2. TypeOK /\ CancelInv /\ [Next]_vars => CancelInv'
  BY CancelStep
<1> QED
  BY <1>1, <1>2, CancelInit, SoundInit, SoundStep, CommandTypes, PTL DEF Spec

\* What was answered with a failure is neither in the tree nor saved.
THEOREM FailedCommandsLeaveNothing == Spec => []FailureLeavesNothing
<1>1. CleanInv => FailureLeavesNothing
  BY DEF CleanInv, ToldClean, FailureLeavesNothing, Told, RepliesOf
<1>2. TypeOK /\ CancelInv /\ [Next]_vars => CancelInv'
  BY CancelStep
<1> QED
  BY <1>1, <1>2, CancelInit, CleanInit, CleanStep, CommandTypes, PTL DEF Spec
=============================================================================
