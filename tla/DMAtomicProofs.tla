--------------------------- MODULE DMAtomicProofs ---------------------------
(***************************************************************************)
(* Proofs about the Atomics and the answers of DMCommands, for every       *)
(* number of commands, every depth of Atomics and Sequences and every set  *)
(* of URIs.                                                                *)
(*                                                                         *)
(* All is said of sessions in which odd is empty.  Nested: an open Atomic  *)
(* is one of the containers around the next command.  Whole: what its      *)
(* edits have done so far.  Once: where the one status of each command is. *)
(* Recorded and Done say what a handler makes of the user data; one lemma  *)
(* each leads from there to the invariant.                                 *)
(***************************************************************************)
EXTENDS DMCommandsProofs

Atomics(q) == {j \in DOMAIN q : q[j] = "Atomic"}

\* The containers that the processor knows of are those that the server has
\* opened, as long as its messages are authorized.
Nested ==
    /\ s.inAtomic => auth /\ s.bValueSet /\ Atomics(nest) # {} /\ over # "success"
    /\ ~s.inAtomic => s.oStatus = <<>> /\ ~s.rollback
    /\ auth => \A j, k \in Atomics(nest) : j = k
    /\ auth /\ ~s.inAtomic => Atomics(nest) = {}

\* All of an Atomic's edits, or none of them.
AllOrNothing ==
    \/ members \cap (s.tree \cup s.saved) = {}
    \/ members \ cut \subseteq s.saved /\ [id |-> s.cmdId, status |-> "ok"] \in Told

Whole ==
    /\ members \cup s.tree \cup s.saved \cup cut \subseteq 1..n
    /\ s.inAtomic => members \cap s.saved = {}
    /\ s.inAtomic /\ over = "none" =>
           IF s.rollback THEN members \cap s.tree = {}
           ELSE members \ cut \subseteq s.tree /\ s.status = "ok"
    /\ ~s.inAtomic => AllOrNothing

\* The commands that the statuses of q are for, each for another one.
IdsOf(q) == {q[j].id : j \in DOMAIN q}
Distinct(q) == \A j, k \in DOMAIN q : q[j].id = q[k].id => j = k

\* Each of the first m commands has been told of, or its status is kept, or it
\* is the open Atomic.
Once(t, m) ==
    /\ Distinct(t.told) /\ Distinct(t.oStatus)
    /\ IdsOf(t.told) \cap IdsOf(t.oStatus) = {}
    /\ t.inAtomic => t.cmdId \notin IdsOf(t.told) \cup IdsOf(t.oStatus)
    /\ 1..m = IdsOf(t.told) \cup IdsOf(t.oStatus)
                  \cup (IF t.inAtomic THEN {t.cmdId} ELSE {})

Sane == Nested /\ Whole /\ Once(s, n)
AtomicInv == odd = {} => Sane

----------------------------------------------------------------------------
(* The statuses.                                                           *)

\* q has the statuses of p, perhaps with other values.
SameIds(p, q) == DOMAIN q = DOMAIN p /\ \A j \in DOMAIN p : q[j].id = p[j].id

\* x is t with a status for the command i, told or kept.
Recorded(t, x, i) ==
    /\ x.inAtomic = t.inAtomic /\ x.cmdId = t.cmdId /\ x.bValueSet = t.bValueSet
    /\ \/ /\ \E st \in Statuses : x.told = Append(t.told, [id |-> i, status |-> st])
          /\ SameIds(t.oStatus, x.oStatus)
       \/ /\ t.inAtomic /\ x.told = t.told
          /\ \E st \in Statuses, q \in Seq(Answers) :
                 /\ SameIds(t.oStatus, q)
                 /\ x.oStatus = Append(q, [id |-> i, status |-> st])

LEMMA AppendAt ==
    ASSUME NEW q \in Seq(Replies), NEW e \in Replies
    PROVE  /\ DOMAIN Append(q, e) = DOMAIN q \cup {Len(q) + 1}
           /\ Len(q) + 1 \notin DOMAIN q
           /\ \A j \in DOMAIN q : Append(q, e)[j] = q[j]
           /\ Append(q, e)[Len(q) + 1] = e
OBVIOUS

LEMMA IdsAppend ==
    ASSUME NEW q \in Seq(Replies), NEW e \in Replies
    PROVE  IdsOf(Append(q, e)) = IdsOf(q) \cup {e.id}
BY AppendAt DEF IdsOf

LEMMA DistinctAppend ==
    ASSUME NEW q \in Seq(Replies), NEW e \in Replies,
           Distinct(q), e.id \notin IdsOf(q)
    PROVE  Distinct(Append(q, e))
<1>1. \A j \in DOMAIN q : q[j].id # e.id
  BY DEF IdsOf
<1> QED
  BY <1>1, AppendAt DEF Distinct

LEMMA ConcatAt ==
    ASSUME NEW p \in Seq(Replies), NEW q \in Seq(Replies)
    PROVE  /\ \A j \in DOMAIN p : j \in DOMAIN (p \o q) /\ (p \o q)[j] = p[j]
           /\ \A k \in DOMAIN q : /\ Len(p) + k \in DOMAIN (p \o q)
                                  /\ (p \o q)[Len(p) + k] = q[k]
           /\ \A j \in DOMAIN (p \o q) :
                  j \in DOMAIN p \/ \E k \in DOMAIN q : j = Len(p) + k
<1> DEFINE x == p \o q
<1>1. /\ Len(p) \in Nat /\ Len(q) \in Nat
      /\ DOMAIN p = 1..Len(p) /\ DOMAIN q = 1..Len(q)
      /\ DOMAIN x = 1..(Len(p) + Len(q))
      /\ \A j \in DOMAIN x : x[j] = IF j <= Len(p) THEN p[j] ELSE q[j - Len(p)]
  OBVIOUS
<1> HIDE DEF x
<1>2. ASSUME NEW j \in DOMAIN x, j > Len(p)
      PROVE  \E k \in DOMAIN q : j = Len(p) + k
  <2>1. j - Len(p) \in 1..Len(q) /\ j = Len(p) + (j - Len(p))
    BY <1>1, <1>2
  <2> QED
    BY <1>1, <2>1
<1>3. ASSUME NEW k \in DOMAIN q
      PROVE  Len(p) + k \in DOMAIN x /\ x[Len(p) + k] = q[k]
  <2>1. /\ Len(p) + k \in 1..(Len(p) + Len(q)) /\ ~(Len(p) + k <= Len(p))
        /\ (Len(p) + k) - Len(p) = k
    BY <1>1
  <2> QED
    BY <1>1, <2>1
<1>4. \A j \in DOMAIN p : j \in DOMAIN x /\ x[j] = p[j]
  BY <1>1
<1>5. \A j \in DOMAIN x : j > Len(p) \/ j \in DOMAIN p
  BY <1>1
<1>6. \A j \in DOMAIN x : j \in DOMAIN p \/ \E k \in DOMAIN q : j = Len(p) + k
  BY <1>2, <1>5
<1> QED
  BY <1>3, <1>4, <1>6 DEF x

LEMMA IdsConcat ==
    ASSUME NEW p \in Seq(Replies), NEW q \in Seq(Replies)
    PROVE  IdsOf(p \o q) = IdsOf(p) \cup IdsOf(q)
<1> DEFINE x == p \o q
<1>1. /\ \A j \in DOMAIN p : j \in DOMAIN x /\ x[j] = p[j]
      /\ \A k \in DOMAIN q : Len(p) + k \in DOMAIN x /\ x[Len(p) + k] = q[k]
      /\ \A j \in DOMAIN x : j \in DOMAIN p \/ \E k \in DOMAIN q : j = Len(p) + k
  BY ConcatAt
<1> HIDE DEF x
<1>2. IdsOf(p) \subseteq IdsOf(x)
  BY <1>1 DEF IdsOf
<1>3. ASSUME NEW k \in DOMAIN q
      PROVE  q[k].id \in IdsOf(x)
  BY <1>1 DEF IdsOf
<1>4. IdsOf(q) \subseteq IdsOf(x)
  BY <1>3 DEF IdsOf
<1>5. IdsOf(x) \subseteq IdsOf(p) \cup IdsOf(q)
  BY <1>1 DEF IdsOf
<1> QED
  BY <1>2, <1>4, <1>5 DEF x

LEMMA DistinctConcat ==
    ASSUME NEW p \in Seq(Replies), NEW q \in Seq(Replies),
           Distinct(p), Distinct(q), IdsOf(p) \cap IdsOf(q) = {}
    PROVE  Distinct(p \o q)
<1> DEFINE x == p \o q
<1>1. /\ \A j \in DOMAIN p : j \in DOMAIN x /\ x[j] = p[j]
      /\ \A k \in DOMAIN q : Len(p) + k \in DOMAIN x /\ x[Len(p) + k] = q[k]
      /\ \A j \in DOMAIN x : j \in DOMAIN p \/ \E k \in DOMAIN q : j = Len(p) + k
  BY ConcatAt
<1>2. \A i \in DOMAIN p, l \in DOMAIN q : p[i].id # q[l].id
  BY DEF IdsOf
<1> HIDE DEF x
<1>3. ASSUME NEW j \in DOMAIN x, NEW k \in DOMAIN x, x[j].id = x[k].id
      PROVE  j = k
  <2>1. CASE j \in DOMAIN p /\ k \in DOMAIN p
    BY <1>1, <1>3, <2>1 DEF Distinct
  <2>2. CASE j \notin DOMAIN p /\ k \notin DOMAIN p
    <3>1. /\ \E i \in DOMAIN q : j = Len(p) + i
          /\ \E l \in DOMAIN q : k = Len(p) + l
      BY <1>1, <2>2
    <3>2. PICK i \in DOMAIN q, l \in DOMAIN q : j = Len(p) + i /\ k = Len(p) + l
      BY <3>1
    <3>3. q[i].id = q[l].id
      BY <1>1, <1>3, <3>2
    <3> QED
      BY <3>2, <3>3 DEF Distinct
  <2>3. CASE j \in DOMAIN p /\ k \notin DOMAIN p
    BY <1>1, <1>2, <1>3, <2>3
  <2>4. CASE j \notin DOMAIN p /\ k \in DOMAIN p
    BY <1>1, <1>2, <1>3, <2>4
  <2> QED
    BY <2>1, <2>2, <2>3, <2>4
<1> QED
  BY <1>3 DEF x, Distinct

LEMMA SameIdsSame ==
    ASSUME NEW p, NEW q, SameIds(p, q)
    PROVE  IdsOf(q) = IdsOf(p) /\ (Distinct(p) => Distinct(q))
BY DEF SameIds, IdsOf, Distinct

LEMMA OnceRecorded ==
    ASSUME NEW t \in UserData, NEW x, NEW m \in Nat, m + 1 \in Ids,
           Once(t, m), Recorded(t, x, m + 1)
    PROVE  Once(x, m + 1)
<1>1. /\ t.told \in Seq(Replies) /\ Answers \subseteq Replies
      /\ x.inAtomic = t.inAtomic /\ x.cmdId = t.cmdId
  BY DEF UserData, Recorded, Answers, Replies
<1>2. 1..(m + 1) = 1..m \cup {m + 1} /\ m + 1 \notin 1..m
  OBVIOUS
<1>3. /\ m + 1 \notin IdsOf(t.told) \cup IdsOf(t.oStatus)
      /\ t.inAtomic => m + 1 # t.cmdId
  BY <1>2 DEF Once
<1>4. CASE /\ \E st \in Statuses : x.told = Append(t.told, [id |-> m + 1, status |-> st])
           /\ SameIds(t.oStatus, x.oStatus)
  <2>1. PICK st \in Statuses : x.told = Append(t.told, [id |-> m + 1, status |-> st])
    BY <1>4
  <2> DEFINE e == [id |-> m + 1, status |-> st]
  <2>2. e \in Replies /\ e.id = m + 1 /\ x.told = Append(t.told, e)
    BY <2>1 DEF Replies
  <2> HIDE DEF e
  <2>3. IdsOf(Append(t.told, e)) = IdsOf(t.told) \cup {m + 1}
    BY <1>1, <2>2, IdsAppend
  <2>4. Distinct(Append(t.told, e))
    BY <1>1, <1>3, <2>2, DistinctAppend DEF Once
  <2>5. IdsOf(x.told) = IdsOf(t.told) \cup {m + 1} /\ Distinct(x.told)
    BY <2>2, <2>3, <2>4, Zenon
  <2>6. IdsOf(x.oStatus) = IdsOf(t.oStatus) /\ Distinct(x.oStatus)
    BY <1>4, SameIdsSame DEF Once
  <2> QED
    BY <1>1, <1>2, <1>3, <2>5, <2>6 DEF Once
<1>5. CASE /\ x.told = t.told
           /\ \E st \in Statuses, q \in Seq(Answers) :
                  /\ SameIds(t.oStatus, q)
                  /\ x.oStatus = Append(q, [id |-> m + 1, status |-> st])
  <2>1. PICK st \in Statuses, q \in Seq(Answers) :
            /\ SameIds(t.oStatus, q)
            /\ x.oStatus = Append(q, [id |-> m + 1, status |-> st])
    BY <1>5
  <2> DEFINE e == [id |-> m + 1, status |-> st]
  <2>2. e \in Replies /\ e.id = m + 1 /\ x.oStatus = Append(q, e)
    BY <2>1 DEF Replies
  <2>3. q \in Seq(Replies)
    BY <1>1
  <2> HIDE DEF e
  <2>4. IdsOf(q) = IdsOf(t.oStatus) /\ Distinct(q)
    BY <2>1, SameIdsSame DEF Once
  <2>5. IdsOf(Append(q, e)) = IdsOf(t.oStatus) \cup {m + 1}
    BY <2>2, <2>3, <2>4, IdsAppend
  <2>6. Distinct(Append(q, e))
    BY <1>3, <2>2, <2>3, <2>4, DistinctAppend
  <2>7. IdsOf(x.oStatus) = IdsOf(t.oStatus) \cup {m + 1} /\ Distinct(x.oStatus)
    BY <2>2, <2>5, <2>6, Zenon
  <2> QED
    BY <1>1, <1>2, <1>3, <1>5, <2>7 DEF Once
<1> QED
  BY <1>4, <1>5 DEF Recorded

\* FinishAtomic tells the Atomic's own status, then those that were kept.
LEMMA OnceFinished ==
    ASSUME NEW t \in UserData, NEW m \in Nat, t.inAtomic, Once(t, m),
           NEW x, x.inAtomic = FALSE, x.oStatus = <<>>,
           x.told = (t.told \o <<[id |-> t.cmdId, status |-> t.status]>>)
                        \o t.oStatus
    PROVE  Once(x, m)
<1> DEFINE c == [id |-> t.cmdId, status |-> t.status]
           p == t.told \o <<c>>
<1>1. /\ t.told \in Seq(Replies) /\ t.oStatus \in Seq(Replies) /\ c \in Replies
      /\ c.id = t.cmdId
  BY KeptAreReplies DEF UserData, Replies
<1>2. x.told = p \o t.oStatus
  OBVIOUS
<1> HIDE DEF c
<1>3. p \in Seq(Replies) /\ p = Append(t.told, c)
  BY <1>1
<1>4. IdsOf(Append(t.told, c)) = IdsOf(t.told) \cup {t.cmdId}
  BY <1>1, IdsAppend
<1>5. Distinct(Append(t.told, c))
  BY <1>1, DistinctAppend DEF Once
<1> HIDE DEF p
<1>6. IdsOf(p) = IdsOf(t.told) \cup {t.cmdId} /\ Distinct(p)
  BY <1>3, <1>4, <1>5, Zenon
<1>7. IdsOf(p) \cap IdsOf(t.oStatus) = {}
  BY <1>6 DEF Once
<1>8. IdsOf(p \o t.oStatus) = IdsOf(p) \cup IdsOf(t.oStatus)
  BY <1>1, <1>3, IdsConcat
<1>9. Distinct(p \o t.oStatus)
  BY <1>1, <1>3, <1>6, <1>7, DistinctConcat DEF Once
<1>10. IdsOf(x.told) = IdsOf(p) \cup IdsOf(t.oStatus) /\ Distinct(x.told)
  BY <1>2, <1>8, <1>9, Zenon
<1>11. IdsOf(x.oStatus) = {} /\ Distinct(x.oStatus)
  BY DEF IdsOf, Distinct
<1> QED
  BY <1>6, <1>10, <1>11 DEF Once

----------------------------------------------------------------------------
(* What a handler makes of the user data.                                  *)

Alike(t, u) ==
    /\ u.told = t.told /\ SameIds(t.oStatus, u.oStatus)
    /\ u.inAtomic = t.inAtomic /\ u.cmdId = t.cmdId /\ u.bValueSet = t.bValueSet

LEMMA AlikeRollback ==
    ASSUME NEW t, NEW u \in UserData, Alike(t, u)
    PROVE  Alike(t, AtomicRollback(u))
<1> DEFINE q == [j \in DOMAIN u.oStatus |->
                    [id |-> u.oStatus[j].id, status |-> "rolled_back"]]
<1>1. SameIds(t.oStatus, q)
  BY DEF Alike, SameIds
<1> HIDE DEF q
<1>2. CASE u.rollback
  BY <1>2 DEF AtomicRollback
<1>3. CASE ~u.rollback
  <2>1. AtomicRollback(u) = [u EXCEPT !.tree = u.saved, !.rollback = TRUE,
                                      !.status = "failed", !.oStatus = q]
    BY <1>3 DEF AtomicRollback, q
  <2> QED
    BY <1>1, <2>1 DEF Alike, UserData
<1> QED
  BY <1>2, <1>3

LEMMA AlikeSequence ==
    ASSUME NEW t, NEW u \in UserData, Alike(t, u), NEW st
    PROVE  Alike(t, SequenceStatus(u, st))
BY DEF Alike, SequenceStatus, UserData

LEMMA RecordedAnswer ==
    ASSUME NEW t, NEW u \in UserData, Alike(t, u), NEW i \in Ids,
           NEW st \in Statuses
    PROVE  Recorded(t, Answer(u, i, st), i)
<1> DEFINE x == Answer(u, i, st)
<1>1. /\ x.told = Append(u.told, [id |-> i, status |-> st])
      /\ x.oStatus = u.oStatus /\ x.inAtomic = u.inAtomic /\ x.cmdId = u.cmdId
      /\ x.bValueSet = u.bValueSet
  BY DEF Answer, UserData
<1> HIDE DEF x
<1>2. x.told = Append(t.told, [id |-> i, status |-> st])
  BY <1>1, Zenon DEF Alike
<1>3. /\ SameIds(t.oStatus, x.oStatus) /\ x.inAtomic = t.inAtomic
      /\ x.cmdId = t.cmdId /\ x.bValueSet = t.bValueSet
  BY <1>1, Zenon DEF Alike
<1> QED
  BY <1>2, <1>3, Zenon DEF Recorded, x

LEMMA RecordedKeep ==
    ASSUME NEW t, NEW u \in UserData, Alike(t, u), NEW i \in Ids,
           NEW st \in Statuses, t.inAtomic
    PROVE  Recorded(t, Keep(u, i, st), i)
<1> DEFINE x == Keep(u, i, st)
           q == u.oStatus
<1>1. /\ x.oStatus = Append(q, [id |-> i, status |-> st])
      /\ x.told = u.told /\ x.inAtomic = u.inAtomic /\ x.cmdId = u.cmdId
      /\ x.bValueSet = u.bValueSet /\ q \in Seq(Answers)
  BY DEF Keep, UserData
<1> HIDE DEF x
<1>2. /\ SameIds(t.oStatus, q) /\ x.inAtomic = t.inAtomic
      /\ x.cmdId = t.cmdId /\ x.bValueSet = t.bValueSet /\ x.told = t.told
  BY <1>1, Zenon DEF Alike
<1> HIDE DEF q
<1> QED
  BY <1>1, <1>2, Zenon DEF Recorded, x

\* What the command id has done to the tree: in an Atomic it is rolled back,
\* or what the Atomic has done so far stays and an edit has its effect.
Shaped(t) ==
    IF s.inAtomic
    THEN /\ t.saved = s.saved
         /\ \/ /\ t.rollback
               /\ t.tree \subseteq IF s.rollback THEN s.tree ELSE s.saved
            \/ /\ ~t.rollback /\ ~s.rollback /\ t.status = s.status
               /\ s.tree \subseteq t.tree /\ t.tree \subseteq s.tree \cup {id}
               /\ id \in members' \ cut' => id \in t.tree
    ELSE /\ t.rollback = s.rollback
         /\ t.tree \subseteq s.tree \cup {id}
         /\ s.saved \subseteq t.saved /\ t.saved \subseteq s.tree \cup {id}

Handled(x) == x \in UserData /\ Recorded(s, x, id) /\ Shaped(x)

LEMMA HandledAnswer ==
    ASSUME NEW t \in UserData, Alike(s, t), Shaped(t), id \in Ids,
           NEW st \in Statuses
    PROVE  Handled(Answer(t, id, st))
<1> DEFINE x == Answer(t, id, st)
<1>1. /\ x.tree = t.tree /\ x.saved = t.saved /\ x.rollback = t.rollback
      /\ x.status = t.status
  BY DEF Answer, UserData
<1>2. x \in UserData /\ Recorded(s, x, id)
  BY AnswerType, RecordedAnswer
<1> HIDE DEF x
<1>3. Shaped(x)
  BY <1>1 DEF Shaped
<1> QED
  BY <1>2, <1>3 DEF Handled, x

LEMMA HandledKeep ==
    ASSUME NEW t \in UserData, Alike(s, t), Shaped(t), id \in Ids,
           NEW st \in Statuses, s.inAtomic
    PROVE  Handled(Keep(t, id, st))
<1> DEFINE x == Keep(t, id, st)
<1>1. /\ x.tree = t.tree /\ x.saved = t.saved /\ x.rollback = t.rollback
      /\ x.status = t.status
  BY DEF Keep, UserData
<1>2. x \in UserData /\ Recorded(s, x, id)
  BY KeepType, RecordedKeep
<1> HIDE DEF x
<1>3. Shaped(x)
  BY <1>1 DEF Shaped
<1> QED
  BY <1>2, <1>3 DEF Handled, x

\* t is s but for the effect of the command on the tree.
Effect(t) ==
    /\ t \in UserData /\ Alike(s, t)
    /\ t.saved = s.saved /\ t.rollback = s.rollback /\ t.status = s.status
    /\ s.tree \subseteq t.tree /\ t.tree \subseteq s.tree \cup {id}
    /\ s.rollback => t.tree = s.tree

LEMMA EffectNone ==
    ASSUME s \in UserData
    PROVE  Effect(s)
BY DEF Effect, Alike, SameIds

LEMMA EffectSequence ==
    ASSUME NEW t, Effect(t), NEW st
    PROVE  Effect(SequenceStatus(t, st))
<1> DEFINE u == SequenceStatus(t, st)
<1>1. /\ u \in UserData /\ Alike(s, u) /\ u.saved = t.saved
      /\ u.rollback = t.rollback /\ u.status = t.status /\ u.tree = t.tree
  BY SequenceStatusType, SequenceFields, AlikeSequence DEF Effect
<1> HIDE DEF u
<1> QED
  BY <1>1 DEF Effect, u

\* An effect that an Atomic does not lack.
LEMMA ShapedEffect ==
    ASSUME NEW t, Effect(t), s.saved \subseteq s.tree,
           s.inAtomic /\ ~s.rollback => (id \in members' \ cut' => id \in t.tree)
    PROVE  Shaped(t)
BY DEF Effect, Shaped

LEMMA ShapedRollback ==
    ASSUME NEW t, Effect(t), s.inAtomic
    PROVE  /\ AtomicRollback(t) \in UserData /\ Alike(s, AtomicRollback(t))
           /\ Shaped(AtomicRollback(t))
<1> DEFINE u == AtomicRollback(t)
<1>1. u \in UserData /\ Alike(s, u)
  BY RollbackType, AlikeRollback DEF Effect
<1>2. CASE t.rollback
  <2>1. u = t
    BY <1>2 DEF AtomicRollback
  <2> QED
    BY <1>1, <1>2, <2>1 DEF Shaped, Effect
<1>3. CASE ~t.rollback
  <2>1. u.tree = t.saved /\ u.saved = t.saved /\ u.rollback
    BY <1>3, RollbackFields DEF Effect
  <2> HIDE DEF u
  <2>2. Shaped(u)
    BY <1>3, <2>1 DEF Shaped, Effect
  <2> QED
    BY <1>1, <2>2 DEF u
<1> QED
  BY <1>2, <1>3

LEMMA HandledProcess ==
    ASSUME NEW t, Effect(t), s.saved \subseteq s.tree, id \in Ids,
           NEW st \in Statuses,
           st = "ok" /\ s.inAtomic /\ ~s.rollback =>
               (id \in members' \ cut' => id \in t.tree)
    PROVE  Handled(ProcessStatus(t, id, st))
<1>1. t \in UserData /\ Alike(s, t) /\ t.inAtomic = s.inAtomic
  BY DEF Effect, Alike
<1>2. CASE ~s.inAtomic
  BY <1>1, <1>2, ShapedEffect, HandledAnswer DEF ProcessStatus
<1>3. CASE s.inAtomic /\ st = "ok"
  BY <1>1, <1>3, ShapedEffect, HandledKeep DEF ProcessStatus
<1>4. CASE s.inAtomic /\ st # "ok"
  BY <1>1, <1>4, ShapedRollback, HandledKeep DEF ProcessStatus
<1> QED
  BY <1>2, <1>3, <1>4

----------------------------------------------------------------------------
(* The step of a command.                                                  *)

Good == TypeOK /\ CancelInv /\ odd = {} /\ Sane

LEMMA GoodFacts ==
    ASSUME Good
    PROVE  /\ s \in UserData /\ n \in Nat /\ s.saved \subseteq s.tree
           /\ nest \in Seq({"Atomic", "Sequence"}) /\ n <= MaxCommands
           /\ Effect(s) /\ s.inAtomic \in BOOLEAN /\ s.rollback \in BOOLEAN
           /\ id = n + 1 /\ 1..(n + 1) = 1..n \cup {n + 1} /\ id \notin 1..n
           /\ (n < MaxCommands => id \in Ids)
           /\ id \notin members \cup s.tree \cup s.saved \cup cut
<1>1. /\ s \in UserData /\ n \in Nat /\ nest \in Seq({"Atomic", "Sequence"})
      /\ s.saved \subseteq s.tree /\ n <= MaxCommands
  BY BoundAssumption DEF Good, TypeOK, CancelInv
<1>2. Effect(s) /\ s.inAtomic \in BOOLEAN /\ s.rollback \in BOOLEAN
  BY <1>1, EffectNone DEF UserData
<1>3. id = n + 1 /\ 1..(n + 1) = 1..n \cup {n + 1} /\ id \notin 1..n
      /\ (n < MaxCommands => id \in Ids)
  BY <1>1, BoundAssumption DEF id, Ids
<1> QED
  BY <1>1, <1>2, <1>3 DEF Good, Sane, Whole

\* The server opens nothing, a Sequence, or an Atomic that is refused.
Around ==
    /\ auth' = auth /\ over = "none" /\ over' = over
    /\ \/ nest' = nest
       \/ nest' = Append(nest, "Sequence")
       \/ nest' = Append(nest, "Atomic") /\ ~auth

LEMMA AtomicsAppend ==
    ASSUME NEW q \in Seq({"Atomic", "Sequence"}),
           NEW kind \in {"Atomic", "Sequence"}
    PROVE  Atomics(Append(q, kind)) =
               Atomics(q) \cup (IF kind = "Atomic" THEN {Len(q) + 1} ELSE {})
<1> DEFINE x == Append(q, kind)
<1>1. /\ DOMAIN x = DOMAIN q \cup {Len(q) + 1} /\ Len(q) + 1 \notin DOMAIN q
      /\ \A j \in DOMAIN q : x[j] = q[j]
      /\ x[Len(q) + 1] = kind
  OBVIOUS
<1> HIDE DEF x
<1> QED
  BY <1>1 DEF Atomics, x

LEMMA EmptyDomain ==
    ASSUME NEW q \in Seq(Answers), DOMAIN q = {}
    PROVE  q = <<>>
<1>1. Len(q) \in Nat /\ DOMAIN q = 1..Len(q)
  OBVIOUS
<1>2. Len(q) = 0
  <2>1. CASE Len(q) > 0
    <3>1. 1 \in DOMAIN q
      BY <1>1, <2>1
    <3> QED
      BY <3>1
  <2> QED
    BY <1>1, <2>1
<1> QED
  BY <1>2

LEMMA NestedStep ==
    ASSUME Good, Around, s' \in UserData, Recorded(s, s', id),
           ~s.inAtomic => s'.rollback = s.rollback
    PROVE  Nested'
<1>1. /\ s'.inAtomic = s.inAtomic /\ s'.bValueSet = s.bValueSet
      /\ ~s.inAtomic => SameIds(s.oStatus, s'.oStatus)
  BY DEF Recorded
<1>2. auth => Atomics(nest') = Atomics(nest)
  <2>1. CASE auth /\ nest' = Append(nest, "Sequence")
    <3>1. Atomics(Append(nest, "Sequence")) = Atomics(nest)
      BY GoodFacts, AtomicsAppend
    <3> QED
      BY <2>1, <3>1, Zenon
  <2> QED
    BY <2>1 DEF Around
<1>3. ASSUME ~s.inAtomic
      PROVE  s'.oStatus = <<>>
  <2>1. s.oStatus = <<>>
    BY <1>3 DEF Good, Sane, Nested
  <2>2. DOMAIN s'.oStatus = {}
    BY <1>1, <1>3, <2>1 DEF SameIds
  <2> QED
    BY <2>2, EmptyDomain DEF UserData
<1> QED
  BY <1>1, <1>2, <1>3 DEF Good, Sane, Nested, Around

LEMMA ToldGrows ==
    ASSUME NEW t \in UserData, NEW x, NEW i \in Ids, Recorded(t, x, i)
    PROVE  RepliesOf(t.told) \subseteq RepliesOf(x.told)
<1>1. t.told \in Seq(Replies)
  BY DEF UserData
<1>2. ASSUME NEW st \in Statuses,
             x.told = Append(t.told, [id |-> i, status |-> st])
      PROVE  RepliesOf(t.told) \subseteq RepliesOf(x.told)
  <2> DEFINE e == [id |-> i, status |-> st]
  <2>1. e \in Replies /\ x.told = Append(t.told, e)
    BY <1>2 DEF Replies
  <2> HIDE DEF e
  <2>2. RepliesOf(Append(t.told, e)) = RepliesOf(t.told) \cup {e}
    BY <1>1, <2>1, AppendReplies
  <2> QED
    BY <2>1, <2>2, Zenon
<1> QED
  BY <1>2 DEF Recorded

LEMMA WholeStep ==
    ASSUME Good, Around, n < MaxCommands, n' = n + 1, Handled(s'),
           members' \in {members, members \cup {id}},
           ~s.inAtomic => members' = members,
           cut' \in {cut, cut \cup {id}}
    PROVE  Whole'
<1>1. /\ s'.inAtomic = s.inAtomic /\ s'.cmdId = s.cmdId /\ Shaped(s')
      /\ s'.rollback \in BOOLEAN
  BY DEF Handled, Recorded, UserData
<1>2. /\ members \cup s.tree \cup s.saved \cup cut \subseteq 1..n
      /\ 1..(n + 1) = 1..n \cup {id} /\ s.saved \subseteq s.tree
      /\ id \notin members \cup s.tree \cup s.saved \cup cut
  BY GoodFacts DEF Good, Sane, Whole
<1>3. (members' \cup s'.tree \cup s'.saved \cup cut') \subseteq 1..n'
  BY <1>1, <1>2 DEF Shaped
<1>4. s'.inAtomic => members' \cap s'.saved = {}
  BY <1>1, <1>2 DEF Shaped, Good, Sane, Whole
<1>5. ASSUME s'.inAtomic
      PROVE  IF s'.rollback THEN members' \cap s'.tree = {}
             ELSE members' \ cut' \subseteq s'.tree /\ s'.status = "ok"
  <2>1. CASE /\ s'.rollback
             /\ s'.tree \subseteq IF s.rollback THEN s.tree ELSE s.saved
    BY <1>1, <1>2, <1>5, <2>1 DEF Good, Sane, Whole, Around
  <2>2. CASE /\ ~s'.rollback /\ ~s.rollback /\ s'.status = s.status
             /\ s.tree \subseteq s'.tree
             /\ id \in members' \ cut' => id \in s'.tree
    BY <1>1, <1>2, <1>5, <2>2 DEF Good, Sane, Whole, Around
  <2> QED
    BY <1>1, <1>5, <2>1, <2>2 DEF Shaped
<1>6. ASSUME ~s'.inAtomic
      PROVE  AllOrNothing'
  <2>1. /\ s'.tree \subseteq s.tree \cup {id} /\ s.saved \subseteq s'.saved
        /\ s'.saved \subseteq s.tree \cup {id} /\ members' = members
    BY <1>1, <1>6 DEF Shaped
  <2>2. Told \subseteq Told'
    BY GoodFacts, ToldGrows DEF Handled, Told, RepliesOf
  <2>3. CASE members \cap (s.tree \cup s.saved) = {}
    BY <1>2, <2>1, <2>3 DEF AllOrNothing
  <2>4. CASE /\ members \ cut \subseteq s.saved
             /\ [id |-> s.cmdId, status |-> "ok"] \in Told
    BY <1>1, <2>1, <2>2, <2>4 DEF AllOrNothing
  <2> QED
    BY <1>1, <1>6, <2>3, <2>4 DEF Good, Sane, Whole, AllOrNothing
<1> QED
  BY <1>3, <1>4, <1>5, <1>6 DEF Whole

LEMMA HandledStep ==
    ASSUME Good, Around, n < MaxCommands, n' = n + 1, Handled(s'),
           members' \in {members, members \cup {id}},
           ~s.inAtomic => members' = members,
           cut' \in {cut, cut \cup {id}}
    PROVE  Sane'
<1>1. s' \in UserData /\ Recorded(s, s', id) /\ Shaped(s')
  BY DEF Handled
<1>2. Nested'
  BY <1>1, NestedStep DEF Shaped
<1>3. Whole'
  BY WholeStep
<1>4. Once(s', n + 1)
  BY <1>1, GoodFacts, OnceRecorded DEF Good, Sane
<1> QED
  BY <1>2, <1>3, <1>4 DEF Sane

\* An edit outside an Atomic, or in one, is among its members or not.
LEMMA Edited ==
    ASSUME IsEdit, s \in UserData
    PROVE  /\ members' \in {members, members \cup {id}}
           /\ ~s.inAtomic => members' = members
BY DEF IsEdit, UserData

\* In an Atomic the server is authorized, and a rolled back one goes on
\* without its commands.
LEMMA OpenAtomic ==
    ASSUME Good
    PROVE  /\ s.inAtomic => auth
           /\ s.inAtomic /\ ~IsCommandSkipped => ~s.rollback
           /\ ~s.inAtomic => ~s.rollback
BY DEF Good, Sane, Nested, IsCommandSkipped

LEMMA EditKept ==
    ASSUME Good, odd' = {},
           NEW cmd \in {"Add", "Replace"}, NEW uri \in URIs,
           NEW part \in {"whole", "first", "next", "last"},
           NEW outcome \in {"ok", "fails", "refused"},
           Edit(cmd, uri, part, outcome)
    PROVE  Sane'
<1> DEFINE here == [cmd |-> cmd, uri |-> uri]
           r == Receive(here, part, outcome = "ok")
           t == [s EXCEPT !.tree = @ \cup r.add]
<1>1. /\ over = "none" /\ n < MaxCommands /\ n' = n + 1 /\ IsEdit
      /\ UNCHANGED <<auth, nest, over, cut>>
  BY DEF Edit, Command
<1>2. Around
  BY <1>1 DEF Around
<1>3. /\ id \in Ids /\ s.saved \subseteq s.tree /\ Effect(s)
      /\ s \in UserData
  BY <1>1, GoodFacts
<1>4. {"ok", "chunk", "failed", "not_executed"} \subseteq Statuses
  BY DEF Statuses
<1>5. Handled(s')
  <2>1. CASE s' = ProcessStatus(s, id, "failed")
    BY <1>3, <1>4, <2>1, HandledProcess
  <2>2. CASE s' = ProcessStatus(s, id, "not_executed")
    BY <1>3, <1>4, <2>2, HandledProcess
  <2>3. CASE ~auth /\ s' = Answer(s, id, "failed")
    <3>1. Shaped(s) /\ Alike(s, s)
      BY <1>3, <2>3, OpenAtomic, ShapedEffect DEF Effect
    <3> QED
      BY <1>3, <1>4, <2>3, <3>1, HandledAnswer
  <2>4. CASE /\ ~IsCommandSkipped
             /\ s' = ProcessStatus(SequenceStatus(t, r.status), id, r.status)
    <3>1. /\ r.status \in Statuses /\ r.add \in {{}, {id}}
          /\ r.status = "ok" => r.add = {id}
      BY <1>4 DEF Receive, RecvFirstChunk, RecvNextChunk, Buffered, Applied, Failed
    <3> HIDE DEF r
    <3>2. Effect(t) /\ (r.status = "ok" => id \in t.tree)
      <4>1. /\ t.told = s.told /\ t.oStatus = s.oStatus /\ t.inAtomic = s.inAtomic
            /\ t.cmdId = s.cmdId /\ t.bValueSet = s.bValueSet
            /\ t.saved = s.saved /\ t.rollback = s.rollback
            /\ t.status = s.status /\ t.tree = s.tree \cup r.add
        BY <1>3 DEF UserData
      <4>2. t \in UserData
        BY <1>3, <3>1 DEF UserData
      <4>3. ~s.rollback
        BY <2>4, OpenAtomic
      <4> HIDE DEF t
      <4> QED
        BY <3>1, <4>1, <4>2, <4>3 DEF Effect, Alike, SameIds
    <3> HIDE DEF t
    <3> DEFINE u == SequenceStatus(t, r.status)
    <3>3. Effect(u) /\ u.tree = t.tree
      BY <3>2, EffectSequence, SequenceFields DEF Effect
    <3> HIDE DEF u
    <3> QED
      BY <1>3, <2>4, <3>1, <3>2, <3>3, HandledProcess DEF u
  <2> QED
    BY <2>1, <2>2, <2>3, <2>4 DEF Edit
<1> QED
  BY <1>1, <1>2, <1>3, <1>5, Edited, HandledStep

LEMMA TndsKept ==
    ASSUME Good, odd' = {},
           NEW cmd \in {"Add", "Replace"},
           NEW outcome \in {"ok", "fails", "unsupported", "refused"},
           Tnds(cmd, outcome)
    PROVE  Sane'
<1> DEFINE t == [Save(s) EXCEPT !.tree = @ \cup {id}]
           u == SequenceStatus(t, "ok")
<1>1. /\ over = "none" /\ n < MaxCommands /\ n' = n + 1 /\ IsEdit
      /\ UNCHANGED <<auth, nest, over, cut>>
  BY DEF Tnds, Command
<1>2. Around
  BY <1>1 DEF Around
<1>3. /\ id \in Ids /\ s.saved \subseteq s.tree /\ Effect(s) /\ s \in UserData
  BY <1>1, GoodFacts
<1>4. {"ok", "failed", "not_executed"} \subseteq Statuses
  BY DEF Statuses
<1>5. Handled(s')
  <2>1. CASE s' = ProcessStatus(s, id, "failed")
    BY <1>3, <1>4, <2>1, HandledProcess
  <2>2. CASE s' = ProcessStatus(s, id, "not_executed")
    BY <1>3, <1>4, <2>2, HandledProcess
  <2>3. CASE ~auth /\ s' = Answer(s, id, "failed")
    <3>1. Shaped(s) /\ Alike(s, s)
      BY <1>3, <2>3, OpenAtomic, ShapedEffect DEF Effect
    <3> QED
      BY <1>3, <1>4, <2>3, <3>1, HandledAnswer
  <2>4. CASE ~s.inAtomic /\ s' = ProcessStatus(u, id, "ok")
    <3>1. /\ t.told = s.told /\ t.oStatus = s.oStatus /\ t.inAtomic = s.inAtomic
          /\ t.cmdId = s.cmdId /\ t.bValueSet = s.bValueSet
          /\ t.saved = s.tree /\ t.rollback = s.rollback
          /\ t.status = s.status /\ t.tree = s.tree \cup {id}
      BY <1>3 DEF Save, UserData
    <3>2. t \in UserData
      BY <1>3 DEF Save, UserData
    <3> HIDE DEF t
    <3>3. /\ u \in UserData /\ u.tree = t.tree /\ u.saved = t.saved
          /\ u.rollback = t.rollback /\ u.inAtomic = t.inAtomic
      BY <3>2, SequenceStatusType, SequenceFields
    <3>4. Alike(s, t)
      BY <3>1 DEF Alike, SameIds
    <3>5. Alike(s, u)
      BY <3>2, <3>4, AlikeSequence
    <3> HIDE DEF u
    <3>6. Shaped(u)
      BY <1>3, <2>4, <3>1, <3>3 DEF Shaped
    <3>7. s' = Answer(u, id, "ok")
      BY <2>4, <3>1, <3>3 DEF ProcessStatus
    <3> QED
      BY <1>3, <1>4, <3>3, <3>5, <3>6, <3>7, HandledAnswer
  <2> HIDE DEF u, t
  <2>5. ~Interrupts(cmd) /\ auth /\ ~IsCommandSkipped => ~s.inAtomic /\ outcome = "ok"
    BY DEF Tnds
  <2>6. ~Interrupts(cmd) /\ auth /\ ~IsCommandSkipped => s' = ProcessStatus(u, id, "ok")
    BY <2>5 DEF Tnds, u, t
  <2> QED
    BY <2>1, <2>2, <2>3, <2>4, <2>5, <2>6 DEF Tnds
<1> QED
  BY <1>1, <1>2, <1>3, <1>5, Edited, HandledStep

LEMMA DeleteKept ==
    ASSUME Good, NEW outcome \in {"ok", "fails", "refused"}, Delete(outcome)
    PROVE  Sane'
<1> DEFINE t == IF outcome = "ok" THEN [s EXCEPT !.tree = @ \cup {id}] ELSE s
           st == IF outcome = "ok" THEN "ok" ELSE "failed"
<1>1. /\ over = "none" /\ n < MaxCommands /\ n' = n + 1 /\ IsEdit
      /\ UNCHANGED <<auth, nest, over>> /\ cut' \in {cut, cut \cup {id}}
  BY DEF Delete, Command
<1>2. Around
  BY <1>1 DEF Around
<1>3. /\ id \in Ids /\ s.saved \subseteq s.tree /\ Effect(s) /\ s \in UserData
  BY <1>1, GoodFacts
<1>4. {"ok", "failed", "not_executed"} \subseteq Statuses
  BY DEF Statuses
<1>5. Handled(s')
  <2>1. CASE s' = ProcessStatus(s, id, "ok") /\ cut' = cut \cup {id}
    BY <1>3, <1>4, <2>1, HandledProcess
  <2>2. CASE s' = ProcessStatus(s, id, "not_executed")
    BY <1>3, <1>4, <2>2, HandledProcess
  <2>3. CASE ~auth /\ s' = Answer(s, id, "failed")
    <3>1. Shaped(s) /\ Alike(s, s)
      BY <1>3, <2>3, OpenAtomic, ShapedEffect DEF Effect
    <3> QED
      BY <1>3, <1>4, <2>3, <3>1, HandledAnswer
  <2>4. CASE /\ ~IsCommandSkipped
             /\ s' = ProcessStatus(IF outcome = "refused" THEN s
                                   ELSE SequenceStatus(t, st), id, st)
    <3>1. Effect(t) /\ (outcome = "ok" => id \in t.tree)
      <4>1. CASE outcome = "ok"
        <5>1. /\ t.told = s.told /\ t.oStatus = s.oStatus
              /\ t.inAtomic = s.inAtomic
              /\ t.cmdId = s.cmdId /\ t.bValueSet = s.bValueSet
              /\ t.saved = s.saved /\ t.rollback = s.rollback
              /\ t.status = s.status /\ t.tree = s.tree \cup {id}
          BY <1>3, <4>1 DEF UserData
        <5>2. t \in UserData
          BY <1>3, <4>1 DEF UserData
        <5>3. ~s.rollback
          BY <2>4, OpenAtomic
        <5> HIDE DEF t
        <5> QED
          BY <5>1, <5>2, <5>3 DEF Effect, Alike, SameIds
      <4> QED
        BY <1>3, <4>1
    <3> HIDE DEF t
    <3> DEFINE u == SequenceStatus(t, st)
    <3>2. Effect(u) /\ u.tree = t.tree /\ st \in Statuses
      BY <1>4, <3>1, EffectSequence, SequenceFields DEF Effect
    <3> HIDE DEF u
    <3>3. CASE outcome = "refused"
      BY <1>3, <1>4, <2>4, <3>3, HandledProcess
    <3>4. CASE outcome # "refused"
      <4>1. s' = ProcessStatus(u, id, st)
        BY <2>4, <3>4 DEF u
      <4> QED
        BY <1>3, <3>1, <3>2, <4>1, HandledProcess
    <3> QED
      BY <3>3, <3>4
  <2> QED
    BY <2>1, <2>2, <2>3, <2>4 DEF Delete
<1> QED
  BY <1>1, <1>2, <1>3, <1>5, Edited, HandledStep

\* A command that is no edit: what has been done stays, or is rolled back.
LEMMA ReadShaped ==
    ASSUME Good, members' = members, cut' = cut, NEW t, Effect(t)
    PROVE  Shaped(t)
<1>1. id \notin members' \ cut' /\ s.saved \subseteq s.tree
  BY GoodFacts
<1> QED
  BY <1>1, ShapedEffect

LEMMA ReadAnswered ==
    ASSUME Good, n < MaxCommands, members' = members, cut' = cut,
           NEW t, Effect(t), NEW st \in Statuses
    PROVE  Handled(Answer(t, id, st))
<1>1. t \in UserData /\ Alike(s, t)
  BY DEF Effect
<1> QED
  BY <1>1, GoodFacts, ReadShaped, HandledAnswer

LEMMA ReadProcessed ==
    ASSUME Good, n < MaxCommands, members' = members, cut' = cut,
           NEW st \in Statuses
    PROVE  Handled(ProcessStatus(s, id, st))
<1>1. id \notin members' \ cut'
  BY GoodFacts
<1> QED
  BY <1>1, GoodFacts, HandledProcess

LEMMA RefusedInAtomic ==
    ASSUME Good, n < MaxCommands, s.inAtomic, NEW st \in Statuses
    PROVE  Handled(Answer(AtomicRollback(s), id, st))
BY GoodFacts, ShapedRollback, HandledAnswer

LEMMA ReadKept ==
    ASSUME Good, Around, n < MaxCommands, n' = n + 1, Handled(s'),
           members' = members, cut' = cut
    PROVE  Sane'
BY HandledStep

LEMMA GetKept == ASSUME Good, NEW ok \in BOOLEAN, Get(ok) PROVE Sane'
<1>1. /\ over = "none" /\ n < MaxCommands /\ n' = n + 1
      /\ UNCHANGED <<auth, nest, over, members, cut>>
  BY DEF Get, Command
<1>2. Around
  BY <1>1 DEF Around
<1>3. {"ok", "failed", "not_executed"} \subseteq Statuses /\ Effect(s)
  BY GoodFacts DEF Statuses
<1>4. Handled(s')
  <2>1. CASE s' = ProcessStatus(s, id, "failed")
    BY <1>1, <1>3, <2>1, ReadProcessed
  <2>2. CASE s.inAtomic /\ s' = Answer(AtomicRollback(s), id, "failed")
    BY <1>1, <1>3, <2>2, RefusedInAtomic
  <2>3. CASE \E st \in {"ok", "failed", "not_executed"} : s' = Answer(s, id, st)
    BY <1>1, <1>3, <2>3, ReadAnswered
  <2> QED
    BY <2>1, <2>2, <2>3 DEF Get
<1> QED
  BY <1>1, <1>2, <1>4, ReadKept

LEMMA ExecKept ==
    ASSUME Good, odd' = {}, NEW ok \in BOOLEAN, Exec(ok)
    PROVE  Sane'
<1> DEFINE st == IF ok THEN "ok" ELSE "failed"
           u == SequenceStatus(s, st)
<1>1. /\ over = "none" /\ n < MaxCommands /\ n' = n + 1
      /\ UNCHANGED <<auth, nest, over, members, cut>>
  BY DEF Exec, Command
<1>2. Around
  BY <1>1 DEF Around
<1>3. {"ok", "failed"} \subseteq Statuses /\ Effect(s) /\ Effect(u) /\ st \in Statuses
  BY GoodFacts, EffectSequence DEF Statuses
<1>4. Handled(s')
  <2>1. CASE s.inAtomic /\ s' = Answer(AtomicRollback(s), id, "failed")
    BY <1>1, <1>3, <2>1, RefusedInAtomic
  <2>2. CASE s' = Answer(s, id, "failed")
    BY <1>1, <1>3, <2>2, ReadAnswered
  <2>3. CASE s' = Answer(u, id, st)
    <3> HIDE DEF u, st
    <3> QED
      BY <1>1, <1>3, <2>3, ReadAnswered
  <2> QED
    BY <2>1, <2>2, <2>3 DEF Exec
<1> QED
  BY <1>1, <1>2, <1>4, ReadKept

LEMMA CopyKept == ASSUME Good, Copy PROVE Sane'
<1>1. /\ over = "none" /\ n < MaxCommands /\ n' = n + 1
      /\ UNCHANGED <<auth, nest, over, members, cut>>
      /\ s' = Answer(s, id, "unsupported")
  BY DEF Copy, Command
<1>2. Around
  BY <1>1 DEF Around
<1>3. "unsupported" \in Statuses /\ Effect(s)
  BY GoodFacts DEF Statuses
<1>4. Handled(s')
  BY <1>1, <1>3, ReadAnswered
<1> QED
  BY <1>1, <1>2, <1>4, ReadKept

LEMMA AlertKept ==
    ASSUME Good,
           NEW action \in {"ok", "abort", "unsupported", "incomplete",
                           "yes", "no", "cancel", "leave"},
           Alert(action)
    PROVE  Sane'
<1>1. /\ over = "none" /\ n < MaxCommands /\ n' = n + 1
      /\ UNCHANGED <<auth, nest, over, members, cut>>
  BY DEF Alert, Command
<1>2. Around
  BY <1>1 DEF Around
<1>3. /\ {"ok", "failed", "not_executed", "unsupported"} \subseteq Statuses
      /\ Effect(s) /\ s \in UserData
  BY GoodFacts DEF Statuses
<1>4. \A a \in {"no", "cancel"} : Effect([s EXCEPT !.alertState = a])
  <2> SUFFICES ASSUME NEW a \in {"no", "cancel"}
               PROVE  Effect([s EXCEPT !.alertState = a])
    OBVIOUS
  <2> DEFINE t == [s EXCEPT !.alertState = a]
  <2>1. /\ t.told = s.told /\ t.oStatus = s.oStatus /\ t.inAtomic = s.inAtomic
        /\ t.cmdId = s.cmdId /\ t.bValueSet = s.bValueSet
        /\ t.saved = s.saved /\ t.rollback = s.rollback
        /\ t.status = s.status /\ t.tree = s.tree /\ t \in UserData
    BY <1>3 DEF UserData
  <2> HIDE DEF t
  <2>2. Effect(t)
    BY <2>1 DEF Effect, Alike, SameIds
  <2> QED
    BY <2>2 DEF t
<1>5. Handled(s')
  <2>1. ASSUME NEW t, Effect(t),
               NEW st \in {"ok", "failed", "not_executed", "unsupported"},
               s' = IF ~s.inAtomic THEN Answer(t, id, st)
                    ELSE Keep(IF st \in {"ok", "unsupported"} THEN t
                              ELSE AtomicRollback(t), id, st)
        PROVE  Handled(s')
    <3>1. t \in UserData /\ Alike(s, t) /\ Shaped(t) /\ id \in Ids
      BY <1>1, <2>1, ReadShaped, GoodFacts DEF Effect
    <3>2. CASE ~s.inAtomic
      BY <1>1, <1>3, <2>1, <3>2, ReadAnswered
    <3>3. CASE s.inAtomic /\ st \in {"ok", "unsupported"}
      BY <1>3, <2>1, <3>1, <3>3, HandledKeep
    <3>4. CASE s.inAtomic /\ st \notin {"ok", "unsupported"}
      BY <1>3, <2>1, <3>1, <3>4, ShapedRollback, HandledKeep
    <3> QED
      BY <3>2, <3>3, <3>4
  <2>2. CASE s' = Answer(s, id, "failed")
    BY <1>1, <1>3, <2>2, ReadAnswered
  <2>3. CASE auth
    <3> DEFINE skipped == /\ action \in {"yes", "no", "cancel", "leave"}
                          /\ IsCommandSkipped \/ aborted
               st == CASE skipped -> "not_executed"
                       [] ~skipped /\ action \in {"no", "cancel", "incomplete"} ->
                              "failed"
                       [] action = "unsupported" -> "unsupported"
                       [] ~skipped /\ action \in {"ok", "abort", "yes", "leave"} ->
                              "ok"
               t == IF action \in {"no", "cancel"} /\ ~skipped
                    THEN [s EXCEPT !.alertState = action] ELSE s
    <3>1. s' = IF ~s.inAtomic THEN Answer(t, id, st)
               ELSE Keep(IF st \in {"ok", "unsupported"} THEN t
                         ELSE AtomicRollback(t), id, st)
      BY <2>3 DEF Alert
    <3>2. Effect(t)
      BY <1>3, <1>4
    <3> HIDE DEF t
    <3>3. st \in {"ok", "failed", "not_executed", "unsupported"}
      <4>1. CASE skipped
        <5>1. st = "not_executed"
          BY <4>1
        <5> QED
          BY <5>1
      <4>2. CASE ~skipped
        BY <4>2
      <4> QED
        BY <4>1, <4>2
    <3> HIDE DEF st, skipped
    <3> QED
      BY <2>1, <3>1, <3>2, <3>3
  <2> QED
    BY <2>2, <2>3 DEF Alert
<1> QED
  BY <1>1, <1>2, <1>5, ReadKept

LEMMA StartSequenceKept ==
    ASSUME Good, odd' = {}, StartSequence
    PROVE  Sane'
<1> DEFINE t == [s EXCEPT !.bInSequence = TRUE]
           st == IF auth THEN "ok" ELSE "failed"
<1>1. /\ over = "none" /\ n < MaxCommands /\ n' = n + 1
      /\ nest' = Append(nest, "Sequence")
      /\ UNCHANGED <<auth, over, members, cut>>
  BY DEF StartSequence, Opens, Command
<1>2. Around
  BY <1>1 DEF Around
<1>3. s' = Answer(t, id, st)
  BY DEF StartSequence
<1>4. st \in Statuses /\ s \in UserData
  BY GoodFacts DEF Statuses
<1>5. /\ t.told = s.told /\ t.oStatus = s.oStatus /\ t.inAtomic = s.inAtomic
      /\ t.cmdId = s.cmdId /\ t.bValueSet = s.bValueSet
      /\ t.saved = s.saved /\ t.rollback = s.rollback
      /\ t.status = s.status /\ t.tree = s.tree /\ t \in UserData
  BY <1>4 DEF UserData
<1> HIDE DEF t, st
<1>6. Effect(t)
  BY <1>5 DEF Effect, Alike, SameIds
<1>7. Handled(s')
  BY <1>1, <1>3, <1>4, <1>6, ReadAnswered
<1> QED
  BY <1>1, <1>2, <1>7, ReadKept

----------------------------------------------------------------------------
(* The beginning and the end of containers, messages and the session.      *)

LEMMA AtomicsClose ==
    ASSUME NEW q \in Seq({"Atomic", "Sequence"}), q # <<>>
    PROVE  /\ Atomics(SubSeq(q, 1, Len(q) - 1)) = Atomics(q) \ {Len(q)}
           /\ Len(q) \in DOMAIN q
<1> DEFINE x == SubSeq(q, 1, Len(q) - 1)
<1>1. Len(q) \in Nat /\ Len(q) > 0 /\ DOMAIN q = 1..Len(q)
  OBVIOUS
<1>2. DOMAIN x = 1..(Len(q) - 1) /\ \A j \in 1..(Len(q) - 1) : x[j] = q[j]
  BY <1>1
<1> HIDE DEF x
<1>3. DOMAIN x = DOMAIN q \ {Len(q)} /\ \A j \in DOMAIN x : x[j] = q[j]
  BY <1>1, <1>2
<1>4. Atomics(x) = Atomics(q) \ {Len(q)}
  BY <1>3 DEF Atomics
<1> QED
  BY <1>1, <1>4 DEF x

LEMMA StartAtomicKept == ASSUME Good, odd' = {}, StartAtomic PROVE Sane'
<1>1. /\ over = "none" /\ n < MaxCommands /\ n' = n + 1
      /\ nest' = Append(nest, "Atomic") /\ UNCHANGED <<auth, over, cut>>
  BY DEF StartAtomic, Opens, Command
<1>2. CASE ~auth /\ s' = Answer(s, id, "failed") /\ members' = members
  <2>1. Around
    BY <1>1, <1>2 DEF Around
  <2>2. "failed" \in Statuses /\ Effect(s)
    BY GoodFacts DEF Statuses
  <2>3. Handled(s')
    BY <1>1, <1>2, <2>2, ReadAnswered
  <2> QED
    BY <1>1, <1>2, <2>1, <2>3, ReadKept
<1>3. CASE auth /\ ~s.inAtomic /\ s' = BeginAtomic(s) /\ members' = {}
  <2>1. /\ s'.told = s.told /\ s'.oStatus = s.oStatus /\ s'.inAtomic = TRUE
        /\ s'.bValueSet = TRUE /\ s'.cmdId = id /\ s'.status = "ok"
        /\ s'.tree = s.tree /\ s'.saved = s.tree /\ s'.rollback = s.rollback
    BY <1>3, GoodFacts DEF BeginAtomic, Save, UserData
  <2>2. s.oStatus = <<>> /\ ~s.rollback /\ Atomics(nest) = {}
    BY <1>3 DEF Good, Sane, Nested
  <2>3. Atomics(nest') = {Len(nest) + 1}
    <3>1. Atomics(Append(nest, "Atomic")) = Atomics(nest) \cup {Len(nest) + 1}
      BY GoodFacts, AtomicsAppend
    <3> QED
      BY <1>1, <2>2, <3>1
  <2>4. Nested'
    BY <1>1, <1>3, <2>1, <2>3 DEF Nested
  <2>5. Whole'
    BY <1>1, <1>3, <2>1, <2>2, GoodFacts DEF Good, Sane, Whole
  <2>6. Once(s', n + 1)
    <3>1. IdsOf(s.oStatus) = {} /\ IdsOf(s.told) = 1..n
      BY <1>3, <2>2 DEF Good, Sane, Once, IdsOf
    <3>2. id = n + 1 /\ id \notin 1..n /\ 1..(n + 1) = 1..n \cup {n + 1}
      BY GoodFacts
    <3> QED
      BY <2>1, <3>1, <3>2 DEF Good, Sane, Once
  <2> QED
    BY <1>1, <2>4, <2>5, <2>6 DEF Sane
<1> QED
  BY <1>2, <1>3 DEF StartAtomic

LEMMA EndSequenceKept == ASSUME Good, EndSequence PROVE Sane'
<1>1. /\ s'.told = s.told /\ s'.oStatus = s.oStatus /\ s'.inAtomic = s.inAtomic
      /\ s'.bValueSet = s.bValueSet /\ s'.cmdId = s.cmdId
      /\ s'.status = s.status /\ s'.tree = s.tree /\ s'.saved = s.saved
      /\ s'.rollback = s.rollback
  BY GoodFacts DEF EndSequence, UserData
<1>2. /\ over = "none" /\ nest # <<>> /\ nest[Len(nest)] = "Sequence"
      /\ nest' = SubSeq(nest, 1, Len(nest) - 1)
      /\ UNCHANGED <<auth, over, n, members, cut>>
  BY DEF EndSequence, Closes, history
<1>3. Atomics(nest') = Atomics(nest)
  BY <1>2, GoodFacts, AtomicsClose DEF Atomics
<1>4. Nested'
  BY <1>1, <1>2, <1>3 DEF Good, Sane, Nested
<1>5. Whole'
  BY <1>1, <1>2 DEF Good, Sane, Whole, AllOrNothing, Told
<1>6. Once(s', n')
  BY <1>1, <1>2 DEF Good, Sane, Once
<1> QED
  BY <1>4, <1>5, <1>6 DEF Sane

LEMMA EndAtomicKept == ASSUME Good, EndAtomic PROVE Sane'
<1>1. /\ over = "none" /\ nest # <<>> /\ nest[Len(nest)] = "Atomic"
      /\ nest' = SubSeq(nest, 1, Len(nest) - 1)
      /\ UNCHANGED <<auth, over, n, members, cut>>
  BY DEF EndAtomic, Closes, history
<1>2. Len(nest) \in Atomics(nest) /\ Atomics(nest') = Atomics(nest) \ {Len(nest)}
  BY <1>1, GoodFacts, AtomicsClose DEF Atomics
<1>3. CASE ~auth
  <2>1. s' = s /\ ~s.inAtomic
    BY <1>3 DEF EndAtomic, Good, Sane, Nested
  <2>2. Nested'
    BY <1>1, <1>3, <2>1 DEF Good, Sane, Nested
  <2>3. Whole' /\ Once(s', n')
    BY <1>1, <2>1 DEF Good, Sane, Whole, AllOrNothing, Told
  <2> QED
    BY <2>2, <2>3 DEF Sane
<1>4. CASE auth
  <2> DEFINE u == Commit([s EXCEPT !.inAtomic = FALSE])
  <2>1. s.inAtomic /\ Atomics(nest') = {}
    BY <1>2, <1>4 DEF Good, Sane, Nested
  <2>2. /\ u.told = s.told /\ u.oStatus = s.oStatus /\ u.inAtomic = FALSE
        /\ u.cmdId = s.cmdId /\ u.status = s.status /\ u.tree = s.tree
        /\ u.saved = (IF s.rollback THEN s.saved ELSE s.tree)
        /\ u \in UserData
    <3> DEFINE t == [s EXCEPT !.inAtomic = FALSE]
    <3>1. /\ t.told = s.told /\ t.oStatus = s.oStatus /\ t.inAtomic = FALSE
          /\ t.cmdId = s.cmdId /\ t.status = s.status /\ t.tree = s.tree
          /\ t.saved = s.saved /\ t.rollback = s.rollback /\ t \in UserData
      BY GoodFacts DEF UserData
    <3> HIDE DEF t
    <3>2. /\ Save(t).told = t.told /\ Save(t).oStatus = t.oStatus
          /\ Save(t).inAtomic = t.inAtomic /\ Save(t).cmdId = t.cmdId
          /\ Save(t).status = t.status /\ Save(t).tree = t.tree
          /\ Save(t).saved = t.tree /\ Save(t) \in UserData
      BY <3>1, SaveType DEF Save, UserData
    <3>3. u = IF t.rollback THEN t ELSE Save(t)
      BY DEF Commit, t
    <3> QED
      BY <3>1, <3>2, <3>3
  <2>3. s' = FinishAtomic(u)
    BY <1>4 DEF EndAtomic
  <2> HIDE DEF u
  <2>4. /\ RepliesOf(s'.told) = (RepliesOf(s.told)
               \cup {[id |-> s.cmdId, status |-> s.status]}) \cup RepliesOf(s.oStatus)
        /\ s'.oStatus = <<>> /\ s'.tree = s.tree /\ s'.saved = u.saved
        /\ s'.inAtomic = FALSE /\ s'.cmdId = s.cmdId /\ s'.rollback = FALSE
    BY <2>2, <2>3, FinishFields
  <2>5. s'.told = (s.told \o <<[id |-> s.cmdId, status |-> s.status]>>) \o s.oStatus
    BY <2>2, <2>3 DEF FinishAtomic, UserData
  <2>6. Nested'
    BY <1>1, <2>1, <2>4 DEF Nested
  <2>7. AllOrNothing'
    <3>1. CASE s.rollback
      BY <1>1, <2>1, <2>2, <2>4, <3>1 DEF Good, Sane, Whole, AllOrNothing
    <3>2. CASE ~s.rollback
      <4>1. members \ cut \subseteq s.tree /\ s.status = "ok"
        BY <1>1, <2>1, <3>2 DEF Good, Sane, Whole
      <4>2. [id |-> s.cmdId, status |-> "ok"] \in Told'
        BY <2>4, <4>1 DEF Told, RepliesOf
      <4> QED
        BY <1>1, <2>2, <2>4, <3>2, <4>1, <4>2 DEF AllOrNothing
    <3> QED
      BY <3>1, <3>2
  <2>8. Whole'
    BY <1>1, <2>2, <2>4, <2>7 DEF Good, Sane, Whole
  <2>9. Once(s', n')
    BY <1>1, <2>1, <2>4, <2>5, GoodFacts, OnceFinished DEF Good, Sane
  <2> QED
    BY <2>6, <2>8, <2>9 DEF Sane
<1> QED
  BY <1>3, <1>4 DEF Good, TypeOK

\* Between messages no Atomic is open.
LEMMA NoneOpen == ASSUME Good, nest = <<>> PROVE Atomics(nest) = {} /\ ~s.inAtomic
<1>1. Atomics(nest) = {}
  BY DEF Atomics
<1> QED
  BY <1>1 DEF Good, Sane, Nested

LEMMA EndMessageKept ==
    ASSUME Good, NEW sent, NEW chunk, EndMessage(sent, chunk)
    PROVE  Sane'
<1>1. /\ nest = <<>> /\ auth' \in BOOLEAN
      /\ UNCHANGED <<s, nest, n, over, members, cut>>
  BY DEF EndMessage, history
<1>2. Atomics(nest) = {} /\ ~s.inAtomic
  BY <1>1, NoneOpen
<1>3. Nested'
  BY <1>1, <1>2 DEF Good, Sane, Nested
<1>4. Whole' /\ Once(s', n')
  BY <1>1 DEF Good, Sane, Whole, AllOrNothing, Told
<1> QED
  BY <1>3, <1>4 DEF Sane

LEMMA EndSessionKept == ASSUME Good, EndSession PROVE Sane'
<1>1. /\ nest = <<>> /\ s' = Save(s) /\ UNCHANGED <<auth, nest, n, members, cut>>
  BY DEF EndSession, history
<1>2. Atomics(nest) = {} /\ ~s.inAtomic
  BY <1>1, NoneOpen
<1>3. /\ s'.told = s.told /\ s'.oStatus = s.oStatus /\ s'.inAtomic = s.inAtomic
      /\ s'.bValueSet = s.bValueSet /\ s'.cmdId = s.cmdId
      /\ s'.tree = s.tree /\ s'.saved = s.tree /\ s'.rollback = s.rollback
  BY <1>1, GoodFacts DEF Save, UserData
<1>4. Nested'
  BY <1>1, <1>2, <1>3 DEF Good, Sane, Nested
<1>5. Whole'
  BY <1>1, <1>2, <1>3, GoodFacts DEF Good, Sane, Whole, AllOrNothing, Told
<1>6. Once(s', n')
  BY <1>1, <1>3 DEF Good, Sane, Once
<1> QED
  BY <1>4, <1>5, <1>6 DEF Sane

LEMMA ParseFailsKept == ASSUME Good, ParseFails PROVE Sane'
<1>1. /\ over' = "fail" /\ s' = [s EXCEPT !.tree = s.saved]
      /\ UNCHANGED <<auth, nest, n, members, cut>>
  BY DEF ParseFails, history
<1>2. /\ s'.told = s.told /\ s'.oStatus = s.oStatus /\ s'.inAtomic = s.inAtomic
      /\ s'.bValueSet = s.bValueSet /\ s'.cmdId = s.cmdId
      /\ s'.tree = s.saved /\ s'.saved = s.saved /\ s'.rollback = s.rollback
  BY <1>1, GoodFacts DEF UserData
<1>3. Nested'
  BY <1>1, <1>2 DEF Good, Sane, Nested
<1>4. Whole'
  BY <1>1, <1>2 DEF Good, Sane, Whole, AllOrNothing, Told
<1>5. Once(s', n')
  BY <1>1, <1>2 DEF Good, Sane, Once
<1> QED
  BY <1>3, <1>4, <1>5 DEF Sane

\* What is odd in a session stays.
LEMMA OddGrows == ASSUME Next PROVE odd \subseteq odd'
<1>1. ASSUME NEW cmd, NEW uri, NEW part, NEW outcome,
             Edit(cmd, uri, part, outcome)
      PROVE  odd \subseteq odd'
  BY <1>1 DEF Edit
<1>2. ASSUME NEW cmd, NEW outcome, Tnds(cmd, outcome)
      PROVE  odd \subseteq odd'
  BY <1>2 DEF Tnds
<1>3. ASSUME NEW outcome, Delete(outcome)
      PROVE  odd \subseteq odd'
  BY <1>3 DEF Delete
<1>4. ASSUME NEW ok, Get(ok) \/ Exec(ok)
      PROVE  odd \subseteq odd'
  BY <1>4 DEF Get, Exec
<1>5. ASSUME NEW action, Alert(action)
      PROVE  odd \subseteq odd'
  BY <1>5 DEF Alert
<1>6. Copy \/ StartSequence \/ StartAtomic => odd \subseteq odd'
  BY DEF Copy, StartSequence, StartAtomic
<1>7. EndSequence \/ EndAtomic \/ EndSession \/ ParseFails => odd \subseteq odd'
  BY DEF EndSequence, EndAtomic, EndSession, ParseFails, history
<1>8. ASSUME NEW sent, NEW chunk, EndMessage(sent, chunk)
      PROVE  odd \subseteq odd'
  BY <1>8 DEF EndMessage, history
<1> QED
  BY <1>1, <1>2, <1>3, <1>4, <1>5, <1>6, <1>7, <1>8 DEF Next

LEMMA AtomicInit == Init => AtomicInv
<1> SUFFICES ASSUME Init PROVE Sane
  BY DEF AtomicInv
<1>1. /\ s.inAtomic = FALSE /\ s.rollback = FALSE /\ s.oStatus = <<>>
      /\ s.told = <<>> /\ s.tree = {} /\ s.saved = {}
      /\ nest = <<>> /\ n = 0 /\ members = {} /\ cut = {}
  BY DEF Init
<1>2. Nested /\ Whole
  BY <1>1 DEF Nested, Whole, AllOrNothing, Atomics
<1>3. Once(s, n)
  <2>1. IdsOf(s.told) = {} /\ IdsOf(s.oStatus) = {} /\ 1..n = {}
    BY <1>1 DEF IdsOf
  <2>2. Distinct(s.told) /\ Distinct(s.oStatus)
    BY <1>1 DEF Distinct
  <2> QED
    BY <1>1, <2>1, <2>2 DEF Once
<1> QED
  BY <1>2, <1>3 DEF Sane

LEMMA AtomicStep == TypeOK /\ CancelInv /\ AtomicInv /\ [Next]_vars => AtomicInv'
<1> SUFFICES ASSUME TypeOK, CancelInv, AtomicInv, [Next]_vars, odd' = {}
             PROVE  Sane'
  BY DEF AtomicInv
<1>1. CASE UNCHANGED vars
  BY <1>1 DEF AtomicInv, Sane, Nested, Whole, AllOrNothing, Told, vars, history
<1>2. CASE Next
  <2>1. Good
    BY <1>2, OddGrows DEF Good, AtomicInv
  <2>2. ASSUME NEW cmd \in {"Add", "Replace"}, NEW uri \in URIs,
               NEW part \in {"whole", "first", "next", "last"},
               NEW outcome \in {"ok", "fails", "refused"},
               Edit(cmd, uri, part, outcome)
        PROVE  Sane'
    BY <2>1, <2>2, EditKept
  <2>3. ASSUME NEW cmd \in {"Add", "Replace"},
               NEW outcome \in {"ok", "fails", "unsupported", "refused"},
               Tnds(cmd, outcome)
        PROVE  Sane'
    BY <2>1, <2>3, TndsKept
  <2>4. ASSUME NEW outcome \in {"ok", "fails", "refused"}, Delete(outcome)
        PROVE  Sane'
    BY <2>1, <2>4, DeleteKept
  <2>5. ASSUME NEW ok \in BOOLEAN, Get(ok) \/ Exec(ok)
        PROVE  Sane'
    BY <2>1, <2>5, GetKept, ExecKept
  <2>6. ASSUME NEW action \in {"ok", "abort", "unsupported", "incomplete",
                               "yes", "no", "cancel", "leave"},
               Alert(action)
        PROVE  Sane'
    BY <2>1, <2>6, AlertKept
  <2>7. ASSUME Copy \/ StartSequence \/ EndSequence \/ StartAtomic \/ EndAtomic
        PROVE  Sane'
    BY <2>1, <2>7, CopyKept, StartSequenceKept, EndSequenceKept,
       StartAtomicKept, EndAtomicKept
  <2>8. ASSUME NEW sent \in 0..results, NEW chunk \in BOOLEAN,
               EndMessage(sent, chunk)
        PROVE  Sane'
    BY <2>1, <2>8, EndMessageKept
  <2>9. ASSUME EndSession \/ ParseFails
        PROVE  Sane'
    BY <2>1, <2>9, EndSessionKept, ParseFailsKept
  <2> QED
    BY <1>2, <2>2, <2>3, <2>4, <2>5, <2>6, <2>7, <2>8, <2>9 DEF Next
<1> QED
  BY <1>1, <1>2

LEMMA AtomicInvariance == Spec => []AtomicInv
<1>1. TypeOK /\ CancelInv /\ [Next]_vars => CancelInv'
  BY CancelStep
<1> QED
  BY <1>1, CancelInit, AtomicInit, AtomicStep, CommandTypes, PTL DEF Spec

----------------------------------------------------------------------------
(* The theorems.                                                           *)

\* The edits of an Atomic reach the disk together or not at all, and its status
\* tells which, whatever comes between its messages (HandleStartAtomic,
\* AtomicRollback and HandleEndAtomic, dm_ua_handlecommand.cc).
THEOREM AtomicsAreWhole == Spec => []AtomicAllOrNothing
<1>1. AtomicInv => AtomicAllOrNothing
  BY DEF AtomicInv, Sane, Nested, Whole, AllOrNothing, AtomicAllOrNothing
<1> QED
  BY <1>1, AtomicInvariance, PTL

\* Each command has one status, which is told when its Atomic ends
\* (ProcessStatus, dm_ua_handlecommand.cc).
THEOREM CommandsAnsweredOnce == Spec => []AnsweredOnce
<1>1. TypeOK /\ AtomicInv => AnsweredOnce
  <2> SUFFICES ASSUME TypeOK, AtomicInv, odd = {}
               PROVE  /\ \A i \in 0..n : \A j, k \in Times(i) : j = k
                      /\ (nest = <<>> /\ over = "none") =>
                             \A i \in 1..n : Times(i) # {}
    BY DEF AnsweredOnce
  <2>1. Nested /\ Once(s, n)
    BY DEF AtomicInv, Sane
  <2>2. \A i \in 0..n : \A j, k \in Times(i) : j = k
    BY <2>1 DEF Times, Once, Distinct
  <2>3. ASSUME nest = <<>>, NEW i \in 1..n
        PROVE  Times(i) # {}
    <3>1. ~s.inAtomic /\ s.oStatus = <<>>
      BY <2>1, <2>3 DEF Nested, Atomics
    <3>2. IdsOf(s.oStatus) = {}
      BY <3>1 DEF IdsOf
    <3>3. i \in IdsOf(s.told)
      BY <2>1, <3>1, <3>2 DEF Once
    <3> QED
      BY <3>3 DEF IdsOf, Times
  <2> QED
    BY <2>2, <2>3
<1> QED
  BY <1>1, AtomicInvariance, CommandTypes, PTL
=============================================================================
