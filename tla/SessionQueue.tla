---------------------------- MODULE SessionQueue ----------------------------
(***************************************************************************)
(* What the DM client service promises to its callers: intents are taken   *)
(* in the order they were accepted, one at a time; each one that asks for  *)
(* a session or a cancel, unless it is skipped, is answered by one result  *)
(* broadcast while the service says that it is busy; the death of the      *)
(* process may lose the intents that are not answered, never an answer,    *)
(* and never repeats one.                                                  *)
(*                                                                         *)
(* DMClientService implements this specification.                          *)
(***************************************************************************)
EXTENDS Naturals, Sequences

CONSTANTS
    Requests,    \* intents
    Answerable,  \* those that get a result
    Outcomes,    \* result codes
    NoRequest

VARIABLES
    accepted,    \* intents taken in so far
    pending,     \* those that wait
    active,      \* the one being handled
    busy,        \* sIsDMSessionInProgress
    answers      \* results, in order

vars == <<accepted, pending, active, busy, answers>>

Answered == {answers[i].req : i \in DOMAIN answers}

Init ==
    /\ accepted = {}
    /\ pending = <<>>
    /\ active = NoRequest
    /\ busy = FALSE
    /\ answers = <<>>

Accept(r) ==
    /\ r \notin accepted
    /\ accepted' = accepted \cup {r}
    /\ pending' = Append(pending, r)
    /\ UNCHANGED <<active, busy, answers>>

Skip ==
    /\ active = NoRequest
    /\ pending # <<>>
    /\ pending' = Tail(pending)
    /\ UNCHANGED <<accepted, active, busy, answers>>

Begin ==
    /\ active = NoRequest
    /\ pending # <<>>
    /\ Head(pending) \in Answerable
    /\ pending' = Tail(pending)
    /\ active' = Head(pending)
    /\ UNCHANGED <<accepted, busy, answers>>

Engage ==
    /\ active # NoRequest
    /\ ~busy
    /\ busy' = TRUE
    /\ UNCHANGED <<accepted, pending, active, answers>>

Answer(ret) ==
    /\ active # NoRequest
    /\ busy
    /\ active \notin Answered
    /\ answers' = Append(answers, [req |-> active, ret |-> ret])
    /\ UNCHANGED <<accepted, pending, active, busy>>

Finish ==
    /\ active \in Answered
    /\ busy
    /\ active' = NoRequest
    /\ busy' = FALSE
    /\ UNCHANGED <<accepted, pending, answers>>

Lose ==
    /\ pending' = <<>>
    /\ active' = NoRequest
    /\ busy' = FALSE
    /\ UNCHANGED <<accepted, answers>>

Next ==
    \/ \E r \in Requests : Accept(r)
    \/ Skip \/ Begin \/ Engage \/ Finish \/ Lose
    \/ \E ret \in Outcomes : Answer(ret)

Spec == Init /\ [][Next]_vars
=============================================================================
