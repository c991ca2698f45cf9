---------------------------- MODULE ConfigStore ----------------------------
(***************************************************************************)
(* What a configuration file promises its users: they read and change a    *)
(* working copy, and a save makes the whole of it durable or nothing of    *)
(* it; a release with an error, or the death of the process, goes back to  *)
(* what was saved.                                                         *)
(*                                                                         *)
(* It does not promise that going back succeeds: the users are not told    *)
(* when a load fails, and their working copy is then a part of what was    *)
(* saved, or nothing.  whole is what would tell them.                      *)
(***************************************************************************)
CONSTANTS Paths, Values, Contents

VARIABLES view,    \* the configuration that a reader gets
          durable, \* the one that survives the death of the process
          whole    \* the view does not stem from a load that failed

Init == view \in Contents /\ durable = view /\ whole = TRUE

Parts(c) == {[p \in S |-> c[p]] : S \in SUBSET DOMAIN c}

\* The working copies that a user may find, and whether they are whole: the
\* one there is, or what a load leaves.
Copies == {<<view, whole>>, <<durable, TRUE>>} \cup (Parts(durable) \X {FALSE})

\* A working copy with p set to v, and without p.
SetItem == \E c \in Copies, p \in Paths, v \in Values :
    /\ view' = [q \in DOMAIN c[1] \cup {p} |-> IF q = p THEN v ELSE c[1][q]]
    /\ whole' = c[2]
RemoveItem == \E c \in Copies, p \in Paths :
    /\ view' = [q \in DOMAIN c[1] \ {p} |-> c[1][q]]
    /\ whole' = c[2]

Change == (SetItem \/ RemoveItem) /\ durable' = durable
Save == durable' = view /\ view' = view /\ whole' = whole
GoBack == <<view', whole'>> \in Copies /\ durable' = durable

Next == Change \/ Save \/ GoBack

vars == <<view, durable, whole>>

Spec == Init /\ [][Next]_vars
=============================================================================
