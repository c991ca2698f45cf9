----------------------------- MODULE AtomicTree -----------------------------
(***************************************************************************)
(* What the archiver promises to the rest of the engine: the management    *)
(* tree, although it is kept in several archives, is saved as a whole.     *)
(* What a restart would load changes in one step to what is being worked   *)
(* on, or not at all.  The promise ends with the first file operation that *)
(* fails.                                                                  *)
(*                                                                         *)
(* DMArchiver implements this specification.                               *)
(***************************************************************************)
CONSTANTS
    Archives,    \* the parts of the tree
    Versions     \* their contents

VARIABLES
    stored,      \* what a restart loads
    working,     \* what the engine works on
    intact       \* no file operation has failed

vars == <<stored, working, intact>>

Init ==
    /\ stored \in [Archives -> Versions]
    /\ working = stored
    /\ intact = TRUE

Change ==
    /\ \E a \in Archives, v \in Versions :
           working' = [working EXCEPT ![a] = v]
    /\ UNCHANGED <<stored, intact>>

\* All of the work becomes what is stored.
Publish ==
    /\ stored' = working
    /\ UNCHANGED <<working, intact>>

\* A rollback or a crash: some of the work is given up.
Discard ==
    /\ \E lost \in SUBSET Archives :
           working' = [a \in Archives |-> IF a \in lost THEN stored[a]
                                                        ELSE working[a]]
    /\ UNCHANGED <<stored, intact>>

Fail == intact' = FALSE

Next == \/ intact /\ (Change \/ Publish \/ Discard)
        \/ Fail

Spec == Init /\ [][Next]_vars
=============================================================================
