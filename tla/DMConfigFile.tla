---------------------------- MODULE DMConfigFile ----------------------------
(***************************************************************************)
(* The two configuration files of the device management tree, the ACLs of  *)
(* its nodes and the subscriptions to their events (dmConfigManager.cc     *)
(* with dmACLManager.cc and dmSubscriptionManager.cc): loading with the    *)
(* recovery of an interrupted save, changes in memory, and the release of  *)
(* a lock context, which saves the changes in steps or reverts them        *)
(* (dmLockCtxMgr.cc).                                                      *)
(*                                                                         *)
(* The product is built with DM_NO_LOCKING: every lock context has the     *)
(* same id, and a release takes the first of the two files with that id,   *)
(* the ACLs'.  Subscriptions change in memory only, and since their file   *)
(* is empty the next load drops them.                                      *)
(*                                                                         *)
(* A load may fail: the file cannot be opened, memory runs out, or an item *)
(* cannot be added.  Nobody looks at the status, and what such a load has  *)
(* left in memory is read, changed and saved like any other copy.          *)
(*                                                                         *)
(* A configuration is a function from paths to values; the order of its    *)
(* items is left out, and so a load may stop short of any of them.  The    *)
(* process may die between any two steps; time stamps are left out, since  *)
(* only this process writes the files, and so are failing renames.         *)
(***************************************************************************)
EXTENDS Naturals

CONSTANTS Paths, Root,  \* the nodes, and the root of the tree
          Values,
          NoFile, Torn, \* a file that does not exist, or is not complete
          FirstAcls,    \* the ACLs that are shipped
          MaxDeaths     \* bound: deaths of the process

Files == {"acl", "events"}
Contents == UNION {[S -> Values] : S \in SUBSET Paths}
Empty == [p \in {} |-> p]

ASSUME ConfigAssumption ==
    /\ Root \in Paths
    /\ NoFile \notin Contents /\ Torn \notin Contents /\ NoFile # Torn
    /\ FirstAcls \in Contents /\ Root \in DOMAIN FirstAcls
    /\ MaxDeaths \in Nat

VARIABLES file, temp, bak,   \* the file of each name on disk, its ".temp"
                             \* and its ".bak"
          config,            \* m_aConfig
          changed, loaded,   \* m_bChanged, m_bLoaded
          step,              \* where the process is in Serialize
          deaths,
          whole,             \* history: what is in memory does not stem from
                             \* a load that failed
          short              \* history: ACLs that do were saved

disk == <<file, temp, bak>>
mem == <<config, changed, loaded, whole>>
vars == <<disk, mem, step, deaths, short>>

----------------------------------------------------------------------------
Init ==
    /\ file = [f \in Files |-> IF f = "acl" THEN FirstAcls ELSE Empty]
    /\ temp = [f \in Files |-> NoFile] /\ bak = [f \in Files |-> NoFile]
    /\ config = [f \in Files |-> Empty]
    /\ changed = [f \in Files |-> FALSE] /\ loaded = [f \in Files |-> FALSE]
    /\ step = "stopped" /\ deaths = 0
    /\ whole = [f \in Files |-> TRUE] /\ short = FALSE

\* A file that is missing, be it in the middle of a save, is created empty.
Start ==
    /\ step = "stopped" /\ step' = "idle"
    /\ file' = [f \in Files |-> IF file[f] = NoFile THEN Empty ELSE file[f]]
    /\ UNCHANGED <<temp, bak, mem, deaths, short>>

\* Mutant: the recovery keeps a file that exists, even one that Init created.
RecoveredIfMissing(f) ==
    IF temp[f] # NoFile /\ bak[f] # NoFile /\ file[f] = NoFile
    THEN bak[f] ELSE file[f]

\* A ".bak" next to a ".temp" is the last complete copy; either alone goes.
Recovered(f) == IF temp[f] # NoFile /\ bak[f] # NoFile THEN bak[f] ELSE file[f]

CheckRecovery(f) ==
    /\ file' = [file EXCEPT ![f] = Recovered(f)]
    /\ temp' = [temp EXCEPT ![f] = NoFile]
    /\ bak' = [bak EXCEPT ![f] = NoFile]

\* What Deserialize may leave in memory: all of the file, or nothing, or the
\* items before one that cannot be added, which count as loaded.  An empty file
\* and one that cannot be read leave m_bLoaded as it was.
Loads(f) ==
    LET r == Recovered(f)
    IN  {[config |-> r, loaded |-> r # Empty, whole |-> TRUE],
         [config |-> Empty, loaded |-> FALSE, whole |-> FALSE]}
        \cup {[config |-> [p \in S |-> r[p]], loaded |-> TRUE, whole |-> FALSE] :
                 S \in (SUBSET DOMAIN r) \ {DOMAIN r}}

Deserialize(f, m) ==
    /\ CheckRecovery(f)
    /\ config' = [config EXCEPT ![f] = m.config]
    /\ loaded' = [loaded EXCEPT ![f] = m.loaded]
    /\ whole' = [whole EXCEPT ![f] = m.whole]

\* IsPermitted and GetACL, OnNodeChanged and GetEvent load what is not loaded.
\* A load that does not get to its end leaves m_bChanged as it was.
Read(f) ==
    /\ step = "idle" /\ ~loaded[f]
    /\ \E m \in Loads(f) :
          /\ Deserialize(f, m)
          /\ changed' = [changed EXCEPT ![f] = @ /\ ~m.loaded]
    /\ UNCHANGED <<step, deaths, short>>

InMemory(f) == [config |-> config[f], loaded |-> loaded[f], whole |-> whole[f]]

\* Mutant: a change does not load the file first.
CopiesUnloaded(f) == {InMemory(f)}

\* The copies that a change may be made to: it loads the file first, unless
\* another change came before it.
Copies(f) == IF loaded[f] \/ changed[f] THEN {InMemory(f)} ELSE Loads(f)

CheckLocking(f) ==
    IF loaded[f] \/ changed[f] THEN UNCHANGED disk ELSE CheckRecovery(f)

\* Memory after the copy m was changed to c.
Changed(f, m, c) ==
    /\ config' = [config EXCEPT ![f] = c]
    /\ changed' = [changed EXCEPT ![f] = TRUE]
    /\ loaded' = [loaded EXCEPT ![f] = m.loaded]
    /\ whole' = [whole EXCEPT ![f] = m.whole]
    /\ UNCHANGED <<step, deaths, short>>

\* The ACL of the root is never replaced, nor is it removed.
SetItem(f, p, v) ==
    /\ step = "idle" /\ (f = "acl" => p # Root)
    /\ CheckLocking(f)
    /\ \E m \in Copies(f) :
          Changed(f, m, [q \in DOMAIN m.config \cup {p} |->
                            IF q = p THEN v ELSE m.config[q]])

\* Delete looks for the item before it loads anything.
RemoveItem(f, p) ==
    /\ step = "idle" /\ (f = "acl" => p # Root)
    /\ p \in DOMAIN config[f]
    /\ CheckLocking(f)
    /\ \E m \in Copies(f) :
          Changed(f, m, [q \in DOMAIN m.config \ {p} |-> m.config[q]])

----------------------------------------------------------------------------
(* The release of a lock context.  The file it saves or reverts.           *)
Released == "acl"

\* Serialize opens the ".temp" file, and returns when there is no change.
Save ==
    /\ step = "idle" /\ changed[Released]
    /\ temp' = [temp EXCEPT ![Released] = Torn] /\ step' = "write"
    /\ UNCHANGED <<file, bak, mem, deaths, short>>

\* After an error or for a ROLLBACK, what is loaded and changed is reloaded.
Revert ==
    /\ step = "idle" /\ changed[Released] /\ loaded[Released]
    /\ \E m \in Loads(Released) : Deserialize(Released, m)
    /\ changed' = [changed EXCEPT ![Released] = FALSE]
    /\ UNCHANGED <<step, deaths, short>>

\* Mutant: a failure to write the ".temp" file does not end the save.
WriteFailsOn ==
    /\ step = "write" /\ step' = "bak"
    /\ UNCHANGED <<disk, mem, deaths, short>>

WriteFails ==
    /\ step = "write" /\ step' = "idle"
    /\ UNCHANGED <<disk, mem, deaths, short>>

Write ==
    /\ step = "write" /\ step' = "bak"
    /\ temp' = [temp EXCEPT ![Released] = config[Released]]
    /\ UNCHANGED <<file, bak, mem, deaths, short>>

KeepBak ==
    /\ step = "bak" /\ step' = "rename"
    /\ bak' = [bak EXCEPT ![Released] = file[Released]]
    /\ file' = [file EXCEPT ![Released] = NoFile]
    /\ UNCHANGED <<temp, mem, deaths, short>>

RenameTemp ==
    /\ step = "rename" /\ step' = "remove"
    /\ file' = [file EXCEPT ![Released] = temp[Released]]
    /\ temp' = [temp EXCEPT ![Released] = NoFile]
    /\ short' = (short \/ ~whole[Released])
    /\ UNCHANGED <<bak, mem, deaths>>

RemoveBak ==
    /\ step = "remove" /\ step' = "idle"
    /\ bak' = [bak EXCEPT ![Released] = NoFile]
    /\ changed' = [changed EXCEPT ![Released] = FALSE]
    /\ loaded' = [loaded EXCEPT ![Released] = TRUE]
    /\ UNCHANGED <<file, temp, config, whole, deaths, short>>

----------------------------------------------------------------------------
(* The death of the process.                                               *)

Dies ==
    /\ step # "stopped" /\ step' = "stopped"
    /\ deaths < MaxDeaths /\ deaths' = deaths + 1
    /\ config' = [f \in Files |-> Empty]
    /\ changed' = [f \in Files |-> FALSE] /\ loaded' = [f \in Files |-> FALSE]
    /\ whole' = [f \in Files |-> TRUE] /\ short' = short

Die == Dies /\ UNCHANGED disk

\* Between the two steps of a recovery.
DieInRecovery(f) ==
    /\ step = "idle" /\ ~loaded[f] /\ temp[f] # NoFile /\ bak[f] # NoFile
    /\ file' = [file EXCEPT ![f] = bak[f]] /\ bak' = [bak EXCEPT ![f] = NoFile]
    /\ UNCHANGED temp
    /\ Dies

Use ==
    \E f \in Files :
        \/ Read(f)
        \/ \E p \in Paths, v \in Values : SetItem(f, p, v)
        \/ \E p \in Paths : RemoveItem(f, p)
        \/ DieInRecovery(f)

Serialize ==
    Save \/ WriteFails \/ Write \/ KeepBak \/ RenameTemp \/ RemoveBak

Next == Start \/ Use \/ Serialize \/ Revert \/ Die

Spec == Init /\ [][Next]_vars

----------------------------------------------------------------------------
(* What the next load would find, and what a reader of a file gets: the    *)
(* memory, once something was loaded or changed or a load has failed.      *)
Durable(f) == IF bak[f] # NoFile /\ temp[f] # NoFile THEN bak[f] ELSE file[f]
View(f) == IF step # "stopped" /\ (loaded[f] \/ changed[f] \/ ~whole[f])
           THEN config[f] ELSE Durable(f)

TypeOK ==
    /\ file \in [Files -> Contents \cup {NoFile}]
    /\ temp \in [Files -> Contents \cup {NoFile, Torn}]
    /\ bak \in [Files -> Contents \cup {NoFile}]
    /\ config \in [Files -> Contents]
    /\ changed \in [Files -> BOOLEAN] /\ loaded \in [Files -> BOOLEAN]
    /\ step \in {"stopped", "idle", "write", "bak", "rename", "remove"}
    /\ deaths \in 0..MaxDeaths
    /\ whole \in [Files -> BOOLEAN] /\ short \in BOOLEAN

\* The ACLs are saved as a whole or not at all, whichever step of a save, of a
\* load or of a recovery the process dies in (dmConfigManager.cc:205-240,
\* 261-361).  Every reader gets the working copy, except that a load may fail
\* unnoticed and leave a part of what was saved (125-172), which then is the
\* working copy that is changed and saved: the abstract store says so.
Store == INSTANCE ConfigStore WITH view <- View("acl"),
                                   durable <- Durable("acl"),
                                   whole <- whole["acl"]
AclsSaved == Store!Spec

\* The root's ACL, which governs each node without an ACL of its own
\* (dmACLManager.cc:53-77), is lost in no other way than by a load that fails
\* (dmConfigManager.cc:125-172): it is there for every reader whose copy does
\* not stem from one, and after every death unless such a copy was saved.
RootGoverned ==
    \/ short
    \/ /\ Root \in DOMAIN Durable("acl")
       /\ whole["acl"] => Root \in DOMAIN View("acl")
=============================================================================
