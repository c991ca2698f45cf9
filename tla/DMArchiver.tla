----------------------------- MODULE DMArchiver -----------------------------
(***************************************************************************)
(* The persistence of the management tree: SyncML_DM_Archiver with its     *)
(* SyncML_DM_WBXMLArchive files and commit logs, CMultipleFileManager, and *)
(* the one lock context of the DM_NO_LOCKING build that calls them.        *)
(*                                                                         *)
(* An archive a has a file (orig), while it is saved a ".temp" and a       *)
(* ".bak" (temp, bak), and a commit log ".cmt" (cmt) of the replacements   *)
(* of the large objects (ESN leaves) whose data is in files of their own:  *)
(* lob[l] under its name and mid[l], ".mid", until it is committed.  Every *)
(* file operation is a step of its own, the process may die between any    *)
(* two of them, and one of a save may fail.                                *)
(*                                                                         *)
(* Simplifications.  A content is a version, counted by the changes.  A    *)
(* large object is only replaced; its creation and removal, the plug-ins,  *)
(* the ACL and event files and the out-of-memory flag are left out.  The   *)
(* modification time of a file stands for its content.  The operations of  *)
(* a recovery do not fail.                                                 *)
(***************************************************************************)
EXTENDS Integers, FiniteSets

CONSTANTS
    N,            \* number of archives
    Stored,       \* archives that have a file from the start
    Lobs,         \* large objects
    Home,         \* the archive of each
    MaxEdits,     \* bound: changes
    MaxCrashes,   \* bound: deaths of the process
    MaxFaults     \* bound: failing file operations

Archives == 1 .. N

ASSUME SizeAssumption == N \in Nat \ {0} /\ Stored \subseteq Archives
ASSUME HomeAssumption == Home \in [Lobs -> Archives]
ASSUME BoundsAssumption ==
    MaxEdits \in Nat /\ MaxCrashes \in Nat /\ MaxFaults \in Nat

Versions == 0 .. MaxEdits    \* 0: as installed
NoFile == -1                 \* no such file; an archive that is not loaded
Torn == -2                   \* a ".temp" that is being written

Files == Versions \cup {NoFile}
NoLog == [exists |-> FALSE, entries |-> {}]

\* A commit log's handler: none, with its file open, or left with a file
\* that is closed or removed.
Handles == {"none", "open", "closed"}

PCs == {"idle", "open", "rollback", "undo", "purge", "purgeLog", "drop",
        "replay", "sweep", "write", "fill", "keep", "swap", "commitESN",
        "play", "unlink"}

VARIABLES
    (* files *)
    orig, bak, temp, cmt, lob, mid,
    (* memory of the process *)
    mem,          \* the loaded archives
    dirty, exist, \* m_bWritableExist
    stamp,        \* lastSavedTime
    log,          \* commitLog
    pend,         \* the entry in the buffer of the log's file handle
    fresh,        \* large objects with a ".mid" (m_bDirty)
    pc, i,        \* what the engine does, and for which archive
    play,         \* entries of the log being played back
    status,       \* retStat: TRUE for SYNCML_DM_SUCCESS
    release,      \* the command is RELEASE, not COMMIT or ATOMIC
    (* counts and history *)
    clock, crashes, faults,
    lobSaved      \* the large objects that belong to what is stored

files == <<orig, bak, temp>>
lobFiles == <<cmt, lob, mid>>
memory == <<mem, dirty, exist, stamp>>
esn == <<log, pend, fresh>>
control == <<pc, i, play, status, release>>
counts == <<clock, crashes, faults>>
vars == <<files, lobFiles, memory, esn, control, counts, lobSaved>>

TypeOK ==
    /\ orig \in [Archives -> Files]
    /\ bak \in [Archives -> Files]
    /\ temp \in [Archives -> Files \cup {Torn}]
    /\ cmt \in [Archives -> [exists : BOOLEAN, entries : SUBSET Lobs]]
    /\ lob \in [Lobs -> Files]
    /\ mid \in [Lobs -> Files]
    /\ mem \in [Archives -> Files]
    /\ dirty \in [Archives -> BOOLEAN]
    /\ exist \in [Archives -> BOOLEAN]
    /\ stamp \in [Archives -> Files]
    /\ log \in [Archives -> Handles]
    /\ pend \in [Archives -> SUBSET Lobs]
    /\ fresh \in SUBSET Lobs
    /\ pc \in PCs
    /\ i \in 1 .. N + 1
    /\ play \in SUBSET Lobs
    /\ status \in BOOLEAN
    /\ release \in BOOLEAN
    /\ clock \in Versions
    /\ crashes \in 0 .. MaxCrashes
    /\ faults \in 0 .. MaxFaults
    /\ lobSaved \in [Lobs -> Versions]

LobsOf(a) == {l \in Lobs : Home[l] = a}

Unloaded == [a \in Archives |-> NoFile]
Nowhere(b) == [a \in Archives |-> b]

Init ==
    /\ orig = [a \in Archives |-> IF a \in Stored THEN 0 ELSE NoFile]
    /\ bak = Unloaded
    /\ temp = Unloaded
    /\ cmt = Nowhere(NoLog)
    /\ lob = [l \in Lobs |-> 0]
    /\ mid = [l \in Lobs |-> NoFile]
    /\ mem = Unloaded
    /\ dirty = Nowhere(FALSE)
    /\ exist = Nowhere(FALSE)
    /\ stamp = Unloaded
    /\ log = Nowhere("none")
    /\ pend = Nowhere({})
    /\ fresh = {}
    /\ pc = "idle"
    /\ i = 1
    /\ play = {}
    /\ status = TRUE
    /\ release = FALSE
    /\ clock = 0
    /\ crashes = 0
    /\ faults = 0
    /\ lobSaved = [l \in Lobs |-> 0]

(***************************************************************************)
(* Control                                                                 *)
(***************************************************************************)

\* Leave a loop over the archives for the next phase.
Goto(phase) == /\ pc' = phase
               /\ i' = 1
               /\ UNCHANGED <<play, status, release>>

\* The loop's next archive.
Advance == /\ i' = i + 1
           /\ UNCHANGED <<pc, play, status, release>>

\* serialize returns s; a RELEASE then removes the context in any case.
Return(s) == /\ pc' = IF release THEN "idle" ELSE "open"
             /\ i' = 1
             /\ status' = s
             /\ UNCHANGED <<play, release>>

\* A loop of the archiver passes over the archives that are not in S.
Loop(phase, S, next) ==
    /\ pc = phase
    /\ \/ i > N /\ Goto(next)
       \/ i <= N /\ i \notin S /\ Advance
    /\ UNCHANGED <<files, lobFiles, memory, esn, counts, lobSaved>>

At(phase, S) == pc = phase /\ i \in S

Fault == /\ faults < MaxFaults
         /\ faults' = faults + 1
         /\ UNCHANGED <<clock, crashes>>

Dirty == {a \in Archives : dirty[a]}

(***************************************************************************)
(* The lock context opens: LockFileSet, deserialize, checkRecovery         *)
(***************************************************************************)

\* Mutants of RecoveryStart: the save is not undone; a log alone is not seen.
RecoveryStartForward ==
    IF \E a \in Archives : temp[a] # NoFile THEN "purge" ELSE "drop"

RecoveryStartLogless ==
    LET tmpFileExists == \E a \in Archives : temp[a] # NoFile
        bakFileExists == \E a \in Archives : bak[a] # NoFile
    IN  CASE tmpFileExists /\ bakFileExists  -> "undo"
          [] tmpFileExists /\ ~bakFileExists -> "purge"
          [] ~tmpFileExists /\ bakFileExists -> "drop"
          [] OTHER                           -> "sweep"

RecoveryStart ==
    LET tmpFileExists == \E a \in Archives : temp[a] # NoFile
        bakFileExists == \E a \in Archives : bak[a] # NoFile
        cmtFileExists == \E a \in Archives : cmt[a].exists
    IN  CASE tmpFileExists /\ bakFileExists    -> "undo"
          [] tmpFileExists /\ ~bakFileExists   -> "purge"
          [] ~tmpFileExists /\ (bakFileExists \/ cmtFileExists) -> "drop"
          [] OTHER                             -> "sweep"

Lock ==
    /\ pc = "idle"
    /\ Goto(RecoveryStart)
    /\ UNCHANGED <<files, lobFiles, memory, esn, counts, lobSaved>>

\* ".bak" and ".temp" files exist: the save is undone, ...
Undo ==
    \/ Loop("undo", {a \in Archives : bak[a] # NoFile}, "purge")
    \/ /\ At("undo", {a \in Archives : bak[a] # NoFile})
       /\ orig' = [orig EXCEPT ![i] = bak[i]]
       /\ bak' = [bak EXCEPT ![i] = NoFile]
       /\ Advance
       /\ UNCHANGED <<temp, lobFiles, memory, esn, counts, lobSaved>>

\* ... its ".temp" files and commit logs are removed.
Purge ==
    \/ Loop("purge", Archives, "sweep")
    \/ /\ At("purge", Archives)
       /\ temp' = [temp EXCEPT ![i] = NoFile]
       /\ pc' = "purgeLog"
       /\ UNCHANGED <<orig, bak, lobFiles, memory, esn, i, play, status,
                      release, counts, lobSaved>>

PurgeLog ==
    /\ pc = "purgeLog"
    /\ cmt' = [cmt EXCEPT ![i] = NoLog]
    /\ log' = [log EXCEPT ![i] = IF @ = "open" THEN "closed" ELSE @]
    /\ pend' = [pend EXCEPT ![i] = {}]
    /\ pc' = "purge"
    /\ i' = i + 1
    /\ UNCHANGED <<files, lob, mid, memory, fresh, play, status, release,
                   counts, lobSaved>>

\* Only ".bak" files or commit logs: the save is completed.
Drop ==
    \/ Loop("drop", Archives, "sweep")
    \/ /\ At("drop", Archives)
       /\ bak' = [bak EXCEPT ![i] = NoFile]
       /\ \/ ~cmt[i].exists /\ Advance /\ UNCHANGED <<cmt, log, pend>>
          \/ /\ cmt[i].exists
             /\ log[i] = "closed"    \* nothing to read or to remove
             /\ log' = [log EXCEPT ![i] = "none"]
             /\ Advance
             /\ UNCHANGED <<cmt, pend>>
          \/ /\ cmt[i].exists
             /\ log[i] # "closed"
             /\ pc' = "replay"
             /\ play' = cmt[i].entries \cup pend[i]
             /\ UNCHANGED <<cmt, log, pend, i, status, release>>
       /\ UNCHANGED <<orig, temp, lob, mid, memory, fresh, counts, lobSaved>>

\* The ".mid" files are removed, and the archives whose file is newer unloaded.
Sweep ==
    LET newer == {a \in Archives : mem[a] # NoFile /\ orig[a] # stamp[a]}
    IN  /\ pc = "sweep"
        /\ mid' = [l \in Lobs |-> NoFile]
        /\ mem' = [a \in Archives |-> IF a \in newer THEN NoFile ELSE mem[a]]
        /\ fresh' = {l \in fresh : Home[l] \notin newer}
        /\ dirty' = Nowhere(FALSE)
        /\ Goto("open")
        /\ UNCHANGED <<files, cmt, lob, exist, stamp, log, pend, counts,
                       lobSaved>>

(***************************************************************************)
(* A commit log is played back                                             *)
(***************************************************************************)

\* playbackOneRecord: the object's file is deleted, its ".mid" takes the name.
Playback ==
    /\ pc \in {"play", "replay"}
    /\ \E l \in play :
           \/ /\ mid[l] = NoFile
              /\ play' = play \ {l}
              /\ UNCHANGED <<lob, mid>>
           \/ /\ mid[l] # NoFile
              /\ lob[l] # NoFile
              /\ lob' = [lob EXCEPT ![l] = NoFile]
              /\ UNCHANGED <<mid, play>>
           \/ /\ mid[l] # NoFile
              /\ lob[l] = NoFile
              /\ lob' = [lob EXCEPT ![l] = mid[l]]
              /\ mid' = [mid EXCEPT ![l] = NoFile]
              /\ play' = play \ {l}
    /\ UNCHANGED <<files, cmt, memory, esn, pc, i, status, release, counts,
                   lobSaved>>

RemoveLog ==
    /\ cmt' = [cmt EXCEPT ![i] = NoLog]
    /\ log' = [log EXCEPT ![i] = "none"]
    /\ pend' = [pend EXCEPT ![i] = {}]

Replayed ==
    /\ pc = "replay"
    /\ play = {}
    /\ RemoveLog
    /\ pc' = "drop"
    /\ i' = i + 1
    /\ UNCHANGED <<files, lob, mid, memory, fresh, play, status, release,
                   counts, lobSaved>>

(***************************************************************************)
(* The tree is used                                                        *)
(***************************************************************************)

\* What an archive holds; without a file of its own, what is installed.
Content(file) == IF file = NoFile THEN 0 ELSE file

Load(a) ==
    /\ pc = "open"
    /\ mem[a] = NoFile
    /\ mem' = [mem EXCEPT ![a] = Content(orig[a])]
    /\ exist' = [exist EXCEPT ![a] = orig[a] # NoFile]
    /\ stamp' = [stamp EXCEPT ![a] = IF orig[a] # NoFile THEN orig[a] ELSE @]
    /\ UNCHANGED <<files, lobFiles, dirty, esn, control, counts, lobSaved>>

Touch(a) ==
    /\ pc = "open"
    /\ mem[a] # NoFile
    /\ clock < MaxEdits
    /\ clock' = clock + 1
    /\ mem' = [mem EXCEPT ![a] = clock + 1]
    /\ dirty' = [dirty EXCEPT ![a] = TRUE]
    /\ UNCHANGED <<files, exist, stamp, control, crashes, faults, lobSaved>>

Edit(a) == Touch(a) /\ UNCHANGED <<lobFiles, esn>>

\* A large object gets a new content; the entry before this one leaves the
\* buffer.  A log whose file is closed takes no entry.
Replace(l) ==
    LET a == Home[l]
    IN  /\ Touch(a)
        /\ mid' = [mid EXCEPT ![l] = clock + 1]
        /\ fresh' = fresh \cup {l}
        /\ IF log[a] = "closed"
              THEN UNCHANGED <<cmt, log, pend>>
              ELSE /\ cmt' = [cmt EXCEPT ![a] =
                                [exists  |-> TRUE,
                                 entries |-> @.entries \cup pend[a]]]
                   /\ log' = [log EXCEPT ![a] = "open"]
                   /\ pend' = [pend EXCEPT ![a] = {l}]
        /\ UNCHANGED lob

\* CheckMemoryAging: what is not dirty is unloaded.
Age ==
    /\ pc \in {"idle", "open"}
    /\ mem' = [a \in Archives |-> IF dirty[a] THEN mem[a] ELSE NoFile]
    /\ fresh' = {l \in fresh : dirty[Home[l]]}
    /\ UNCHANGED <<files, lobFiles, dirty, exist, stamp, log, pend, control,
                   counts, lobSaved>>

Rollback ==
    /\ pc = "open"
    /\ Goto("rollback")
    /\ UNCHANGED <<files, lobFiles, memory, esn, counts, lobSaved>>

\* rollback and, after it, LockFileSet again.
RollbackOne ==
    \/ Loop("rollback", Dirty, RecoveryStart)
    \/ /\ At("rollback", Dirty)
       /\ cmt' = [cmt EXCEPT ![i] = IF log[i] = "open" THEN NoLog ELSE @]
       /\ mid' = [l \in Lobs |-> IF /\ l \in fresh
                                     /\ Home[l] = i
                                     /\ log[i] # "none"
                                    THEN NoFile ELSE mid[l]]
       /\ log' = [log EXCEPT ![i] = "none"]
       /\ pend' = [pend EXCEPT ![i] = {}]
       /\ fresh' = fresh \ LobsOf(i)
       /\ mem' = [mem EXCEPT ![i] = NoFile]
       /\ dirty' = [dirty EXCEPT ![i] = FALSE]
       /\ Advance
       /\ UNCHANGED <<files, lob, exist, stamp, counts, lobSaved>>

(***************************************************************************)
(* serialize                                                               *)
(***************************************************************************)

Save(r) ==
    /\ pc = "open"
    /\ pc' = "write"
    /\ i' = 1
    /\ status' = TRUE
    /\ release' = r
    /\ UNCHANGED <<files, lobFiles, memory, esn, play, counts, lobSaved>>

\* The dirty archives are written to ".temp" files; a failure returns.
Write ==
    \/ Loop("write", Dirty, "keep")
    \/ /\ At("write", Dirty)
       /\ temp' = [temp EXCEPT ![i] = Torn]
       /\ pc' = "fill"
       /\ UNCHANGED <<orig, bak, lobFiles, memory, esn, i, play, status,
                      release, counts, lobSaved>>

\* Mutant of Fill: the ".temp" file is not closed before it is used.
FillUnclosed ==
    /\ pc = "fill"
    /\ pc' = "write"
    /\ i' = i + 1
    /\ UNCHANGED <<files, lobFiles, memory, esn, play, status, release,
                   counts, lobSaved>>

Fill ==
    /\ pc = "fill"
    /\ temp' = [temp EXCEPT ![i] = mem[i]]
    /\ pc' = "write"
    /\ i' = i + 1
    /\ UNCHANGED <<orig, bak, lobFiles, memory, esn, play, status, release,
                   counts, lobSaved>>

WriteFails ==
    /\ At("write", Dirty) \/ pc = "fill"
    /\ Fault
    /\ Return(FALSE)
    /\ UNCHANGED <<files, lobFiles, memory, esn, lobSaved>>

\* Files become ".bak" files.
Kept == {a \in Dirty : exist[a]}

CloseCommitLog ==
    /\ cmt' = IF log[i] = "open"
                THEN [cmt EXCEPT ![i].entries = @ \cup pend[i]]
                ELSE cmt
    /\ log' = [log EXCEPT ![i] = IF @ = "open" THEN "closed" ELSE @]
    /\ pend' = [pend EXCEPT ![i] = {}]

KeepFile == /\ orig' = [orig EXCEPT ![i] = NoFile]
            /\ bak' = [bak EXCEPT ![i] = orig[i]]

Keep ==
    \/ Loop("keep", Kept, "swap")
    \/ /\ At("keep", Kept)
       /\ orig[i] # NoFile
       /\ CloseCommitLog
       /\ KeepFile
       /\ Advance
       /\ UNCHANGED <<temp, lob, mid, memory, fresh, counts, lobSaved>>

\* A rename that fails is tried again, and ends the loop even if that helps;
\* serialize goes on.
KeepFails ==
    /\ At("keep", Kept)
    /\ CloseCommitLog
    /\ \/ orig[i] = NoFile /\ UNCHANGED <<orig, bak, counts>>
       \/ orig[i] # NoFile /\ Fault /\ UNCHANGED <<orig, bak>>
       \/ orig[i] # NoFile /\ Fault /\ KeepFile
    /\ pc' = "swap"
    /\ i' = 1
    /\ status' = FALSE
    /\ UNCHANGED <<temp, lob, mid, memory, fresh, play, release, lobSaved>>

\* The commit log cannot be closed: serialize returns.
CloseFails ==
    /\ At("keep", Kept)
    /\ log[i] = "open"
    /\ Fault
    /\ log' = [log EXCEPT ![i] = "closed"]
    /\ pend' = [pend EXCEPT ![i] = {}]
    /\ Return(FALSE)
    /\ UNCHANGED <<files, lobFiles, memory, fresh, lobSaved>>

\* ".temp" files become files.
Swap ==
    \/ Loop("swap", Dirty, "commitESN")
    \/ /\ At("swap", Dirty)
       /\ orig' = [orig EXCEPT ![i] = temp[i]]
       /\ temp' = [temp EXCEPT ![i] = NoFile]
       /\ lobSaved' = IF \A a \in Archives : temp'[a] = NoFile
                        THEN [l \in Lobs |-> IF l \in fresh /\ mid[l] # NoFile
                                               THEN mid[l] ELSE lobSaved[l]]
                        ELSE lobSaved
       /\ Advance
       /\ UNCHANGED <<bak, lobFiles, memory, esn, counts>>

\* Mutant of SwapFails: the ".bak" file is not put back but removed.
SwapFailsDrops ==
    /\ At("swap", Dirty)
    /\ Fault
    /\ bak' = [bak EXCEPT ![i] = NoFile]
    /\ pc' = "commitESN"
    /\ i' = 1
    /\ status' = FALSE
    /\ UNCHANGED <<orig, temp, lobFiles, memory, esn, play, release, lobSaved>>

\* A failure puts the ".bak" file back and ends the loop; serialize goes on.
SwapFails ==
    /\ At("swap", Dirty)
    /\ Fault
    /\ IF bak[i] # NoFile
          THEN /\ orig' = [orig EXCEPT ![i] = bak[i]]
               /\ bak' = [bak EXCEPT ![i] = NoFile]
          ELSE UNCHANGED <<orig, bak>>
    /\ pc' = "commitESN"
    /\ i' = 1
    /\ status' = FALSE
    /\ UNCHANGED <<temp, lobFiles, memory, esn, play, release, lobSaved>>

\* commitESN opens the commit log by its name; its result replaces retStat.
CommitESN ==
    /\ At("commitESN", Dirty)
    /\ status' = TRUE
    /\ \/ /\ log[i] = "none"
          /\ pc' = "unlink"
          /\ UNCHANGED <<cmt, log, pend, play>>
       \/ /\ log[i] # "none"
          /\ pc' = "play"
          /\ play' = cmt[i].entries \cup pend[i]
          /\ cmt' = [cmt EXCEPT ![i] = [exists |-> TRUE, entries |-> play']]
          /\ log' = [log EXCEPT ![i] = "open"]
          /\ pend' = [pend EXCEPT ![i] = {}]
    /\ UNCHANGED <<files, lob, mid, memory, fresh, i, release, counts,
                   lobSaved>>

SkipClean ==
    /\ pc = "commitESN"
    /\ \/ i > N /\ Return(status)
       \/ i <= N /\ i \notin Dirty /\ Advance
    /\ UNCHANGED <<files, lobFiles, memory, esn, counts, lobSaved>>

Played ==
    /\ pc = "play"
    /\ play = {}
    /\ RemoveLog
    /\ fresh' = fresh \ LobsOf(i)
    /\ pc' = "unlink"
    /\ UNCHANGED <<files, lob, mid, memory, i, play, status, release, counts,
                   lobSaved>>

\* serializeDone, and the ".bak" file is removed.
Cleaned == /\ dirty' = [dirty EXCEPT ![i] = FALSE]
           /\ stamp' = [stamp EXCEPT ![i] = orig[i]]

Unlink ==
    /\ pc = "unlink"
    /\ exist[i] => bak[i] # NoFile
    /\ Cleaned
    /\ bak' = IF exist[i] THEN [bak EXCEPT ![i] = NoFile] ELSE bak
    /\ pc' = "commitESN"
    /\ i' = i + 1
    /\ UNCHANGED <<orig, temp, lobFiles, mem, exist, esn, play, status,
                   release, counts, lobSaved>>

\* Mutant of UnlinkFails: the loop ends with the result of commitESN.
UnlinkFailsQuietly ==
    /\ pc = "unlink"
    /\ exist[i]
    /\ \/ bak[i] = NoFile /\ UNCHANGED counts
       \/ bak[i] # NoFile /\ Fault
    /\ Cleaned
    /\ Return(status)
    /\ UNCHANGED <<files, lobFiles, mem, exist, esn, lobSaved>>

UnlinkFails ==
    /\ pc = "unlink"
    /\ exist[i]
    /\ \/ bak[i] = NoFile /\ UNCHANGED counts
       \/ bak[i] # NoFile /\ Fault
    /\ Cleaned
    /\ Return(FALSE)
    /\ UNCHANGED <<files, lobFiles, mem, exist, esn, lobSaved>>

(***************************************************************************)
(* The process dies; a new one starts with an empty memory                 *)
(***************************************************************************)

Crash ==
    /\ crashes < MaxCrashes
    /\ crashes' = crashes + 1
    /\ mem' = Unloaded
    /\ dirty' = Nowhere(FALSE)
    /\ exist' = Nowhere(FALSE)
    /\ stamp' = Unloaded
    /\ log' = Nowhere("none")
    /\ pend' = Nowhere({})
    /\ fresh' = {}
    /\ pc' = "idle"
    /\ i' = 1
    /\ play' = {}
    /\ UNCHANGED <<files, lobFiles, status, release, clock, faults, lobSaved>>

Serialize == \/ Write \/ Fill \/ WriteFails
             \/ Keep \/ KeepFails \/ CloseFails
             \/ Swap \/ SwapFails
             \/ CommitESN \/ SkipClean \/ Played \/ Unlink \/ UnlinkFails

Recover == Undo \/ Purge \/ PurgeLog \/ Drop \/ Replayed \/ Sweep

Next == \/ Lock \/ Recover \/ Playback
        \/ \E a \in Archives : Load(a) \/ Edit(a)
        \/ \E l \in Lobs : Replace(l)
        \/ Age
        \/ Rollback \/ RollbackOne
        \/ \E r \in BOOLEAN : Save(r)
        \/ Serialize
        \/ Crash

Spec == Init /\ [][Next]_vars

(***************************************************************************)
(* Properties                                                              *)
(***************************************************************************)

\* What checkRecovery would leave if it ran now (SyncML_DM_Archiver.cc:
\* 488-597): with a ".temp" file anywhere, the ".bak" files.
Recovered ==
    LET undone == \E a \in Archives : temp[a] # NoFile
    IN  [a \in Archives |-> IF undone /\ bak[a] # NoFile
                              THEN bak[a] ELSE Content(orig[a])]

Working == [a \in Archives |-> IF mem[a] = NoFile THEN Recovered[a]
                                                  ELSE mem[a]]

Tree == INSTANCE AtomicTree
    WITH stored <- Recovered, working <- Working, intact <- faults = 0

\* As long as no file operation fails, what a restart loads changes in one
\* step from the tree of one save to the tree of the next, wherever the
\* process dies, in a save or in a recovery: the renames of serialize and
\* the two cases of checkRecovery fit together (SyncML_DM_Archiver.cc:206).
ImplementsAtomicTree == Tree!Spec

\* An archive that had a file always has a complete copy, as the file or as
\* its ".bak", even when a file operation of the save fails and serialize
\* goes on (SyncML_DM_Archiver.cc:242-274).
ArchiveSurvives == \A a \in Stored : orig[a] # NoFile \/ bak[a] # NoFile

\* serialize returns SYNCML_DM_SUCCESS (in the step, the process lives on).
Succeeds == /\ pc \in {"commitESN", "unlink"}
            /\ pc' \in {"idle", "open"}
            /\ status'
            /\ crashes' = crashes

\* An archive is passed as saved only if its file holds it, and serialize
\* returns success only when no archive is left to save, although commitESN
\* overwrites the failures of the phases before it (SyncML_DM_Archiver.cc:
\* 295).
SuccessIsSaved ==
    [][/\ pc = "unlink" /\ pc' = "commitESN" => orig[i] = mem[i]
       /\ Succeeds => Dirty' = {}]_vars

\* A large object saved with the tree is there, with that content or a later
\* one, whenever the tree is open again: a commit log is played to its end
\* after a death in the middle (SyncML_DM_Archiver.cc:585).
LobDurable ==
    pc = "open" /\ faults = 0
        => \A l \in Lobs : lob[l] # NoFile /\ lob[l] >= lobSaved[l]
=============================================================================
