-------------------------- MODULE DMArchiverProofs --------------------------
(***************************************************************************)
(* Proofs about DMArchiver, for every number of archives and large objects *)
(* and every bound.                                                        *)
(*                                                                         *)
(* The types need no assumption.  The other theorems are about a tree      *)
(* whose archives all have a file from the start (Stored = Archives).      *)
(* Their invariant has three layers: Survival says which files an archive  *)
(* without its file has, Saving what a save has written and renamed, and   *)
(* Quiet where the ".bak" and ".temp" files are while no file operation    *)
(* has failed.  Logged, at the end, does for the large objects what Quiet  *)
(* does for the archives.                                                  *)
(***************************************************************************)
EXTENDS DMArchiver, TLAPS

\* The type invariant, in parts, with what it needs of the control.
BooleanTypes == status \in BOOLEAN /\ release \in BOOLEAN

FileTypes ==
    /\ orig \in [Archives -> Files]
    /\ bak \in [Archives -> Files]
    /\ temp \in [Archives -> Files \cup {Torn}]
    /\ mem \in [Archives -> Files]
    /\ dirty \in [Archives -> BOOLEAN]
    /\ exist \in [Archives -> BOOLEAN]
    /\ stamp \in [Archives -> Files]

LobTypes ==
    /\ cmt \in [Archives -> [exists : BOOLEAN, entries : SUBSET Lobs]]
    /\ lob \in [Lobs -> Files]
    /\ mid \in [Lobs -> Files]
    /\ log \in [Archives -> Handles]
    /\ pend \in [Archives -> SUBSET Lobs]
    /\ fresh \in SUBSET Lobs
    /\ play \in SUBSET Lobs
    /\ lobSaved \in [Lobs -> Versions]

CountTypes ==
    /\ pc \in PCs
    /\ i \in 1 .. N + 1
    /\ clock \in Versions
    /\ crashes \in 0 .. MaxCrashes
    /\ faults \in 0 .. MaxFaults

\* Inside the body of a loop there is an archive at hand.
AtArchive == pc \in {"purgeLog", "replay", "fill", "play", "unlink"} => i <= N

\* What is dirty is loaded.  The ".temp" files of a save are complete before
\* the first rename, and those that are still to be renamed stay so.
Complete(a) == temp[a] \in Versions
SaveInv ==
    /\ \A a \in Archives : dirty[a] => mem[a] # NoFile
    /\ pc = "fill" => dirty[i]
    /\ pc \in {"write", "fill"} =>
           \A a \in Archives : dirty[a] /\ a < i => Complete(a)
    /\ pc = "keep" => \A a \in Archives : dirty[a] => Complete(a)
    /\ pc = "swap" => \A a \in Archives : dirty[a] /\ a >= i => Complete(a)

Types == FileTypes /\ LobTypes /\ CountTypes /\ AtArchive /\ SaveInv

\* Every action keeps the types: one lemma per group of variables.
LEMMA BooleanTypesStep == BooleanTypes /\ [Next]_vars => BooleanTypes'
  <1> SUFFICES ASSUME BooleanTypes, [Next]_vars PROVE BooleanTypes'
    OBVIOUS
  <1> USE DEF files, lobFiles, memory, esn, control, counts, Loop, Goto,
     Advance, At, Dirty, BooleanTypes
  <1>1. CASE Lock  BY <1>1, Zenon DEF Lock, RecoveryStart
  <1>2. CASE Undo  BY <1>2, Zenon DEF Undo
  <1>3. CASE Purge  BY <1>3, Zenon DEF Purge
  <1>4. CASE PurgeLog  BY <1>4, Zenon DEF PurgeLog, NoLog
  <1>5. CASE Drop  BY <1>5, Zenon DEF Drop
  <1>6. CASE Replayed  BY <1>6, Zenon DEF Replayed, RemoveLog, NoLog
  <1>7. CASE Sweep  BY <1>7, Zenon DEF Sweep, Nowhere
  <1>8. CASE Playback  BY <1>8, Zenon DEF Playback
  <1>9. ASSUME NEW a \in Archives, Load(a) PROVE BooleanTypes'
    BY <1>9, Zenon DEF Load, Content
  <1>10. ASSUME NEW a \in Archives, Edit(a) PROVE BooleanTypes'
    BY <1>10, Zenon DEF Edit, Touch
  <1>11. ASSUME NEW l \in Lobs, Replace(l) PROVE BooleanTypes'
    BY <1>11, Zenon DEF Replace, Touch
  <1>12. CASE Age  BY <1>12, Zenon DEF Age
  <1>13. CASE Rollback  BY <1>13, Zenon DEF Rollback
  <1>14. CASE RollbackOne
    BY <1>14, Zenon DEF RollbackOne, RecoveryStart, NoLog, LobsOf
  <1>15. ASSUME NEW r \in BOOLEAN, Save(r) PROVE BooleanTypes'
    BY <1>15, Zenon DEF Save
  <1>16. CASE Write  BY <1>16, Zenon DEF Write
  <1>17. CASE Fill  BY <1>17, Zenon DEF Fill
  <1>18. CASE WriteFails  BY <1>18, Zenon DEF WriteFails, Fault, Return
  <1>19. CASE Keep  BY <1>19, Zenon DEF Keep, Kept, CloseCommitLog, KeepFile
  <1>20. CASE KeepFails
    BY <1>20, Zenon DEF KeepFails, Kept, CloseCommitLog, KeepFile, Fault
  <1>21. CASE CloseFails  BY <1>21, Zenon DEF CloseFails, Kept, Fault, Return
  <1>22. CASE Swap  BY <1>22, Zenon DEF Swap
  <1>23. CASE SwapFails  BY <1>23, Zenon DEF SwapFails, Fault
  <1>24. CASE CommitESN  BY <1>24, Zenon DEF CommitESN
  <1>25. CASE SkipClean  BY <1>25, Zenon DEF SkipClean, Return
  <1>26. CASE Played  BY <1>26, Zenon DEF Played, RemoveLog, NoLog, LobsOf
  <1>27. CASE Unlink  BY <1>27, Zenon DEF Unlink, Cleaned
  <1>28. CASE UnlinkFails
    BY <1>28, Zenon DEF UnlinkFails, Cleaned, Fault, Return
  <1>29. CASE Crash  BY <1>29, Zenon DEF Crash, Unloaded, Nowhere
  <1>30. CASE UNCHANGED vars  BY <1>30, Zenon DEF vars
  <1> QED
    BY <1>1, <1>2, <1>3, <1>4, <1>5, <1>6, <1>7, <1>8, <1>9, <1>10, <1>11,
       <1>12, <1>13, <1>14, <1>15, <1>16, <1>17, <1>18, <1>19, <1>20,
       <1>21, <1>22, <1>23, <1>24, <1>25, <1>26, <1>27, <1>28, <1>29,
       <1>30, Zenon DEF Next, Recover, Serialize

LEMMA FileTypesStep == Types /\ [Next]_vars => FileTypes'
  <1> SUFFICES ASSUME Types, [Next]_vars PROVE FileTypes'
    OBVIOUS
  <1> USE BoundsAssumption DEF files, lobFiles, memory, esn, control, counts,
     Loop, Goto, Advance, At, Dirty, Types, FileTypes, CountTypes, AtArchive,
     SaveInv, Complete, Files, Versions, NoFile, Torn
  <1>1. CASE Lock  BY <1>1 DEF Lock, RecoveryStart
  <1>2. CASE Undo  BY <1>2 DEF Undo
  <1>3. CASE Purge  BY <1>3 DEF Purge
  <1>4. CASE PurgeLog  BY <1>4 DEF PurgeLog, NoLog
  <1>5. CASE Drop  BY <1>5 DEF Drop
  <1>6. CASE Replayed  BY <1>6 DEF Replayed, RemoveLog, NoLog
  <1>7. CASE Sweep  BY <1>7 DEF Sweep, Nowhere
  <1>8. CASE Playback  BY <1>8 DEF Playback
  <1>9. ASSUME NEW a \in Archives, Load(a) PROVE FileTypes'
    BY <1>9 DEF Load, Content
  <1>10. ASSUME NEW a \in Archives, Edit(a) PROVE FileTypes'
    BY <1>10 DEF Edit, Touch
  <1>11. ASSUME NEW l \in Lobs, Replace(l) PROVE FileTypes'
    <2>1. Home[l] \in Archives /\ Touch(Home[l])
      BY <1>11, HomeAssumption DEF Replace
    <2>2. QED
      BY <2>1 DEF Touch, files, control, counts, Types, FileTypes,
         CountTypes, AtArchive, SaveInv, Complete, Files, Versions,
         NoFile, Torn
  <1>12. CASE Age  BY <1>12 DEF Age
  <1>13. CASE Rollback  BY <1>13 DEF Rollback
  <1>14. CASE RollbackOne
    BY <1>14 DEF RollbackOne, RecoveryStart, NoLog, LobsOf
  <1>15. ASSUME NEW r \in BOOLEAN, Save(r) PROVE FileTypes'
    BY <1>15 DEF Save
  <1>16. CASE Write  BY <1>16 DEF Write
  <1>17. CASE Fill  BY <1>17 DEF Fill
  <1>18. CASE WriteFails  BY <1>18 DEF WriteFails, Fault, Return
  <1>19. CASE Keep  BY <1>19 DEF Keep, Kept, CloseCommitLog, KeepFile
  <1>20. CASE KeepFails
    BY <1>20 DEF KeepFails, Kept, CloseCommitLog, KeepFile, Fault
  <1>21. CASE CloseFails  BY <1>21 DEF CloseFails, Kept, Fault, Return
  <1>22. CASE Swap  BY <1>22 DEF Swap
  <1>23. CASE SwapFails  BY <1>23 DEF SwapFails, Fault
  <1>24. CASE CommitESN  BY <1>24 DEF CommitESN
  <1>25. CASE SkipClean  BY <1>25 DEF SkipClean, Return
  <1>26. CASE Played  BY <1>26 DEF Played, RemoveLog, NoLog, LobsOf
  <1>27. CASE Unlink  BY <1>27 DEF Unlink, Cleaned
  <1>28. CASE UnlinkFails  BY <1>28 DEF UnlinkFails, Cleaned, Fault, Return
  <1>29. CASE Crash  BY <1>29 DEF Crash, Unloaded, Nowhere
  <1>30. CASE UNCHANGED vars  BY <1>30 DEF vars
  <1> QED
    BY <1>1, <1>2, <1>3, <1>4, <1>5, <1>6, <1>7, <1>8, <1>9, <1>10, <1>11,
       <1>12, <1>13, <1>14, <1>15, <1>16, <1>17, <1>18, <1>19, <1>20,
       <1>21, <1>22, <1>23, <1>24, <1>25, <1>26, <1>27, <1>28, <1>29, <1>30
       DEF Next, Recover, Serialize

\* Closing a commit log keeps the types of what it changes.
LEMMA CloseTypes ==
  LobTypes /\ i \in Archives /\ CloseCommitLog
      => /\ cmt' \in [Archives -> [exists : BOOLEAN, entries : SUBSET Lobs]]
         /\ log' \in [Archives -> Handles]
         /\ pend' \in [Archives -> SUBSET Lobs]
  <1> SUFFICES ASSUME LobTypes, i \in Archives, CloseCommitLog
               PROVE  /\ cmt' \in [Archives -> [exists  : BOOLEAN,
                                                 entries : SUBSET Lobs]]
                      /\ log' \in [Archives -> Handles]
                      /\ pend' \in [Archives -> SUBSET Lobs]
    OBVIOUS
  <1>1. /\ cmt[i].exists \in BOOLEAN
        /\ cmt[i].entries \cup pend[i] \in SUBSET Lobs
    BY DEF LobTypes
  <1>2. cmt' \in [Archives -> [exists : BOOLEAN, entries : SUBSET Lobs]]
    BY <1>1 DEF LobTypes, CloseCommitLog
  <1>3. log' \in [Archives -> Handles] /\ pend' \in [Archives -> SUBSET Lobs]
    BY DEF LobTypes, CloseCommitLog, Handles
  <1> QED  BY <1>2, <1>3


LEMMA LobTypesStep == Types /\ [Next]_vars => LobTypes'
  <1> SUFFICES ASSUME Types, [Next]_vars PROVE LobTypes'
    OBVIOUS
  <1> USE BoundsAssumption, HomeAssumption DEF files, lobFiles, memory, esn,
     control, counts, Loop, Goto, Advance, At, Dirty, Types, FileTypes,
     LobTypes, CountTypes, Files, Versions, Handles, NoFile
  <1>1. CASE Lock  BY <1>1 DEF Lock, RecoveryStart
  <1>2. CASE Undo  BY <1>2 DEF Undo
  <1>3. CASE Purge  BY <1>3 DEF Purge
  <1>4. CASE PurgeLog  BY <1>4 DEF PurgeLog, NoLog
  <1>5. CASE Drop
    <2>1. UNCHANGED <<cmt, lob, mid, pend, fresh, lobSaved>>
      BY <1>5 DEF Drop
    <2>2. CASE Loop("drop", Archives, "sweep")
      <3>1. UNCHANGED <<log, play>>
        BY <2>2
      <3> QED  BY <2>1, <3>1
    <2>3. CASE ~Loop("drop", Archives, "sweep")
      <3>1. /\ i \in Archives
            /\ log' \in {log, [log EXCEPT ![i] = "none"]}
            /\ play' \in {play, cmt[i].entries \cup pend[i]}
        BY <1>5, <2>3 DEF Drop
      <3>2. log' \in [Archives -> Handles]
        BY <3>1
      <3>3. cmt[i].entries \in SUBSET Lobs /\ pend[i] \in SUBSET Lobs
        BY <3>1
      <3>4. play' \in SUBSET Lobs
        BY <3>1, <3>3
      <3> QED  BY <2>1, <3>2, <3>4
    <2> QED  BY <2>2, <2>3
  <1>6. CASE Replayed  BY <1>6 DEF Replayed, RemoveLog, NoLog
  <1>7. CASE Sweep  BY <1>7 DEF Sweep, Nowhere
  <1>8. CASE Playback  BY <1>8 DEF Playback
  <1>9. ASSUME NEW a \in Archives, Load(a) PROVE LobTypes'
    BY <1>9 DEF Load, Content
  <1>10. ASSUME NEW a \in Archives, Edit(a) PROVE LobTypes'
    BY <1>10 DEF Edit, Touch
  <1>11. ASSUME NEW l \in Lobs, Replace(l) PROVE LobTypes'
    <2>1. Home[l] \in Archives /\ clock + 1 \in Versions
      BY <1>11, HomeAssumption DEF Replace, Touch, Types, CountTypes, Versions
    <2>2. UNCHANGED <<lob, play, lobSaved>>
      BY <1>11 DEF Replace, Touch, control
    <2>3. mid' \in [Lobs -> Files] /\ fresh' \in SUBSET Lobs
      BY <1>11, <2>1 DEF Replace, Types, LobTypes, Files
    <2>4. CASE UNCHANGED <<cmt, log, pend>>
      BY <2>2, <2>3, <2>4 DEF Types, LobTypes
    <2>5. CASE log[Home[l]] # "closed"
      <3>1. cmt' = [cmt EXCEPT ![Home[l]] =
                      [exists  |-> TRUE,
                       entries |-> @.entries \cup pend[Home[l]]]]
        BY <1>11, <2>5 DEF Replace
      <3>2. cmt' \in [Archives -> [exists : BOOLEAN, entries : SUBSET Lobs]]
        BY <3>1, <2>1 DEF Types, LobTypes
      <3>3. log' = [log EXCEPT ![Home[l]] = "open"]
        BY <1>11, <2>5 DEF Replace
      <3>4. pend' = [pend EXCEPT ![Home[l]] = {l}]
        BY <1>11, <2>5 DEF Replace
      <3>5. /\ log' \in [Archives -> Handles]
            /\ pend' \in [Archives -> SUBSET Lobs]
        BY <3>3, <3>4 DEF Types, LobTypes, Handles
      <3> QED
        BY <2>2, <2>3, <3>2, <3>5 DEF Types, LobTypes
    <2> QED
      BY <1>11, <2>4, <2>5 DEF Replace
  <1>12. CASE Age  BY <1>12 DEF Age
  <1>13. CASE Rollback  BY <1>13 DEF Rollback
  <1>14. CASE RollbackOne
    <2>1. UNCHANGED <<lob, play, lobSaved>>
      BY <1>14 DEF RollbackOne, Loop, Goto, Advance, lobFiles
    <2>2. CASE UNCHANGED <<cmt, mid, log, pend, fresh>>
      BY <2>1, <2>2 DEF Types, LobTypes
    <2>3. CASE /\ At("rollback", Dirty)
               /\ ~UNCHANGED <<cmt, mid, log, pend, fresh>>
      <3>1. cmt' = [cmt EXCEPT ![i] = IF log[i] = "open" THEN NoLog ELSE @]
        BY <1>14, <2>3 DEF RollbackOne, Loop, lobFiles, esn
      <3>2. cmt' \in [Archives -> [exists : BOOLEAN, entries : SUBSET Lobs]]
        BY <3>1 DEF Types, LobTypes, NoLog
      <3>3. mid' = [l \in Lobs |-> IF /\ l \in fresh
                                     /\ Home[l] = i
                                     /\ log[i] # "none"
                                    THEN NoFile ELSE mid[l]]
        BY <1>14, <2>3 DEF RollbackOne, Loop, lobFiles, esn
      <3>4. mid' \in [Lobs -> Files]
        BY <3>3 DEF Types, LobTypes, Files
      <3>5. /\ log' = [log EXCEPT ![i] = "none"]
            /\ pend' = [pend EXCEPT ![i] = {}]
            /\ fresh' = fresh \ LobsOf(i)
        BY <1>14, <2>3 DEF RollbackOne, Loop, lobFiles, esn
      <3>6. /\ log' \in [Archives -> Handles]
            /\ pend' \in [Archives -> SUBSET Lobs]
            /\ fresh' \in SUBSET Lobs
        BY <3>5 DEF Types, LobTypes, Handles
      <3> QED
        BY <2>1, <3>2, <3>4, <3>6 DEF Types, LobTypes
    <2> QED  BY <1>14, <2>2, <2>3 DEF RollbackOne, Loop, lobFiles, esn
  <1>15. ASSUME NEW r \in BOOLEAN, Save(r) PROVE LobTypes'
    BY <1>15 DEF Save
  <1>16. CASE Write  BY <1>16 DEF Write
  <1>17. CASE Fill  BY <1>17 DEF Fill
  <1>18. CASE WriteFails  BY <1>18 DEF WriteFails, Fault, Return
  <1>19. CASE Keep
    <2>1. UNCHANGED <<lob, mid, fresh, play, lobSaved>>
      BY <1>19 DEF Keep
    <2>2. \/ UNCHANGED <<cmt, log, pend>>
          \/ i \in Archives /\ CloseCommitLog
      BY <1>19 DEF Keep, Kept
    <2> QED
      BY <2>1, <2>2, CloseTypes
  <1>20. CASE KeepFails
    <2>1. UNCHANGED <<lob, mid, fresh, play, lobSaved>>
      BY <1>20 DEF KeepFails
    <2>2. \/ UNCHANGED <<cmt, log, pend>>
          \/ i \in Archives /\ CloseCommitLog
      BY <1>20 DEF KeepFails, Kept
    <2> QED
      BY <2>1, <2>2, CloseTypes
  <1>21. CASE CloseFails  BY <1>21 DEF CloseFails, Kept, Fault, Return
  <1>22. CASE Swap
    <2>1. UNCHANGED <<cmt, lob, mid, log, pend, fresh, play>>
      BY <1>22 DEF Swap, Loop, Goto, Advance, lobFiles, esn
    <2>2. \/ lobSaved' = lobSaved
          \/ lobSaved' = [l \in Lobs |-> IF l \in fresh /\ mid[l] # NoFile
                                           THEN mid[l] ELSE lobSaved[l]]
      BY <1>22 DEF Swap, Loop
    <2>3. lobSaved' \in [Lobs -> Versions]
      BY <2>2 DEF Types, LobTypes, Files
    <2> QED
      BY <2>1, <2>3 DEF Types, LobTypes
  <1>23. CASE SwapFails  BY <1>23 DEF SwapFails, Fault
  <1>24. CASE CommitESN
    <2>1. i \in Archives /\ UNCHANGED <<lob, mid, fresh, lobSaved>>
      BY <1>24 DEF CommitESN, At, Dirty
    <2>2. CASE log[i] = "none"
      BY <1>24, <2>1, <2>2 DEF CommitESN, Types, LobTypes
    <2>3. CASE log[i] # "none"
      <3>1. play' = cmt[i].entries \cup pend[i] /\ play' \in SUBSET Lobs
        BY <1>24, <2>1, <2>3 DEF CommitESN, Types, LobTypes
      <3>2. cmt' = [cmt EXCEPT ![i] = [exists |-> TRUE, entries |-> play']]
        BY <1>24, <2>3 DEF CommitESN
      <3>3. cmt' \in [Archives -> [exists : BOOLEAN, entries : SUBSET Lobs]]
        BY <3>1, <3>2 DEF Types, LobTypes
      <3>4. /\ log' = [log EXCEPT ![i] = "open"]
            /\ pend' = [pend EXCEPT ![i] = {}]
        BY <1>24, <2>3 DEF CommitESN
      <3>5. /\ log' \in [Archives -> Handles]
            /\ pend' \in [Archives -> SUBSET Lobs]
        BY <3>4 DEF Types, LobTypes, Handles
      <3> QED
        BY <2>1, <3>1, <3>3, <3>5 DEF Types, LobTypes
    <2> QED  BY <2>2, <2>3
  <1>25. CASE SkipClean  BY <1>25 DEF SkipClean, Return
  <1>26. CASE Played  BY <1>26 DEF Played, RemoveLog, NoLog, LobsOf
  <1>27. CASE Unlink  BY <1>27 DEF Unlink, Cleaned
  <1>28. CASE UnlinkFails  BY <1>28 DEF UnlinkFails, Cleaned, Fault, Return
  <1>29. CASE Crash  BY <1>29 DEF Crash, Unloaded, Nowhere
  <1>30. CASE UNCHANGED vars  BY <1>30 DEF vars
  <1> QED
    BY <1>1, <1>2, <1>3, <1>4, <1>5, <1>6, <1>7, <1>8, <1>9, <1>10, <1>11,
       <1>12, <1>13, <1>14, <1>15, <1>16, <1>17, <1>18, <1>19, <1>20,
       <1>21, <1>22, <1>23, <1>24, <1>25, <1>26, <1>27, <1>28, <1>29, <1>30
       DEF Next, Recover, Serialize

LEMMA CountTypesStep == Types /\ [Next]_vars => (CountTypes /\ AtArchive)'
  <1> SUFFICES ASSUME Types, [Next]_vars PROVE (CountTypes /\ AtArchive)'
    OBVIOUS
  <1> USE BoundsAssumption, SizeAssumption DEF files, lobFiles, memory, esn,
     control, counts, Loop, Goto, Advance, At, Dirty, Types, CountTypes,
     AtArchive, Versions, PCs, Archives
  <1>1. CASE Lock  BY <1>1 DEF Lock, RecoveryStart
  <1>2. CASE Undo  BY <1>2 DEF Undo
  <1>3. CASE Purge  BY <1>3 DEF Purge
  <1>4. CASE PurgeLog  BY <1>4 DEF PurgeLog, NoLog
  <1>5. CASE Drop  BY <1>5 DEF Drop
  <1>6. CASE Replayed  BY <1>6 DEF Replayed, RemoveLog, NoLog
  <1>7. CASE Sweep  BY <1>7 DEF Sweep, Nowhere
  <1>8. CASE Playback  BY <1>8 DEF Playback
  <1>9. ASSUME NEW a \in Archives, Load(a) PROVE (CountTypes /\ AtArchive)'
    BY <1>9 DEF Load, Content
  <1>10. ASSUME NEW a \in Archives, Edit(a) PROVE (CountTypes /\ AtArchive)'
    BY <1>10 DEF Edit, Touch
  <1>11. ASSUME NEW l \in Lobs, Replace(l) PROVE (CountTypes /\ AtArchive)'
    BY <1>11 DEF Replace, Touch
  <1>12. CASE Age  BY <1>12 DEF Age
  <1>13. CASE Rollback  BY <1>13 DEF Rollback
  <1>14. CASE RollbackOne
    BY <1>14 DEF RollbackOne, RecoveryStart, NoLog, LobsOf
  <1>15. ASSUME NEW r \in BOOLEAN, Save(r) PROVE (CountTypes /\ AtArchive)'
    BY <1>15 DEF Save
  <1>16. CASE Write  BY <1>16 DEF Write
  <1>17. CASE Fill  BY <1>17 DEF Fill
  <1>18. CASE WriteFails  BY <1>18 DEF WriteFails, Fault, Return
  <1>19. CASE Keep  BY <1>19 DEF Keep, Kept, CloseCommitLog, KeepFile
  <1>20. CASE KeepFails
    BY <1>20 DEF KeepFails, Kept, CloseCommitLog, KeepFile, Fault
  <1>21. CASE CloseFails  BY <1>21 DEF CloseFails, Kept, Fault, Return
  <1>22. CASE Swap  BY <1>22 DEF Swap
  <1>23. CASE SwapFails  BY <1>23 DEF SwapFails, Fault
  <1>24. CASE CommitESN  BY <1>24 DEF CommitESN
  <1>25. CASE SkipClean  BY <1>25 DEF SkipClean, Return
  <1>26. CASE Played  BY <1>26 DEF Played, RemoveLog, NoLog, LobsOf
  <1>27. CASE Unlink  BY <1>27 DEF Unlink, Cleaned
  <1>28. CASE UnlinkFails  BY <1>28 DEF UnlinkFails, Cleaned, Fault, Return
  <1>29. CASE Crash  BY <1>29 DEF Crash, Unloaded, Nowhere
  <1>30. CASE UNCHANGED vars  BY <1>30 DEF vars
  <1> QED
    BY <1>1, <1>2, <1>3, <1>4, <1>5, <1>6, <1>7, <1>8, <1>9, <1>10, <1>11,
       <1>12, <1>13, <1>14, <1>15, <1>16, <1>17, <1>18, <1>19, <1>20,
       <1>21, <1>22, <1>23, <1>24, <1>25, <1>26, <1>27, <1>28, <1>29, <1>30
       DEF Next, Recover, Serialize

\* The ".temp" files of a save are complete from its first rename on.
LEMMA SaveInvStep == Types /\ [Next]_vars => SaveInv'
  <1> SUFFICES ASSUME Types, [Next]_vars PROVE SaveInv'
    OBVIOUS
  <1> USE BoundsAssumption DEF files, lobFiles, memory, esn, control, counts,
     Loop, Goto, Advance, At, Dirty, Types, FileTypes, CountTypes, AtArchive,
     SaveInv, Complete, Files, Versions, NoFile, Torn, Dirty, Archives
  <1>1. CASE Lock  BY <1>1 DEF Lock, RecoveryStart
  <1>2. CASE Undo  BY <1>2 DEF Undo
  <1>3. CASE Purge  BY <1>3 DEF Purge
  <1>4. CASE PurgeLog  BY <1>4 DEF PurgeLog, NoLog
  <1>5. CASE Drop  BY <1>5 DEF Drop
  <1>6. CASE Replayed  BY <1>6 DEF Replayed, RemoveLog, NoLog
  <1>7. CASE Sweep  BY <1>7 DEF Sweep, Nowhere
  <1>8. CASE Playback  BY <1>8 DEF Playback
  <1>9. ASSUME NEW a \in Archives, Load(a) PROVE SaveInv'
    BY <1>9 DEF Load, Content
  <1>10. ASSUME NEW a \in Archives, Edit(a) PROVE SaveInv'
    BY <1>10 DEF Edit, Touch
  <1>11. ASSUME NEW l \in Lobs, Replace(l) PROVE SaveInv'
    <2>1. Home[l] \in Archives /\ Touch(Home[l])
      BY <1>11, HomeAssumption DEF Replace
    <2>2. QED
      BY <2>1 DEF Touch, files, control, counts, Types, FileTypes,
         CountTypes, AtArchive, SaveInv, Complete, Files, Versions,
         NoFile, Torn, Dirty, Archives
  <1>12. CASE Age  BY <1>12 DEF Age
  <1>13. CASE Rollback  BY <1>13 DEF Rollback
  <1>14. CASE RollbackOne
    BY <1>14 DEF RollbackOne, RecoveryStart, NoLog, LobsOf
  <1>15. ASSUME NEW r \in BOOLEAN, Save(r) PROVE SaveInv'
    BY <1>15 DEF Save
  <1>16. CASE Write
    <2>1. CASE Loop("write", Dirty, "keep")
      <3>1. /\ pc = "write" /\ UNCHANGED <<temp, mem, dirty>>
            /\ \/ i > N /\ pc' = "keep"
               \/ i <= N /\ i \notin Dirty /\ i' = i + 1 /\ pc' = pc
        BY <2>1 DEF Loop, Goto, Advance, files, memory
      <3> QED
        BY <3>1, SizeAssumption DEF Types, FileTypes, CountTypes,
           AtArchive, SaveInv, Complete, Files, Versions, NoFile, Torn,
           Dirty, Archives
    <2>2. CASE At("write", Dirty) /\ ~Loop("write", Dirty, "keep")
      <3>1. /\ temp' = [temp EXCEPT ![i] = Torn] /\ i' = i /\ i \in Dirty
            /\ pc' = "fill" /\ pc = "write" /\ UNCHANGED <<mem, dirty>>
        BY <1>16, <2>2 DEF Write, At, memory
      <3> QED
        BY <3>1 DEF Types, FileTypes, CountTypes, AtArchive, SaveInv,
           Complete, Files, Versions, NoFile, Torn, Dirty, Archives
    <2> QED  BY <1>16, <2>1, <2>2 DEF Write
  <1>17. CASE Fill  BY <1>17 DEF Fill
  <1>18. CASE WriteFails  BY <1>18 DEF WriteFails, Fault, Return
  <1>19. CASE Keep  BY <1>19 DEF Keep, Kept, CloseCommitLog, KeepFile
  <1>20. CASE KeepFails
    BY <1>20 DEF KeepFails, Kept, CloseCommitLog, KeepFile, Fault
  <1>21. CASE CloseFails  BY <1>21 DEF CloseFails, Kept, Fault, Return
  <1>22. CASE Swap
    <2>1. CASE Loop("swap", Dirty, "commitESN")
      <3>1. /\ pc = "swap" /\ UNCHANGED <<temp, mem, dirty>>
            /\ \/ i > N /\ pc' = "commitESN"
               \/ i <= N /\ i \notin Dirty /\ i' = i + 1 /\ pc' = pc
        BY <2>1 DEF Loop, Goto, Advance, files, memory
      <3> QED
        BY <3>1, SizeAssumption DEF Types, FileTypes, CountTypes,
           AtArchive, SaveInv, Complete, Files, Versions, NoFile, Torn,
           Dirty, Archives
    <2>2. CASE At("swap", Dirty) /\ ~Loop("swap", Dirty, "commitESN")
      <3>1. /\ temp' = [temp EXCEPT ![i] = NoFile] /\ i' = i + 1
            /\ pc' = "swap" /\ pc = "swap" /\ UNCHANGED <<mem, dirty>>
        BY <1>22, <2>2 DEF Swap, At, Advance, memory
      <3> QED
        BY <3>1 DEF Types, FileTypes, CountTypes, AtArchive, SaveInv,
           Complete, Files, Versions, NoFile, Torn, Dirty, Archives
    <2> QED  BY <1>22, <2>1, <2>2 DEF Swap
  <1>23. CASE SwapFails  BY <1>23 DEF SwapFails, Fault
  <1>24. CASE CommitESN  BY <1>24 DEF CommitESN
  <1>25. CASE SkipClean  BY <1>25 DEF SkipClean, Return
  <1>26. CASE Played  BY <1>26 DEF Played, RemoveLog, NoLog, LobsOf
  <1>27. CASE Unlink  BY <1>27 DEF Unlink, Cleaned
  <1>28. CASE UnlinkFails  BY <1>28 DEF UnlinkFails, Cleaned, Fault, Return
  <1>29. CASE Crash  BY <1>29 DEF Crash, Unloaded, Nowhere
  <1>30. CASE UNCHANGED vars  BY <1>30 DEF vars
  <1> QED
    BY <1>1, <1>2, <1>3, <1>4, <1>5, <1>6, <1>7, <1>8, <1>9, <1>10, <1>11,
       <1>12, <1>13, <1>14, <1>15, <1>16, <1>17, <1>18, <1>19, <1>20,
       <1>21, <1>22, <1>23, <1>24, <1>25, <1>26, <1>27, <1>28, <1>29, <1>30
       DEF Next, Recover, Serialize
-----------------------------------------------------------------------------
\* Where every archive has a file from the start.

Missing(a) == orig[a] = NoFile

\* What is loaded came from a file.
ExistInv == \A a \in Archives : mem[a] # NoFile => exist[a]

\* An archive without its file has the two others, so that a recovery undoes
\* the save.
UndoneInv ==
    \A a \in Archives : Missing(a) => bak[a] # NoFile /\ temp[a] # NoFile

\* Where a file may be missing.
PhaseInv ==
    /\ pc \in {"purge", "purgeLog", "drop", "replay", "sweep"} =>
           \A a \in Archives : ~Missing(a)
    /\ pc = "undo" => \A a \in Archives : Missing(a) => a >= i
    /\ pc \in {"open", "write", "fill", "keep", "swap"} =>
           \A a \in Archives : Missing(a) => dirty[a]
    /\ pc = "swap" => \A a \in Archives : Missing(a) => a >= i

\* After a rename that failed, the loop over the ".bak" files stops, at the
\* latest, at an archive that comes before those that lack their file.
StopsAt(k, a) == k < a /\ k >= i /\ dirty[k] /\ exist[k] /\ bak[k] = NoFile
CommitInv ==
    pc \in {"commitESN", "play", "unlink"} =>
        /\ pc # "commitESN" => dirty[i]
        /\ \A a \in Archives :
               Missing(a) => dirty[a] /\ \E k \in Archives : StopsAt(k, a)

Survival == ExistInv /\ UndoneInv /\ PhaseInv /\ CommitInv

\* Every action keeps Survival: one lemma per part of it.
LEMMA ExistInvStep == Types /\ Survival /\ [Next]_vars => ExistInv'
  <1> SUFFICES ASSUME Types, Survival, [Next]_vars PROVE ExistInv'
    OBVIOUS
  <1> USE SizeAssumption, BoundsAssumption DEF files, lobFiles, memory, esn,
     control, counts, Loop, Goto, Advance, At, Dirty, FileTypes, CountTypes,
     AtArchive, Types, SaveInv, Complete, Files, Versions, NoFile, Torn,
     Dirty, Archives, Survival, ExistInv, UndoneInv, PhaseInv, CommitInv,
     Missing, StopsAt
  <1>1. CASE Lock  BY <1>1 DEF Lock, RecoveryStart
  <1>2. CASE Undo  BY <1>2 DEF Undo
  <1>3. CASE Purge  BY <1>3 DEF Purge
  <1>4. CASE PurgeLog  BY <1>4 DEF PurgeLog, NoLog
  <1>5. CASE Drop  BY <1>5 DEF Drop
  <1>6. CASE Replayed  BY <1>6 DEF Replayed, RemoveLog, NoLog
  <1>7. CASE Sweep  BY <1>7 DEF Sweep, Nowhere
  <1>8. CASE Playback  BY <1>8 DEF Playback
  <1>9. ASSUME NEW a \in Archives, Load(a) PROVE ExistInv'
    BY <1>9 DEF Load, Content
  <1>10. ASSUME NEW a \in Archives, Edit(a) PROVE ExistInv'
    BY <1>10 DEF Edit, Touch
  <1>11. ASSUME NEW l \in Lobs, Replace(l) PROVE ExistInv'
    <2>1. Home[l] \in Archives /\ Touch(Home[l])
      BY <1>11, HomeAssumption DEF Replace
    <2>2. QED
      BY <2>1 DEF Touch, files, control, counts, FileTypes, CountTypes,
         AtArchive, Types, SaveInv, Complete, Files, Versions, NoFile,
         Torn, Dirty, Archives, Survival, ExistInv, UndoneInv, PhaseInv,
         CommitInv, Missing, StopsAt
  <1>12. CASE Age  BY <1>12 DEF Age
  <1>13. CASE Rollback  BY <1>13 DEF Rollback
  <1>14. CASE RollbackOne
    BY <1>14 DEF RollbackOne, RecoveryStart, NoLog, LobsOf
  <1>15. ASSUME NEW r \in BOOLEAN, Save(r) PROVE ExistInv'
    BY <1>15 DEF Save
  <1>16. CASE Write  BY <1>16 DEF Write
  <1>17. CASE Fill  BY <1>17 DEF Fill
  <1>18. CASE WriteFails  BY <1>18 DEF WriteFails, Fault, Return
  <1>19. CASE Keep  BY <1>19 DEF Keep, Kept, CloseCommitLog, KeepFile
  <1>20. CASE KeepFails
    BY <1>20 DEF KeepFails, Kept, CloseCommitLog, KeepFile, Fault
  <1>21. CASE CloseFails  BY <1>21 DEF CloseFails, Kept, Fault, Return
  <1>22. CASE Swap  BY <1>22 DEF Swap
  <1>23. CASE SwapFails  BY <1>23 DEF SwapFails, Fault
  <1>24. CASE CommitESN  BY <1>24 DEF CommitESN
  <1>25. CASE SkipClean  BY <1>25 DEF SkipClean, Return
  <1>26. CASE Played  BY <1>26 DEF Played, RemoveLog, NoLog, LobsOf
  <1>27. CASE Unlink  BY <1>27 DEF Unlink, Cleaned
  <1>28. CASE UnlinkFails  BY <1>28 DEF UnlinkFails, Cleaned, Fault, Return
  <1>29. CASE Crash  BY <1>29 DEF Crash, Unloaded, Nowhere
  <1>30. CASE UNCHANGED vars  BY <1>30 DEF vars
  <1> QED
    BY <1>1, <1>2, <1>3, <1>4, <1>5, <1>6, <1>7, <1>8, <1>9, <1>10, <1>11,
       <1>12, <1>13, <1>14, <1>15, <1>16, <1>17, <1>18, <1>19, <1>20,
       <1>21, <1>22, <1>23, <1>24, <1>25, <1>26, <1>27, <1>28, <1>29, <1>30
       DEF Next, Recover, Serialize

LEMMA UndoneInvStep == Types /\ Survival /\ [Next]_vars => UndoneInv'
  <1> SUFFICES ASSUME Types, Survival, [Next]_vars PROVE UndoneInv'
    OBVIOUS
  <1> USE SizeAssumption, BoundsAssumption DEF files, lobFiles, memory, esn,
     control, counts, Loop, Goto, Advance, At, Dirty, FileTypes, CountTypes,
     AtArchive, Types, SaveInv, Complete, Files, Versions, NoFile, Torn,
     Dirty, Archives, Survival, ExistInv, UndoneInv, PhaseInv, CommitInv,
     Missing, StopsAt
  <1>1. CASE Lock  BY <1>1 DEF Lock, RecoveryStart
  <1>2. CASE Undo  BY <1>2 DEF Undo
  <1>3. CASE Purge  BY <1>3 DEF Purge
  <1>4. CASE PurgeLog  BY <1>4 DEF PurgeLog, NoLog
  <1>5. CASE Drop  BY <1>5 DEF Drop
  <1>6. CASE Replayed  BY <1>6 DEF Replayed, RemoveLog, NoLog
  <1>7. CASE Sweep  BY <1>7 DEF Sweep, Nowhere
  <1>8. CASE Playback  BY <1>8 DEF Playback
  <1>9. ASSUME NEW a \in Archives, Load(a) PROVE UndoneInv'
    BY <1>9 DEF Load, Content
  <1>10. ASSUME NEW a \in Archives, Edit(a) PROVE UndoneInv'
    BY <1>10 DEF Edit, Touch
  <1>11. ASSUME NEW l \in Lobs, Replace(l) PROVE UndoneInv'
    <2>1. Home[l] \in Archives /\ Touch(Home[l])
      BY <1>11, HomeAssumption DEF Replace
    <2>2. QED
      BY <2>1 DEF Touch, files, control, counts, FileTypes, CountTypes,
         AtArchive, Types, SaveInv, Complete, Files, Versions, NoFile,
         Torn, Dirty, Archives, Survival, ExistInv, UndoneInv, PhaseInv,
         CommitInv, Missing, StopsAt
  <1>12. CASE Age  BY <1>12 DEF Age
  <1>13. CASE Rollback  BY <1>13 DEF Rollback
  <1>14. CASE RollbackOne
    BY <1>14 DEF RollbackOne, RecoveryStart, NoLog, LobsOf
  <1>15. ASSUME NEW r \in BOOLEAN, Save(r) PROVE UndoneInv'
    BY <1>15 DEF Save
  <1>16. CASE Write  BY <1>16 DEF Write
  <1>17. CASE Fill  BY <1>17 DEF Fill
  <1>18. CASE WriteFails  BY <1>18 DEF WriteFails, Fault, Return
  <1>19. CASE Keep
    <2>1. CASE UNCHANGED <<orig, bak, temp>>
      BY <2>1 DEF Survival, UndoneInv, Missing
    <2>2. CASE ~UNCHANGED <<orig, bak, temp>>
      <3>1. /\ pc = "keep" /\ i \in Dirty /\ temp' = temp
            /\ orig' = [orig EXCEPT ![i] = NoFile]
            /\ bak' = [bak EXCEPT ![i] = orig[i]] /\ orig[i] # NoFile
        BY <1>19, <2>2 DEF Keep, Loop, files, At, Kept, KeepFile
      <3> QED
        BY <3>1 DEF FileTypes, CountTypes, AtArchive, Types, SaveInv,
           Complete, Files, Versions, NoFile, Torn, Dirty, Archives,
           Survival, ExistInv, UndoneInv, PhaseInv, CommitInv, Missing,
           StopsAt
    <2> QED  BY <2>1, <2>2
  <1>20. CASE KeepFails
    <2>1. CASE UNCHANGED <<orig, bak>>
      <3>1. temp' = temp
        BY <1>20 DEF KeepFails
      <3> QED
        BY <2>1, <3>1 DEF Survival, UndoneInv, Missing
    <2>2. CASE ~UNCHANGED <<orig, bak>>
      <3>1. /\ pc = "keep" /\ i \in Dirty /\ temp' = temp
            /\ orig' = [orig EXCEPT ![i] = NoFile]
            /\ bak' = [bak EXCEPT ![i] = orig[i]] /\ orig[i] # NoFile
        BY <1>20, <2>2 DEF KeepFails, At, Kept, KeepFile
      <3> QED
        BY <3>1 DEF FileTypes, CountTypes, AtArchive, Types, SaveInv,
           Complete, Files, Versions, NoFile, Torn, Dirty, Archives,
           Survival, ExistInv, UndoneInv, PhaseInv, CommitInv, Missing,
           StopsAt
    <2> QED  BY <2>1, <2>2
  <1>21. CASE CloseFails  BY <1>21 DEF CloseFails, Kept, Fault, Return
  <1>22. CASE Swap  BY <1>22 DEF Swap
  <1>23. CASE SwapFails  BY <1>23 DEF SwapFails, Fault
  <1>24. CASE CommitESN  BY <1>24 DEF CommitESN
  <1>25. CASE SkipClean  BY <1>25 DEF SkipClean, Return
  <1>26. CASE Played  BY <1>26 DEF Played, RemoveLog, NoLog, LobsOf
  <1>27. CASE Unlink  BY <1>27 DEF Unlink, Cleaned
  <1>28. CASE UnlinkFails  BY <1>28 DEF UnlinkFails, Cleaned, Fault, Return
  <1>29. CASE Crash  BY <1>29 DEF Crash, Unloaded, Nowhere
  <1>30. CASE UNCHANGED vars  BY <1>30 DEF vars
  <1> QED
    BY <1>1, <1>2, <1>3, <1>4, <1>5, <1>6, <1>7, <1>8, <1>9, <1>10, <1>11,
       <1>12, <1>13, <1>14, <1>15, <1>16, <1>17, <1>18, <1>19, <1>20,
       <1>21, <1>22, <1>23, <1>24, <1>25, <1>26, <1>27, <1>28, <1>29, <1>30
       DEF Next, Recover, Serialize

LEMMA PhaseInvStep == Types /\ Survival /\ [Next]_vars => PhaseInv'
  <1> SUFFICES ASSUME Types, Survival, [Next]_vars PROVE PhaseInv'
    OBVIOUS
  <1> USE SizeAssumption, BoundsAssumption DEF files, lobFiles, memory, esn,
     control, counts, Loop, Goto, Advance, At, Dirty, FileTypes, CountTypes,
     AtArchive, Types, SaveInv, Complete, Files, Versions, NoFile, Torn,
     Dirty, Archives, Survival, ExistInv, UndoneInv, PhaseInv, CommitInv,
     Missing, StopsAt
  <1>1. CASE Lock  BY <1>1 DEF Lock, RecoveryStart
  <1>2. CASE Undo
    <2>1. CASE Loop("undo", {a \in Archives : bak[a] # NoFile}, "purge")
      <3>1. /\ pc = "undo" /\ UNCHANGED <<orig, bak, temp, dirty>>
            /\ \/ i > N /\ pc' = "purge" /\ i' = 1
               \/ i <= N /\ i \notin {a \in Archives : bak[a] # NoFile}
                  /\ pc' = pc /\ i' = i + 1
        BY <2>1
      <3> QED  BY <3>1
    <2>2. CASE ~Loop("undo", {a \in Archives : bak[a] # NoFile}, "purge")
      <3>1. /\ pc = "undo" /\ pc' = pc /\ i' = i + 1 /\ i \in Archives
            /\ bak[i] # NoFile /\ orig' = [orig EXCEPT ![i] = bak[i]]
        BY <1>2, <2>2 DEF Undo
      <3> QED  BY <3>1
    <2> QED  BY <2>1, <2>2
  <1>3. CASE Purge  BY <1>3 DEF Purge
  <1>4. CASE PurgeLog  BY <1>4 DEF PurgeLog, NoLog
  <1>5. CASE Drop  BY <1>5 DEF Drop
  <1>6. CASE Replayed  BY <1>6 DEF Replayed, RemoveLog, NoLog
  <1>7. CASE Sweep  BY <1>7 DEF Sweep, Nowhere
  <1>8. CASE Playback  BY <1>8 DEF Playback
  <1>9. ASSUME NEW a \in Archives, Load(a) PROVE PhaseInv'
    BY <1>9 DEF Load, Content
  <1>10. ASSUME NEW a \in Archives, Edit(a) PROVE PhaseInv'
    BY <1>10 DEF Edit, Touch
  <1>11. ASSUME NEW l \in Lobs, Replace(l) PROVE PhaseInv'
    <2>1. Home[l] \in Archives /\ Touch(Home[l])
      BY <1>11, HomeAssumption DEF Replace
    <2>2. QED
      BY <2>1 DEF Touch, files, control, counts, FileTypes, CountTypes,
         AtArchive, Types, SaveInv, Complete, Files, Versions, NoFile,
         Torn, Dirty, Archives, Survival, ExistInv, UndoneInv, PhaseInv,
         CommitInv, Missing, StopsAt
  <1>12. CASE Age  BY <1>12 DEF Age
  <1>13. CASE Rollback  BY <1>13 DEF Rollback
  <1>14. CASE RollbackOne
    <2>1. CASE Loop("rollback", Dirty, RecoveryStart)
      <3>1. /\ pc = "rollback" /\ UNCHANGED <<orig, dirty>>
            /\ (pc' = RecoveryStart /\ i' = 1) \/ pc' = pc
        BY <2>1 DEF Loop, Goto, Advance, files, memory
      <3>2. /\ (\E a \in Archives : Missing(a)) => RecoveryStart = "undo"
            /\ RecoveryStart \in {"undo", "purge", "drop", "sweep"}
        BY DEF RecoveryStart, Survival, UndoneInv
      <3> QED
        BY <3>1, <3>2 DEF PhaseInv, Missing, Archives
    <2>2. CASE ~Loop("rollback", Dirty, RecoveryStart)
      <3>1. pc = "rollback" /\ pc' = pc
        BY <1>14, <2>2 DEF RollbackOne, At, Advance
      <3> QED
        BY <3>1 DEF PhaseInv
    <2> QED  BY <2>1, <2>2
  <1>15. ASSUME NEW r \in BOOLEAN, Save(r) PROVE PhaseInv'
    BY <1>15 DEF Save
  <1>16. CASE Write  BY <1>16 DEF Write
  <1>17. CASE Fill  BY <1>17 DEF Fill
  <1>18. CASE WriteFails  BY <1>18 DEF WriteFails, Fault, Return
  <1>19. CASE Keep
    <2>1. CASE Loop("keep", Kept, "swap")
      <3>1. /\ pc = "keep" /\ UNCHANGED <<orig, dirty>>
            /\ (pc' = "swap" /\ i' = 1) \/ pc' = pc
        BY <2>1 DEF Loop, Goto, Advance, files, memory
      <3> QED
        BY <3>1 DEF Survival, PhaseInv, Missing, Archives, PCs
    <2>2. CASE ~Loop("keep", Kept, "swap")
      <3>1. /\ pc = "keep" /\ pc' = "keep" /\ dirty' = dirty
            /\ i \in Dirty /\ orig' = [orig EXCEPT ![i] = NoFile]
        BY <1>19, <2>2 DEF Keep, At, Kept, Advance, KeepFile, memory
      <3> QED
        BY <3>1 DEF FileTypes, CountTypes, AtArchive, Types, SaveInv,
           Complete, Files, Versions, NoFile, Torn, Dirty, Archives,
           Survival, ExistInv, UndoneInv, PhaseInv, CommitInv, Missing,
           StopsAt
    <2> QED  BY <2>1, <2>2
  <1>20. CASE KeepFails
    <2>1. /\ pc = "keep" /\ i \in Dirty /\ pc' = "swap" /\ i' = 1
          /\ dirty' = dirty
          /\ orig' = orig \/ orig' = [orig EXCEPT ![i] = NoFile]
      BY <1>20 DEF KeepFails, Kept, KeepFile
    <2> QED  BY <2>1
  <1>21. CASE CloseFails  BY <1>21 DEF CloseFails, Kept, Fault, Return
  <1>22. CASE Swap
    <2>1. CASE Loop("swap", Dirty, "commitESN")
      <3>1. /\ pc = "swap" /\ UNCHANGED <<orig, bak, temp, dirty, mem>>
            /\ \/ i > N /\ pc' = "commitESN" /\ i' = 1
               \/ i <= N /\ ~dirty[i] /\ pc' = pc /\ i' = i + 1
        BY <2>1
      <3> QED  BY <3>1
    <2>2. CASE ~Loop("swap", Dirty, "commitESN")
      <3>1. /\ pc = "swap" /\ i \in Dirty /\ pc' = pc /\ i' = i + 1
            /\ UNCHANGED <<bak, dirty, mem>>
            /\ orig' = [orig EXCEPT ![i] = temp[i]]
            /\ temp' = [temp EXCEPT ![i] = NoFile]
        BY <1>22, <2>2 DEF Swap
      <3> QED  BY <3>1
    <2> QED  BY <2>1, <2>2
  <1>23. CASE SwapFails  BY <1>23 DEF SwapFails, Fault
  <1>24. CASE CommitESN  BY <1>24 DEF CommitESN
  <1>25. CASE SkipClean  BY <1>25 DEF SkipClean, Return
  <1>26. CASE Played  BY <1>26 DEF Played, RemoveLog, NoLog, LobsOf
  <1>27. CASE Unlink  BY <1>27 DEF Unlink, Cleaned
  <1>28. CASE UnlinkFails  BY <1>28 DEF UnlinkFails, Cleaned, Fault, Return
  <1>29. CASE Crash  BY <1>29 DEF Crash, Unloaded, Nowhere
  <1>30. CASE UNCHANGED vars  BY <1>30 DEF vars
  <1> QED
    BY <1>1, <1>2, <1>3, <1>4, <1>5, <1>6, <1>7, <1>8, <1>9, <1>10, <1>11,
       <1>12, <1>13, <1>14, <1>15, <1>16, <1>17, <1>18, <1>19, <1>20,
       <1>21, <1>22, <1>23, <1>24, <1>25, <1>26, <1>27, <1>28, <1>29, <1>30
       DEF Next, Recover, Serialize

LEMMA CommitInvStep == Types /\ Survival /\ [Next]_vars => CommitInv'
  <1> SUFFICES ASSUME Types, Survival, [Next]_vars PROVE CommitInv'
    OBVIOUS
  <1> USE SizeAssumption, BoundsAssumption DEF files, lobFiles, memory, esn,
     control, counts, Loop, Goto, Advance, At, Dirty, FileTypes, CountTypes,
     AtArchive, Types, SaveInv, Complete, Files, Versions, NoFile, Torn,
     Dirty, Archives, Survival, ExistInv, UndoneInv, PhaseInv, CommitInv,
     Missing, StopsAt
  <1>1. CASE Lock  BY <1>1 DEF Lock, RecoveryStart
  <1>2. CASE Undo  BY <1>2 DEF Undo
  <1>3. CASE Purge  BY <1>3 DEF Purge
  <1>4. CASE PurgeLog  BY <1>4 DEF PurgeLog, NoLog
  <1>5. CASE Drop  BY <1>5 DEF Drop
  <1>6. CASE Replayed  BY <1>6 DEF Replayed, RemoveLog, NoLog
  <1>7. CASE Sweep  BY <1>7 DEF Sweep, Nowhere
  <1>8. CASE Playback  BY <1>8 DEF Playback
  <1>9. ASSUME NEW a \in Archives, Load(a) PROVE CommitInv'
    BY <1>9 DEF Load, Content
  <1>10. ASSUME NEW a \in Archives, Edit(a) PROVE CommitInv'
    BY <1>10 DEF Edit, Touch
  <1>11. ASSUME NEW l \in Lobs, Replace(l) PROVE CommitInv'
    <2>1. Home[l] \in Archives /\ Touch(Home[l])
      BY <1>11, HomeAssumption DEF Replace
    <2>2. QED
      BY <2>1 DEF Touch, files, control, counts, FileTypes, CountTypes,
         AtArchive, Types, SaveInv, Complete, Files, Versions, NoFile,
         Torn, Dirty, Archives, Survival, ExistInv, UndoneInv, PhaseInv,
         CommitInv, Missing, StopsAt
  <1>12. CASE Age  BY <1>12 DEF Age
  <1>13. CASE Rollback  BY <1>13 DEF Rollback
  <1>14. CASE RollbackOne
    BY <1>14 DEF RollbackOne, RecoveryStart, NoLog, LobsOf
  <1>15. ASSUME NEW r \in BOOLEAN, Save(r) PROVE CommitInv'
    BY <1>15 DEF Save
  <1>16. CASE Write  BY <1>16 DEF Write
  <1>17. CASE Fill  BY <1>17 DEF Fill
  <1>18. CASE WriteFails  BY <1>18 DEF WriteFails, Fault, Return
  <1>19. CASE Keep  BY <1>19 DEF Keep, Kept, CloseCommitLog, KeepFile
  <1>20. CASE KeepFails
    BY <1>20 DEF KeepFails, Kept, CloseCommitLog, KeepFile, Fault
  <1>21. CASE CloseFails  BY <1>21 DEF CloseFails, Kept, Fault, Return
  <1>22. CASE Swap  BY <1>22 DEF Swap
  <1>23. CASE SwapFails  BY <1>23 DEF SwapFails, Fault
  <1>24. CASE CommitESN  BY <1>24 DEF CommitESN
  <1>25. CASE SkipClean  BY <1>25 DEF SkipClean, Return
  <1>26. CASE Played  BY <1>26 DEF Played, RemoveLog, NoLog, LobsOf
  <1>27. CASE Unlink  BY <1>27 DEF Unlink, Cleaned
  <1>28. CASE UnlinkFails  BY <1>28 DEF UnlinkFails, Cleaned, Fault, Return
  <1>29. CASE Crash  BY <1>29 DEF Crash, Unloaded, Nowhere
  <1>30. CASE UNCHANGED vars  BY <1>30 DEF vars
  <1> QED
    BY <1>1, <1>2, <1>3, <1>4, <1>5, <1>6, <1>7, <1>8, <1>9, <1>10, <1>11,
       <1>12, <1>13, <1>14, <1>15, <1>16, <1>17, <1>18, <1>19, <1>20,
       <1>21, <1>22, <1>23, <1>24, <1>25, <1>26, <1>27, <1>28, <1>29, <1>30
       DEF Next, Recover, Serialize

-----------------------------------------------------------------------------
\* What the files of the dirty archives hold in a save: it was written to
\* the ".temp" file, and the renamed ones have it as their file.  In the loop
\* over the ".bak" files an archive whose file is not what is loaded is not
\* passed: that archive, or one before it, has no ".bak" file.
Holds(a) == temp[a] = mem[a]
StopsBy(k, a) == k <= a /\ k >= i /\ dirty[k] /\ exist[k] /\ bak[k] = NoFile

WrittenInv ==
    /\ pc \in {"write", "fill"} =>
           \A a \in Archives : dirty[a] /\ a < i => Holds(a)
    /\ pc = "keep" => \A a \in Archives : dirty[a] => Holds(a)
    /\ pc = "swap" => \A a \in Archives : dirty[a] /\ a >= i => Holds(a)

RenamedInv ==
    /\ pc = "swap" =>
           \A a \in Archives : dirty[a] /\ a < i => orig[a] = mem[a]
    /\ pc \in {"commitESN", "play", "unlink"} =>
           \A a \in Archives : dirty[a] =>
               \/ orig[a] = mem[a]
               \/ \E k \in Archives : StopsBy(k, a)

CleanInv ==
    pc \in {"commitESN", "play", "unlink"} =>
        \A a \in Archives : a < i => ~dirty[a]

Saving == WrittenInv /\ RenamedInv /\ CleanInv

\* Every action keeps Saving: one lemma per part of it.
LEMMA WrittenInvStep ==
    Types /\ Survival /\ Saving /\ [Next]_vars => WrittenInv'
  <1> SUFFICES ASSUME Types, Survival, Saving, [Next]_vars PROVE WrittenInv'
    OBVIOUS
  <1> USE SizeAssumption, BoundsAssumption DEF files, lobFiles, memory, esn,
     control, counts, Loop, Goto, Advance, At, Dirty, FileTypes, CountTypes,
     AtArchive, Types, SaveInv, Complete, Files, Versions, NoFile, Torn,
     Dirty, Archives, Saving, WrittenInv, Holds, RenamedInv, StopsBy,
     CleanInv, Survival, ExistInv, UndoneInv, CommitInv, Missing
  <1>1. CASE Lock  BY <1>1 DEF Lock, RecoveryStart
  <1>2. CASE Undo  BY <1>2 DEF Undo
  <1>3. CASE Purge  BY <1>3 DEF Purge
  <1>4. CASE PurgeLog  BY <1>4 DEF PurgeLog, NoLog
  <1>5. CASE Drop  BY <1>5 DEF Drop
  <1>6. CASE Replayed  BY <1>6 DEF Replayed, RemoveLog, NoLog
  <1>7. CASE Sweep  BY <1>7 DEF Sweep, Nowhere
  <1>8. CASE Playback  BY <1>8 DEF Playback
  <1>9. ASSUME NEW a \in Archives, Load(a) PROVE WrittenInv'
    BY <1>9 DEF Load, Content
  <1>10. ASSUME NEW a \in Archives, Edit(a) PROVE WrittenInv'
    BY <1>10 DEF Edit, Touch
  <1>11. ASSUME NEW l \in Lobs, Replace(l) PROVE WrittenInv'
    <2>1. Home[l] \in Archives /\ Touch(Home[l])
      BY <1>11, HomeAssumption DEF Replace
    <2>2. QED
      BY <2>1 DEF Touch, files, control, counts, FileTypes, CountTypes,
         AtArchive, Types, SaveInv, Complete, Files, Versions, NoFile,
         Torn, Dirty, Archives, Saving, WrittenInv, Holds, RenamedInv,
         StopsBy, CleanInv, Survival, ExistInv, UndoneInv, CommitInv,
         Missing
  <1>12. CASE Age  BY <1>12 DEF Age
  <1>13. CASE Rollback  BY <1>13 DEF Rollback
  <1>14. CASE RollbackOne
    BY <1>14 DEF RollbackOne, RecoveryStart, NoLog, LobsOf
  <1>15. ASSUME NEW r \in BOOLEAN, Save(r) PROVE WrittenInv'
    BY <1>15 DEF Save
  <1>16. CASE Write  BY <1>16 DEF Write
  <1>17. CASE Fill  BY <1>17 DEF Fill
  <1>18. CASE WriteFails  BY <1>18 DEF WriteFails, Fault, Return
  <1>19. CASE Keep  BY <1>19 DEF Keep, Kept, CloseCommitLog, KeepFile
  <1>20. CASE KeepFails
    BY <1>20 DEF KeepFails, Kept, CloseCommitLog, KeepFile, Fault
  <1>21. CASE CloseFails  BY <1>21 DEF CloseFails, Kept, Fault, Return
  <1>22. CASE Swap  BY <1>22 DEF Swap
  <1>23. CASE SwapFails  BY <1>23 DEF SwapFails, Fault
  <1>24. CASE CommitESN  BY <1>24 DEF CommitESN
  <1>25. CASE SkipClean  BY <1>25 DEF SkipClean, Return
  <1>26. CASE Played  BY <1>26 DEF Played, RemoveLog, NoLog, LobsOf
  <1>27. CASE Unlink  BY <1>27 DEF Unlink, Cleaned
  <1>28. CASE UnlinkFails  BY <1>28 DEF UnlinkFails, Cleaned, Fault, Return
  <1>29. CASE Crash  BY <1>29 DEF Crash, Unloaded, Nowhere
  <1>30. CASE UNCHANGED vars  BY <1>30 DEF vars
  <1> QED
    BY <1>1, <1>2, <1>3, <1>4, <1>5, <1>6, <1>7, <1>8, <1>9, <1>10, <1>11,
       <1>12, <1>13, <1>14, <1>15, <1>16, <1>17, <1>18, <1>19, <1>20,
       <1>21, <1>22, <1>23, <1>24, <1>25, <1>26, <1>27, <1>28, <1>29, <1>30
       DEF Next, Recover, Serialize

LEMMA RenamedInvStep ==
    Types /\ Survival /\ Saving /\ [Next]_vars => RenamedInv'
  <1> SUFFICES ASSUME Types, Survival, Saving, [Next]_vars PROVE RenamedInv'
    OBVIOUS
  <1> USE SizeAssumption, BoundsAssumption DEF files, lobFiles, memory, esn,
     control, counts, Loop, Goto, Advance, At, Dirty, FileTypes, CountTypes,
     AtArchive, Types, SaveInv, Complete, Files, Versions, NoFile, Torn,
     Dirty, Archives, Saving, WrittenInv, Holds, RenamedInv, StopsBy,
     CleanInv, Survival, ExistInv, UndoneInv, CommitInv, Missing
  <1>1. CASE Lock  BY <1>1 DEF Lock, RecoveryStart
  <1>2. CASE Undo  BY <1>2 DEF Undo
  <1>3. CASE Purge  BY <1>3 DEF Purge
  <1>4. CASE PurgeLog  BY <1>4 DEF PurgeLog, NoLog
  <1>5. CASE Drop  BY <1>5 DEF Drop
  <1>6. CASE Replayed  BY <1>6 DEF Replayed, RemoveLog, NoLog
  <1>7. CASE Sweep  BY <1>7 DEF Sweep, Nowhere
  <1>8. CASE Playback  BY <1>8 DEF Playback
  <1>9. ASSUME NEW a \in Archives, Load(a) PROVE RenamedInv'
    BY <1>9 DEF Load, Content
  <1>10. ASSUME NEW a \in Archives, Edit(a) PROVE RenamedInv'
    BY <1>10 DEF Edit, Touch
  <1>11. ASSUME NEW l \in Lobs, Replace(l) PROVE RenamedInv'
    <2>1. Home[l] \in Archives /\ Touch(Home[l])
      BY <1>11, HomeAssumption DEF Replace
    <2>2. QED
      BY <2>1 DEF Touch, files, control, counts, FileTypes, CountTypes,
         AtArchive, Types, SaveInv, Complete, Files, Versions, NoFile,
         Torn, Dirty, Archives, Saving, WrittenInv, Holds, RenamedInv,
         StopsBy, CleanInv, Survival, ExistInv, UndoneInv, CommitInv,
         Missing
  <1>12. CASE Age  BY <1>12 DEF Age
  <1>13. CASE Rollback  BY <1>13 DEF Rollback
  <1>14. CASE RollbackOne
    BY <1>14 DEF RollbackOne, RecoveryStart, NoLog, LobsOf
  <1>15. ASSUME NEW r \in BOOLEAN, Save(r) PROVE RenamedInv'
    BY <1>15 DEF Save
  <1>16. CASE Write  BY <1>16 DEF Write
  <1>17. CASE Fill  BY <1>17 DEF Fill
  <1>18. CASE WriteFails  BY <1>18 DEF WriteFails, Fault, Return
  <1>19. CASE Keep  BY <1>19 DEF Keep, Kept, CloseCommitLog, KeepFile
  <1>20. CASE KeepFails
    BY <1>20 DEF KeepFails, Kept, CloseCommitLog, KeepFile, Fault
  <1>21. CASE CloseFails  BY <1>21 DEF CloseFails, Kept, Fault, Return
  <1>22. CASE Swap
    <2>1. CASE Loop("swap", Dirty, "commitESN")
      <3>1. /\ pc = "swap" /\ UNCHANGED <<orig, bak, temp, dirty, mem>>
            /\ \/ i > N /\ pc' = "commitESN" /\ i' = 1
               \/ i <= N /\ ~dirty[i] /\ pc' = pc /\ i' = i + 1
        BY <2>1
      <3> QED  BY <3>1
    <2>2. CASE ~Loop("swap", Dirty, "commitESN")
      <3>1. /\ pc = "swap" /\ i \in Dirty /\ pc' = pc /\ i' = i + 1
            /\ UNCHANGED <<bak, dirty, mem>>
            /\ orig' = [orig EXCEPT ![i] = temp[i]]
            /\ temp' = [temp EXCEPT ![i] = NoFile]
        BY <1>22, <2>2 DEF Swap
      <3> QED  BY <3>1
    <2> QED  BY <2>1, <2>2
  <1>23. CASE SwapFails  BY <1>23 DEF SwapFails, Fault
  <1>24. CASE CommitESN  BY <1>24 DEF CommitESN
  <1>25. CASE SkipClean  BY <1>25 DEF SkipClean, Return
  <1>26. CASE Played  BY <1>26 DEF Played, RemoveLog, NoLog, LobsOf
  <1>27. CASE Unlink  BY <1>27 DEF Unlink, Cleaned
  <1>28. CASE UnlinkFails  BY <1>28 DEF UnlinkFails, Cleaned, Fault, Return
  <1>29. CASE Crash  BY <1>29 DEF Crash, Unloaded, Nowhere
  <1>30. CASE UNCHANGED vars  BY <1>30 DEF vars
  <1> QED
    BY <1>1, <1>2, <1>3, <1>4, <1>5, <1>6, <1>7, <1>8, <1>9, <1>10, <1>11,
       <1>12, <1>13, <1>14, <1>15, <1>16, <1>17, <1>18, <1>19, <1>20,
       <1>21, <1>22, <1>23, <1>24, <1>25, <1>26, <1>27, <1>28, <1>29, <1>30
       DEF Next, Recover, Serialize

LEMMA CleanInvStep == Types /\ Survival /\ Saving /\ [Next]_vars => CleanInv'
  <1> SUFFICES ASSUME Types, Survival, Saving, [Next]_vars PROVE CleanInv'
    OBVIOUS
  <1> USE SizeAssumption, BoundsAssumption DEF files, lobFiles, memory, esn,
     control, counts, Loop, Goto, Advance, At, Dirty, FileTypes, CountTypes,
     AtArchive, Types, SaveInv, Complete, Files, Versions, NoFile, Torn,
     Dirty, Archives, Saving, WrittenInv, Holds, RenamedInv, StopsBy,
     CleanInv, Survival, ExistInv, UndoneInv, CommitInv, Missing
  <1>1. CASE Lock  BY <1>1 DEF Lock, RecoveryStart
  <1>2. CASE Undo  BY <1>2 DEF Undo
  <1>3. CASE Purge  BY <1>3 DEF Purge
  <1>4. CASE PurgeLog  BY <1>4 DEF PurgeLog, NoLog
  <1>5. CASE Drop  BY <1>5 DEF Drop
  <1>6. CASE Replayed  BY <1>6 DEF Replayed, RemoveLog, NoLog
  <1>7. CASE Sweep  BY <1>7 DEF Sweep, Nowhere
  <1>8. CASE Playback  BY <1>8 DEF Playback
  <1>9. ASSUME NEW a \in Archives, Load(a) PROVE CleanInv'
    BY <1>9 DEF Load, Content
  <1>10. ASSUME NEW a \in Archives, Edit(a) PROVE CleanInv'
    BY <1>10 DEF Edit, Touch
  <1>11. ASSUME NEW l \in Lobs, Replace(l) PROVE CleanInv'
    <2>1. Home[l] \in Archives /\ Touch(Home[l])
      BY <1>11, HomeAssumption DEF Replace
    <2>2. QED
      BY <2>1 DEF Touch, files, control, counts, FileTypes, CountTypes,
         AtArchive, Types, SaveInv, Complete, Files, Versions, NoFile,
         Torn, Dirty, Archives, Saving, WrittenInv, Holds, RenamedInv,
         StopsBy, CleanInv, Survival, ExistInv, UndoneInv, CommitInv,
         Missing
  <1>12. CASE Age  BY <1>12 DEF Age
  <1>13. CASE Rollback  BY <1>13 DEF Rollback
  <1>14. CASE RollbackOne
    BY <1>14 DEF RollbackOne, RecoveryStart, NoLog, LobsOf
  <1>15. ASSUME NEW r \in BOOLEAN, Save(r) PROVE CleanInv'
    BY <1>15 DEF Save
  <1>16. CASE Write  BY <1>16 DEF Write
  <1>17. CASE Fill  BY <1>17 DEF Fill
  <1>18. CASE WriteFails  BY <1>18 DEF WriteFails, Fault, Return
  <1>19. CASE Keep  BY <1>19 DEF Keep, Kept, CloseCommitLog, KeepFile
  <1>20. CASE KeepFails
    BY <1>20 DEF KeepFails, Kept, CloseCommitLog, KeepFile, Fault
  <1>21. CASE CloseFails  BY <1>21 DEF CloseFails, Kept, Fault, Return
  <1>22. CASE Swap  BY <1>22 DEF Swap
  <1>23. CASE SwapFails  BY <1>23 DEF SwapFails, Fault
  <1>24. CASE CommitESN  BY <1>24 DEF CommitESN
  <1>25. CASE SkipClean  BY <1>25 DEF SkipClean, Return
  <1>26. CASE Played  BY <1>26 DEF Played, RemoveLog, NoLog, LobsOf
  <1>27. CASE Unlink  BY <1>27 DEF Unlink, Cleaned
  <1>28. CASE UnlinkFails  BY <1>28 DEF UnlinkFails, Cleaned, Fault, Return
  <1>29. CASE Crash  BY <1>29 DEF Crash, Unloaded, Nowhere
  <1>30. CASE UNCHANGED vars  BY <1>30 DEF vars
  <1> QED
    BY <1>1, <1>2, <1>3, <1>4, <1>5, <1>6, <1>7, <1>8, <1>9, <1>10, <1>11,
       <1>12, <1>13, <1>14, <1>15, <1>16, <1>17, <1>18, <1>19, <1>20,
       <1>21, <1>22, <1>23, <1>24, <1>25, <1>26, <1>27, <1>28, <1>29, <1>30
       DEF Next, Recover, Serialize

-----------------------------------------------------------------------------
\* As long as no file operation has failed.

None(f) == \A a \in Archives : f[a] = NoFile

\* What is loaded and not changed is what the file holds; outside a lock and
\* in a recovery nothing is changed, and nothing is loaded if there is a save
\* to undo.
LoadedInv ==
    /\ \A a \in Archives : dirty[a] \/ mem[a] \in {NoFile, orig[a]}
    /\ pc \in {"idle", "undo", "purge", "purgeLog", "drop", "replay",
               "sweep"} => \A a \in Archives : ~dirty[a]
    /\ pc = "rollback" => \A a \in Archives : a < i => ~dirty[a]
    /\ pc = "idle" => None(mem) \/ (None(bak) /\ None(temp))
    /\ pc \in {"undo", "purge", "purgeLog"} => None(mem)

\* The ".bak" and ".temp" files of a recovery, and without a save.
RecoveryInv ==
    /\ pc \in {"undo", "drop", "replay"} =>
           \A a \in Archives : a < i => bak[a] = NoFile
    /\ pc \in {"purge", "purgeLog", "sweep", "open", "rollback"} => None(bak)
    /\ pc \in {"drop", "replay", "sweep", "open", "rollback"} => None(temp)
    /\ pc = "replay" => bak[i] = NoFile
    /\ pc \in {"purge", "purgeLog"} =>
           \A a \in Archives : a < i => temp[a] = NoFile
    /\ pc = "purgeLog" => temp[i] = NoFile

\* The ".bak" and ".temp" files of a save.
FilesInv ==
    /\ pc \in {"write", "fill"} => None(bak)
    /\ pc = "keep" => \A a \in Archives :
           /\ bak[a] # NoFile <=> dirty[a] /\ a < i
           /\ Missing(a) => a < i
    /\ pc \in {"swap", "commitESN", "play", "unlink"} =>
           \A a \in Archives : bak[a] # NoFile <=> dirty[a]
    /\ pc \in {"write", "fill", "keep", "swap"} =>
           \A a \in Archives : temp[a] # NoFile => dirty[a]
    /\ pc = "swap" => \A a \in Archives : temp[a] # NoFile => a >= i
    /\ pc \in {"commitESN", "play", "unlink"} => None(temp)

Intact == faults = 0
Quiet == LoadedInv /\ RecoveryInv /\ FilesInv
UndoInv == pc = "undo" => ~None(temp)
Sound == Types /\ Survival /\ Saving /\ UndoInv

\* A recovery that undoes a save leaves the ".temp" files to the end.
LEMMA UndoInvStep == UndoInv /\ [Next]_vars => UndoInv'
  <1> SUFFICES ASSUME UndoInv, [Next]_vars PROVE UndoInv'
    OBVIOUS
  <1> USE DEF files, lobFiles, memory, esn, control, counts, Loop, Goto,
     Advance, At, Dirty, UndoInv, None
  <1>1. CASE Lock  BY <1>1 DEF Lock, RecoveryStart
  <1>2. CASE Undo  BY <1>2 DEF Undo
  <1>3. CASE Purge  BY <1>3 DEF Purge
  <1>4. CASE PurgeLog  BY <1>4 DEF PurgeLog, NoLog
  <1>5. CASE Drop  BY <1>5 DEF Drop
  <1>6. CASE Replayed  BY <1>6 DEF Replayed, RemoveLog, NoLog
  <1>7. CASE Sweep  BY <1>7 DEF Sweep, Nowhere
  <1>8. CASE Playback  BY <1>8 DEF Playback
  <1>9. ASSUME NEW a \in Archives, Load(a) PROVE UndoInv'
    BY <1>9 DEF Load, Content
  <1>10. ASSUME NEW a \in Archives, Edit(a) PROVE UndoInv'
    BY <1>10 DEF Edit, Touch
  <1>11. ASSUME NEW l \in Lobs, Replace(l) PROVE UndoInv'
    BY <1>11 DEF Replace, Touch
  <1>12. CASE Age  BY <1>12 DEF Age
  <1>13. CASE Rollback  BY <1>13 DEF Rollback
  <1>14. CASE RollbackOne
    BY <1>14 DEF RollbackOne, RecoveryStart, NoLog, LobsOf
  <1>15. ASSUME NEW r \in BOOLEAN, Save(r) PROVE UndoInv'
    BY <1>15 DEF Save
  <1>16. CASE Write  BY <1>16 DEF Write
  <1>17. CASE Fill  BY <1>17 DEF Fill
  <1>18. CASE WriteFails  BY <1>18 DEF WriteFails, Fault, Return
  <1>19. CASE Keep  BY <1>19 DEF Keep, Kept, CloseCommitLog, KeepFile
  <1>20. CASE KeepFails
    BY <1>20 DEF KeepFails, Kept, CloseCommitLog, KeepFile, Fault
  <1>21. CASE CloseFails  BY <1>21 DEF CloseFails, Kept, Fault, Return
  <1>22. CASE Swap  BY <1>22 DEF Swap
  <1>23. CASE SwapFails  BY <1>23 DEF SwapFails, Fault
  <1>24. CASE CommitESN  BY <1>24 DEF CommitESN
  <1>25. CASE SkipClean  BY <1>25 DEF SkipClean, Return
  <1>26. CASE Played  BY <1>26 DEF Played, RemoveLog, NoLog, LobsOf
  <1>27. CASE Unlink  BY <1>27 DEF Unlink, Cleaned
  <1>28. CASE UnlinkFails  BY <1>28 DEF UnlinkFails, Cleaned, Fault, Return
  <1>29. CASE Crash  BY <1>29 DEF Crash, Unloaded, Nowhere
  <1>30. CASE UNCHANGED vars  BY <1>30 DEF vars
  <1> QED
    BY <1>1, <1>2, <1>3, <1>4, <1>5, <1>6, <1>7, <1>8, <1>9, <1>10, <1>11,
       <1>12, <1>13, <1>14, <1>15, <1>16, <1>17, <1>18, <1>19, <1>20,
       <1>21, <1>22, <1>23, <1>24, <1>25, <1>26, <1>27, <1>28, <1>29, <1>30
       DEF Next, Recover, Serialize

\* While no file operation fails, every action keeps Quiet.
LEMMA LoadedInvStep ==
    Sound /\ Quiet /\ Intact /\ Intact' /\ [Next]_vars => LoadedInv'
  <1> SUFFICES ASSUME Sound, Quiet, Intact, Intact', [Next]_vars
               PROVE  LoadedInv'
    OBVIOUS
  <1> USE SizeAssumption, BoundsAssumption DEF files, lobFiles, memory, esn,
     control, counts, Loop, Goto, Advance, At, Dirty, FileTypes, CountTypes,
     AtArchive, Types, SaveInv, Complete, Files, Versions, NoFile, Torn,
     Dirty, Archives, Survival, ExistInv, PhaseInv, Missing, Sound, Quiet,
     Intact, None, LoadedInv, RecoveryInv, FilesInv, CommitInv, Saving,
     CleanInv, RenamedInv, WrittenInv, StopsBy, Content
  <1>1. CASE Lock  BY <1>1 DEF Lock, RecoveryStart
  <1>2. CASE Undo  BY <1>2 DEF Undo
  <1>3. CASE Purge  BY <1>3 DEF Purge
  <1>4. CASE PurgeLog  BY <1>4 DEF PurgeLog, NoLog
  <1>5. CASE Drop  BY SMTT(30), <1>5 DEF Drop
  <1>6. CASE Replayed  BY <1>6 DEF Replayed, RemoveLog, NoLog
  <1>7. CASE Sweep  BY <1>7 DEF Sweep, Nowhere
  <1>8. CASE Playback  BY <1>8 DEF Playback
  <1>9. ASSUME NEW a \in Archives, Load(a) PROVE LoadedInv'
    BY <1>9 DEF Load, Content
  <1>10. ASSUME NEW a \in Archives, Edit(a) PROVE LoadedInv'
    BY <1>10 DEF Edit, Touch
  <1>11. ASSUME NEW l \in Lobs, Replace(l) PROVE LoadedInv'
    <2>1. Home[l] \in Archives /\ Touch(Home[l])
      BY <1>11, HomeAssumption DEF Replace
    <2>2. QED
      BY <2>1 DEF Touch, files, control, counts, FileTypes, CountTypes,
         AtArchive, Types, SaveInv, Complete, Files, Versions, NoFile,
         Torn, Dirty, Archives, Survival, ExistInv, PhaseInv, Missing,
         Sound, Quiet, Intact, None, LoadedInv, RecoveryInv, FilesInv,
         CommitInv, Saving, CleanInv, RenamedInv, WrittenInv, StopsBy,
         Content
  <1>12. CASE Age  BY <1>12 DEF Age
  <1>13. CASE Rollback  BY <1>13 DEF Rollback
  <1>14. CASE RollbackOne
    <2>1. CASE Loop("rollback", Dirty, RecoveryStart)
      <3>1. RecoveryStart \in {"undo", "purge", "drop", "sweep"}
        BY DEF RecoveryStart
      <3>2. None(bak) /\ None(temp) => RecoveryStart \in {"drop", "sweep"}
        BY DEF RecoveryStart
      <3> QED
        BY <2>1, <3>1, <3>2
    <2>2. CASE ~Loop("rollback", Dirty, RecoveryStart)
      <3>1. /\ pc = "rollback" /\ pc' = pc /\ i' = i + 1 /\ orig' = orig
            /\ mem' = [mem EXCEPT ![i] = NoFile]
            /\ dirty' = [dirty EXCEPT ![i] = FALSE]
        BY <1>14, <2>2 DEF RollbackOne
      <3> QED
        BY <3>1
    <2> QED  BY <2>1, <2>2
  <1>15. ASSUME NEW r \in BOOLEAN, Save(r) PROVE LoadedInv'
    BY <1>15 DEF Save
  <1>16. CASE Write  BY SMTT(30), <1>16 DEF Write
  <1>17. CASE Fill  BY <1>17 DEF Fill
  <1>18. CASE WriteFails  BY <1>18 DEF WriteFails, Fault, Return
  <1>19. CASE Keep
    <2>1. CASE Loop("keep", Kept, "swap")
      <3>1. /\ pc = "keep" /\ UNCHANGED <<orig, bak, temp, dirty, mem>>
            /\ \/ i > N /\ pc' = "swap" /\ i' = 1
               \/ i <= N /\ ~dirty[i] /\ pc' = pc /\ i' = i + 1
        BY <2>1 DEF Kept
      <3> QED  BY <3>1
    <2>2. CASE ~Loop("keep", Kept, "swap")
      <3>1. /\ pc = "keep" /\ i \in Dirty /\ pc' = pc /\ i' = i + 1
            /\ UNCHANGED <<temp, dirty, mem>> /\ orig[i] # NoFile
            /\ orig' = [orig EXCEPT ![i] = NoFile]
            /\ bak' = [bak EXCEPT ![i] = orig[i]]
        BY <1>19, <2>2 DEF Keep, Kept, KeepFile
      <3> QED  BY <3>1
    <2> QED  BY <2>1, <2>2
  <1>20. CASE KeepFails
    BY <1>20 DEF KeepFails, Kept, CloseCommitLog, KeepFile, Fault
  <1>21. CASE CloseFails  BY <1>21 DEF CloseFails, Kept, Fault, Return
  <1>22. CASE Swap  BY SMTT(30), <1>22 DEF Swap
  <1>23. CASE SwapFails  BY <1>23 DEF SwapFails, Fault
  <1>24. CASE CommitESN  BY <1>24 DEF CommitESN
  <1>25. CASE SkipClean  BY <1>25 DEF SkipClean, Return
  <1>26. CASE Played  BY <1>26 DEF Played, RemoveLog, NoLog, LobsOf
  <1>27. CASE Unlink  BY <1>27 DEF Unlink, Cleaned
  <1>28. CASE UnlinkFails  BY <1>28 DEF UnlinkFails, Cleaned, Fault, Return
  <1>29. CASE Crash  BY <1>29 DEF Crash, Unloaded, Nowhere
  <1>30. CASE UNCHANGED vars  BY <1>30 DEF vars
  <1> QED
    BY <1>1, <1>2, <1>3, <1>4, <1>5, <1>6, <1>7, <1>8, <1>9, <1>10, <1>11,
       <1>12, <1>13, <1>14, <1>15, <1>16, <1>17, <1>18, <1>19, <1>20,
       <1>21, <1>22, <1>23, <1>24, <1>25, <1>26, <1>27, <1>28, <1>29, <1>30
       DEF Next, Recover, Serialize

LEMMA RecoveryInvStep ==
    Sound /\ Quiet /\ Intact /\ Intact' /\ [Next]_vars => RecoveryInv'
  <1> SUFFICES ASSUME Sound, Quiet, Intact, Intact', [Next]_vars
               PROVE  RecoveryInv'
    OBVIOUS
  <1> USE SizeAssumption, BoundsAssumption DEF files, lobFiles, memory, esn,
     control, counts, Loop, Goto, Advance, At, Dirty, FileTypes, CountTypes,
     AtArchive, Types, SaveInv, Complete, Files, Versions, NoFile, Torn,
     Dirty, Archives, Survival, ExistInv, PhaseInv, Missing, Sound, Quiet,
     Intact, None, LoadedInv, RecoveryInv, FilesInv, CommitInv, Saving,
     CleanInv, Content
  <1>1. CASE Lock  BY <1>1 DEF Lock, RecoveryStart
  <1>2. CASE Undo  BY <1>2 DEF Undo
  <1>3. CASE Purge
    <2>1. CASE Loop("purge", Archives, "sweep")
      <3>1. /\ pc = "purge" /\ UNCHANGED <<bak, temp>>
            /\ \/ i > N /\ pc' = "sweep"
               \/ i <= N /\ i \notin Archives /\ pc' = pc /\ i' = i + 1
        BY <2>1
      <3> QED  BY <3>1
    <2>2. CASE ~Loop("purge", Archives, "sweep")
      <3>1. /\ pc = "purge" /\ pc' = "purgeLog" /\ i' = i /\ i \in Archives
            /\ bak' = bak /\ temp' = [temp EXCEPT ![i] = NoFile]
        BY <1>3, <2>2 DEF Purge
      <3> QED  BY <3>1
    <2> QED  BY <2>1, <2>2
  <1>4. CASE PurgeLog  BY <1>4 DEF PurgeLog, NoLog
  <1>5. CASE Drop
    <2>1. CASE Loop("drop", Archives, "sweep")
      <3>1. /\ pc = "drop" /\ UNCHANGED <<bak, temp>>
            /\ \/ i > N /\ pc' = "sweep"
               \/ i <= N /\ i \notin Archives /\ pc' = pc /\ i' = i + 1
        BY <2>1
      <3> QED  BY <3>1
    <2>2. CASE ~Loop("drop", Archives, "sweep")
      <3>1. /\ pc = "drop" /\ i \in Archives /\ temp' = temp
            /\ bak' = [bak EXCEPT ![i] = NoFile]
            /\ \/ pc' = pc /\ i' = i + 1
               \/ pc' = "replay" /\ i' = i
        BY <1>5, <2>2 DEF Drop
      <3> QED  BY <3>1
    <2> QED  BY <2>1, <2>2
  <1>6. CASE Replayed  BY <1>6 DEF Replayed, RemoveLog, NoLog
  <1>7. CASE Sweep  BY <1>7 DEF Sweep, Nowhere
  <1>8. CASE Playback  BY <1>8 DEF Playback
  <1>9. ASSUME NEW a \in Archives, Load(a) PROVE RecoveryInv'
    BY <1>9 DEF Load, Content
  <1>10. ASSUME NEW a \in Archives, Edit(a) PROVE RecoveryInv'
    BY <1>10 DEF Edit, Touch
  <1>11. ASSUME NEW l \in Lobs, Replace(l) PROVE RecoveryInv'
    <2>1. Home[l] \in Archives /\ Touch(Home[l])
      BY <1>11, HomeAssumption DEF Replace
    <2>2. QED
      BY <2>1 DEF Touch, files, control, counts, FileTypes, CountTypes,
         AtArchive, Types, SaveInv, Complete, Files, Versions, NoFile,
         Torn, Dirty, Archives, Survival, ExistInv, PhaseInv, Missing,
         Sound, Quiet, Intact, None, LoadedInv, RecoveryInv, FilesInv,
         CommitInv, Saving, CleanInv, Content
  <1>12. CASE Age  BY <1>12 DEF Age
  <1>13. CASE Rollback  BY <1>13 DEF Rollback
  <1>14. CASE RollbackOne
    BY <1>14 DEF RollbackOne, RecoveryStart, NoLog, LobsOf
  <1>15. ASSUME NEW r \in BOOLEAN, Save(r) PROVE RecoveryInv'
    BY <1>15 DEF Save
  <1>16. CASE Write  BY <1>16 DEF Write
  <1>17. CASE Fill  BY <1>17 DEF Fill
  <1>18. CASE WriteFails  BY <1>18 DEF WriteFails, Fault, Return
  <1>19. CASE Keep  BY <1>19 DEF Keep, Kept, CloseCommitLog, KeepFile
  <1>20. CASE KeepFails
    BY <1>20 DEF KeepFails, Kept, CloseCommitLog, KeepFile, Fault
  <1>21. CASE CloseFails  BY <1>21 DEF CloseFails, Kept, Fault, Return
  <1>22. CASE Swap  BY <1>22 DEF Swap
  <1>23. CASE SwapFails  BY <1>23 DEF SwapFails, Fault
  <1>24. CASE CommitESN  BY <1>24 DEF CommitESN
  <1>25. CASE SkipClean  BY <1>25 DEF SkipClean, Return
  <1>26. CASE Played  BY <1>26 DEF Played, RemoveLog, NoLog, LobsOf
  <1>27. CASE Unlink  BY <1>27 DEF Unlink, Cleaned
  <1>28. CASE UnlinkFails  BY <1>28 DEF UnlinkFails, Cleaned, Fault, Return
  <1>29. CASE Crash  BY <1>29 DEF Crash, Unloaded, Nowhere
  <1>30. CASE UNCHANGED vars  BY <1>30 DEF vars
  <1> QED
    BY <1>1, <1>2, <1>3, <1>4, <1>5, <1>6, <1>7, <1>8, <1>9, <1>10, <1>11,
       <1>12, <1>13, <1>14, <1>15, <1>16, <1>17, <1>18, <1>19, <1>20,
       <1>21, <1>22, <1>23, <1>24, <1>25, <1>26, <1>27, <1>28, <1>29, <1>30
       DEF Next, Recover, Serialize

LEMMA FilesInvStep ==
    Sound /\ Quiet /\ Intact /\ Intact' /\ [Next]_vars => FilesInv'
  <1> SUFFICES ASSUME Sound, Quiet, Intact, Intact', [Next]_vars
               PROVE  FilesInv'
    OBVIOUS
  <1> USE SizeAssumption, BoundsAssumption DEF files, lobFiles, memory, esn,
     control, counts, Loop, Goto, Advance, At, Dirty, FileTypes, CountTypes,
     AtArchive, Types, SaveInv, Complete, Files, Versions, NoFile, Torn,
     Dirty, Archives, Survival, ExistInv, PhaseInv, Missing, Sound, Quiet,
     Intact, None, LoadedInv, RecoveryInv, FilesInv, CommitInv, Saving,
     CleanInv, RenamedInv, WrittenInv, StopsBy, Content
  <1>1. CASE Lock  BY <1>1 DEF Lock, RecoveryStart
  <1>2. CASE Undo  BY <1>2 DEF Undo
  <1>3. CASE Purge  BY <1>3 DEF Purge
  <1>4. CASE PurgeLog  BY <1>4 DEF PurgeLog, NoLog
  <1>5. CASE Drop  BY <1>5 DEF Drop
  <1>6. CASE Replayed  BY <1>6 DEF Replayed, RemoveLog, NoLog
  <1>7. CASE Sweep  BY <1>7 DEF Sweep, Nowhere
  <1>8. CASE Playback  BY <1>8 DEF Playback
  <1>9. ASSUME NEW a \in Archives, Load(a) PROVE FilesInv'
    BY <1>9 DEF Load, Content
  <1>10. ASSUME NEW a \in Archives, Edit(a) PROVE FilesInv'
    BY <1>10 DEF Edit, Touch
  <1>11. ASSUME NEW l \in Lobs, Replace(l) PROVE FilesInv'
    <2>1. Home[l] \in Archives /\ Touch(Home[l])
      BY <1>11, HomeAssumption DEF Replace
    <2>2. QED
      BY <2>1 DEF Touch, files, control, counts, FileTypes, CountTypes,
         AtArchive, Types, SaveInv, Complete, Files, Versions, NoFile,
         Torn, Dirty, Archives, Survival, ExistInv, PhaseInv, Missing,
         Sound, Quiet, Intact, None, LoadedInv, RecoveryInv, FilesInv,
         CommitInv, Saving, CleanInv, RenamedInv, WrittenInv, StopsBy,
         Content
  <1>12. CASE Age  BY <1>12 DEF Age
  <1>13. CASE Rollback  BY <1>13 DEF Rollback
  <1>14. CASE RollbackOne
    BY <1>14 DEF RollbackOne, RecoveryStart, NoLog, LobsOf
  <1>15. ASSUME NEW r \in BOOLEAN, Save(r) PROVE FilesInv'
    BY <1>15 DEF Save
  <1>16. CASE Write
    <2>1. CASE Loop("write", Dirty, "keep")
      BY <2>1 DEF UndoneInv
    <2>2. CASE ~Loop("write", Dirty, "keep")
      <3>1. /\ pc = "write" /\ pc' = "fill" /\ dirty[i]
            /\ UNCHANGED <<bak, dirty>> /\ temp' = [temp EXCEPT ![i] = Torn]
        BY <1>16, <2>2 DEF Write
      <3> QED
        BY <3>1
    <2> QED  BY <2>1, <2>2
  <1>17. CASE Fill  BY <1>17 DEF Fill
  <1>18. CASE WriteFails  BY <1>18 DEF WriteFails, Fault, Return
  <1>19. CASE Keep
    <2>1. CASE Loop("keep", Kept, "swap")
      <3>1. /\ pc = "keep" /\ UNCHANGED <<orig, bak, temp, dirty, mem>>
            /\ \/ i > N /\ pc' = "swap" /\ i' = 1
               \/ i <= N /\ ~dirty[i] /\ pc' = pc /\ i' = i + 1
        BY <2>1 DEF Kept
      <3> QED  BY <3>1
    <2>2. CASE ~Loop("keep", Kept, "swap")
      <3>1. /\ pc = "keep" /\ i \in Dirty /\ pc' = pc /\ i' = i + 1
            /\ UNCHANGED <<temp, dirty, mem>> /\ orig[i] # NoFile
            /\ orig' = [orig EXCEPT ![i] = NoFile]
            /\ bak' = [bak EXCEPT ![i] = orig[i]]
        BY <1>19, <2>2 DEF Keep, Kept, KeepFile
      <3> QED  BY <3>1
    <2> QED  BY <2>1, <2>2
  <1>20. CASE KeepFails
    BY <1>20 DEF KeepFails, Kept, CloseCommitLog, KeepFile, Fault
  <1>21. CASE CloseFails  BY <1>21 DEF CloseFails, Kept, Fault, Return
  <1>22. CASE Swap
    <2>1. CASE Loop("swap", Dirty, "commitESN")
      <3>1. /\ pc = "swap" /\ UNCHANGED <<orig, bak, temp, dirty>>
            /\ \/ i > N /\ pc' = "commitESN" /\ i' = 1
               \/ i <= N /\ ~dirty[i] /\ pc' = pc /\ i' = i + 1
        BY <2>1
      <3> QED  BY <3>1
    <2>2. CASE ~Loop("swap", Dirty, "commitESN")
      <3>1. /\ pc = "swap" /\ i \in Dirty /\ pc' = pc /\ i' = i + 1
            /\ UNCHANGED <<bak, dirty>>
            /\ temp' = [temp EXCEPT ![i] = NoFile]
        BY <1>22, <2>2 DEF Swap
      <3> QED  BY <3>1
    <2> QED  BY <2>1, <2>2
  <1>23. CASE SwapFails  BY <1>23 DEF SwapFails, Fault
  <1>24. CASE CommitESN  BY <1>24 DEF CommitESN
  <1>25. CASE SkipClean  BY <1>25 DEF SkipClean, Return
  <1>26. CASE Played  BY <1>26 DEF Played, RemoveLog, NoLog, LobsOf
  <1>27. CASE Unlink  BY <1>27 DEF Unlink, Cleaned
  <1>28. CASE UnlinkFails  BY <1>28 DEF UnlinkFails, Cleaned, Fault, Return
  <1>29. CASE Crash  BY <1>29 DEF Crash, Unloaded, Nowhere
  <1>30. CASE UNCHANGED vars  BY <1>30 DEF vars
  <1> QED
    BY <1>1, <1>2, <1>3, <1>4, <1>5, <1>6, <1>7, <1>8, <1>9, <1>10, <1>11,
       <1>12, <1>13, <1>14, <1>15, <1>16, <1>17, <1>18, <1>19, <1>20,
       <1>21, <1>22, <1>23, <1>24, <1>25, <1>26, <1>27, <1>28, <1>29, <1>30
       DEF Next, Recover, Serialize

-----------------------------------------------------------------------------
\* The refinement of AtomicTree.  What a restart loads changes only with the
\* last rename of a save, to what is loaded.
LastSwap == /\ pc = "swap" /\ i \in Dirty
            /\ orig' = [orig EXCEPT ![i] = temp[i]]
            /\ temp' = [temp EXCEPT ![i] = NoFile]
            /\ UNCHANGED <<bak, mem>>
            /\ \A a \in Archives : a # i => temp[a] = NoFile

StoredStep == LastSwap \/ \A a \in Archives : Recovered'[a] = Recovered[a]

\* What is loaded changes with an edit, a load and when it is given up.
WorkStep == \/ \E a \in Archives : Touch(a)
            \/ \A a \in Archives :
                   \/ mem'[a] \in {NoFile, mem[a]}
                   \/ mem[a] = NoFile /\ mem'[a] = Recovered[a]

\* Each action takes one of the steps of StoredStep ...
LEMMA StoredStepHolds ==
    Sound /\ Quiet /\ Intact /\ Intact' /\ [Next]_vars => StoredStep
  <1> SUFFICES ASSUME Sound, Quiet, Intact, Intact', [Next]_vars
               PROVE  StoredStep
    OBVIOUS
  <1> USE SizeAssumption, BoundsAssumption DEF files, lobFiles, memory, esn,
     control, counts, Loop, Goto, Advance, At, Dirty, FileTypes, CountTypes,
     AtArchive, Types, SaveInv, Complete, Files, Versions, NoFile, Torn,
     Dirty, Archives, Survival, ExistInv, PhaseInv, UndoneInv, Missing,
     Sound, Quiet, Intact, None, LoadedInv, RecoveryInv, FilesInv, Saving,
     WrittenInv, Holds, Content, Recovered, LastSwap, StoredStep
  <1>1. CASE Lock  BY <1>1 DEF Lock, RecoveryStart
  <1>2. CASE Undo
    <2>1. CASE Loop("undo", {a \in Archives : bak[a] # NoFile}, "purge")
      BY <2>1
    <2>2. CASE ~Loop("undo", {a \in Archives : bak[a] # NoFile}, "purge")
      <3>1. /\ pc = "undo" /\ i \in Archives /\ bak[i] # NoFile
            /\ orig' = [orig EXCEPT ![i] = bak[i]] /\ temp' = temp
            /\ bak' = [bak EXCEPT ![i] = NoFile]
        BY <1>2, <2>2 DEF Undo
      <3>2. PICK b \in Archives : temp[b] # NoFile
        BY <3>1 DEF UndoInv
      <3>3. ASSUME NEW a \in Archives PROVE Recovered'[a] = Recovered[a]
        BY <3>1, <3>2
      <3> QED  BY <3>3
    <2> QED  BY <2>1, <2>2
  <1>3. CASE Purge  BY <1>3 DEF Purge
  <1>4. CASE PurgeLog  BY <1>4 DEF PurgeLog, NoLog
  <1>5. CASE Drop  BY <1>5 DEF Drop
  <1>6. CASE Replayed  BY <1>6 DEF Replayed, RemoveLog, NoLog
  <1>7. CASE Sweep  BY <1>7 DEF Sweep, Nowhere
  <1>8. CASE Playback  BY <1>8 DEF Playback
  <1>9. ASSUME NEW a \in Archives, Load(a) PROVE StoredStep
    BY <1>9 DEF Load, Content
  <1>10. ASSUME NEW a \in Archives, Edit(a) PROVE StoredStep
    BY <1>10 DEF Edit, Touch
  <1>11. ASSUME NEW l \in Lobs, Replace(l) PROVE StoredStep
    BY <1>11 DEF Replace, Touch
  <1>12. CASE Age  BY <1>12 DEF Age
  <1>13. CASE Rollback  BY <1>13 DEF Rollback
  <1>14. CASE RollbackOne
    BY <1>14 DEF RollbackOne, RecoveryStart, NoLog, LobsOf
  <1>15. ASSUME NEW r \in BOOLEAN, Save(r) PROVE StoredStep
    BY <1>15 DEF Save
  <1>16. CASE Write  BY <1>16 DEF Write
  <1>17. CASE Fill  BY <1>17 DEF Fill
  <1>18. CASE WriteFails  BY <1>18 DEF WriteFails, Fault, Return
  <1>19. CASE Keep
    <2>1. CASE Loop("keep", Kept, "swap")
      <3>1. /\ pc = "keep" /\ UNCHANGED <<orig, bak, temp, dirty, mem>>
            /\ \/ i > N /\ pc' = "swap" /\ i' = 1
               \/ i <= N /\ ~dirty[i] /\ pc' = pc /\ i' = i + 1
        BY <2>1 DEF Kept
      <3> QED  BY <3>1
    <2>2. CASE ~Loop("keep", Kept, "swap")
      <3>1. /\ pc = "keep" /\ i \in Dirty /\ pc' = pc /\ i' = i + 1
            /\ UNCHANGED <<temp, dirty, mem>> /\ orig[i] # NoFile
            /\ orig' = [orig EXCEPT ![i] = NoFile]
            /\ bak' = [bak EXCEPT ![i] = orig[i]]
        BY <1>19, <2>2 DEF Keep, Kept, KeepFile
      <3>2. bak[i] = NoFile /\ temp[i] # NoFile
        BY <3>1
      <3>3. ASSUME NEW a \in Archives PROVE Recovered'[a] = Recovered[a]
        BY <3>1, <3>2
      <3> QED  BY <3>3
    <2> QED  BY <2>1, <2>2
  <1>20. CASE KeepFails
    BY <1>20 DEF KeepFails, Kept, CloseCommitLog, KeepFile, Fault
  <1>21. CASE CloseFails  BY <1>21 DEF CloseFails, Kept, Fault, Return
  <1>22. CASE Swap
    <2>1. CASE Loop("swap", Dirty, "commitESN")
      BY <2>1
    <2>2. CASE ~Loop("swap", Dirty, "commitESN")
      <3>1. /\ pc = "swap" /\ i \in Dirty /\ UNCHANGED <<bak, mem>>
            /\ orig' = [orig EXCEPT ![i] = temp[i]]
            /\ temp' = [temp EXCEPT ![i] = NoFile]
        BY <1>22, <2>2 DEF Swap
      <3>2. CASE \A a \in Archives : a # i => temp[a] = NoFile
        BY <3>1, <3>2
      <3>3. ASSUME NEW b \in Archives, b # i, temp[b] # NoFile
            PROVE  StoredStep
        <4>1. temp[b] # NoFile /\ temp'[b] # NoFile /\ bak[i] # NoFile
          BY <3>1, <3>3
        <4>2. ASSUME NEW a \in Archives PROVE Recovered'[a] = Recovered[a]
          BY <3>1, <4>1
        <4> QED  BY <4>2
      <3> QED  BY <3>2, <3>3
    <2> QED  BY <2>1, <2>2
  <1>23. CASE SwapFails  BY <1>23 DEF SwapFails, Fault
  <1>24. CASE CommitESN  BY <1>24 DEF CommitESN
  <1>25. CASE SkipClean  BY <1>25 DEF SkipClean, Return
  <1>26. CASE Played  BY <1>26 DEF Played, RemoveLog, NoLog, LobsOf
  <1>27. CASE Unlink  BY <1>27 DEF Unlink, Cleaned
  <1>28. CASE UnlinkFails  BY <1>28 DEF UnlinkFails, Cleaned, Fault, Return
  <1>29. CASE Crash  BY <1>29 DEF Crash, Unloaded, Nowhere
  <1>30. CASE UNCHANGED vars  BY <1>30 DEF vars
  <1> QED
    BY <1>1, <1>2, <1>3, <1>4, <1>5, <1>6, <1>7, <1>8, <1>9, <1>10, <1>11,
       <1>12, <1>13, <1>14, <1>15, <1>16, <1>17, <1>18, <1>19, <1>20,
       <1>21, <1>22, <1>23, <1>24, <1>25, <1>26, <1>27, <1>28, <1>29, <1>30
       DEF Next, Recover, Serialize

\* ... and one of WorkStep.
LEMMA WorkStepHolds ==
    Sound /\ Quiet /\ Intact /\ Intact' /\ [Next]_vars => WorkStep
  <1> SUFFICES ASSUME Sound, Quiet, Intact, Intact', [Next]_vars PROVE WorkStep
    OBVIOUS
  <1> USE SizeAssumption, BoundsAssumption DEF files, lobFiles, memory, esn,
     control, counts, Loop, Goto, Advance, At, Dirty, FileTypes, CountTypes,
     AtArchive, Types, SaveInv, Complete, Files, Versions, NoFile, Torn,
     Dirty, Archives, Survival, ExistInv, PhaseInv, UndoneInv, Missing,
     Sound, Quiet, Intact, None, LoadedInv, RecoveryInv, FilesInv, Saving,
     WrittenInv, Holds, Content, Recovered, WorkStep
  <1>1. CASE Lock  BY <1>1 DEF Lock, RecoveryStart
  <1>2. CASE Undo  BY <1>2 DEF Undo
  <1>3. CASE Purge  BY <1>3 DEF Purge
  <1>4. CASE PurgeLog  BY <1>4 DEF PurgeLog, NoLog
  <1>5. CASE Drop  BY <1>5 DEF Drop
  <1>6. CASE Replayed  BY <1>6 DEF Replayed, RemoveLog, NoLog
  <1>7. CASE Sweep  BY <1>7 DEF Sweep, Nowhere
  <1>8. CASE Playback  BY <1>8 DEF Playback
  <1>9. ASSUME NEW a \in Archives, Load(a) PROVE WorkStep
    BY <1>9 DEF Load, Content
  <1>10. ASSUME NEW a \in Archives, Edit(a) PROVE WorkStep
    BY <1>10 DEF Edit, Touch
  <1>11. ASSUME NEW l \in Lobs, Replace(l) PROVE WorkStep
    <2>1. Home[l] \in Archives /\ Touch(Home[l])
      BY <1>11, HomeAssumption DEF Replace
    <2> QED  BY <2>1
  <1>12. CASE Age  BY <1>12 DEF Age
  <1>13. CASE Rollback  BY <1>13 DEF Rollback
  <1>14. CASE RollbackOne
    BY <1>14 DEF RollbackOne, RecoveryStart, NoLog, LobsOf
  <1>15. ASSUME NEW r \in BOOLEAN, Save(r) PROVE WorkStep
    BY <1>15 DEF Save
  <1>16. CASE Write  BY <1>16 DEF Write
  <1>17. CASE Fill  BY <1>17 DEF Fill
  <1>18. CASE WriteFails  BY <1>18 DEF WriteFails, Fault, Return
  <1>19. CASE Keep  BY <1>19 DEF Keep, Kept, CloseCommitLog, KeepFile
  <1>20. CASE KeepFails
    BY <1>20 DEF KeepFails, Kept, CloseCommitLog, KeepFile, Fault
  <1>21. CASE CloseFails  BY <1>21 DEF CloseFails, Kept, Fault, Return
  <1>22. CASE Swap  BY <1>22 DEF Swap
  <1>23. CASE SwapFails  BY <1>23 DEF SwapFails, Fault
  <1>24. CASE CommitESN  BY <1>24 DEF CommitESN
  <1>25. CASE SkipClean  BY <1>25 DEF SkipClean, Return
  <1>26. CASE Played  BY <1>26 DEF Played, RemoveLog, NoLog, LobsOf
  <1>27. CASE Unlink  BY <1>27 DEF Unlink, Cleaned
  <1>28. CASE UnlinkFails  BY <1>28 DEF UnlinkFails, Cleaned, Fault, Return
  <1>29. CASE Crash  BY <1>29 DEF Crash, Unloaded, Nowhere
  <1>30. CASE UNCHANGED vars  BY <1>30 DEF vars
  <1> QED
    BY <1>1, <1>2, <1>3, <1>4, <1>5, <1>6, <1>7, <1>8, <1>9, <1>10, <1>11,
       <1>12, <1>13, <1>14, <1>15, <1>16, <1>17, <1>18, <1>19, <1>20,
       <1>21, <1>22, <1>23, <1>24, <1>25, <1>26, <1>27, <1>28, <1>29, <1>30
       DEF Next, Recover, Serialize

FaultsStep == faults' \in {faults, faults + 1}

\* What is intact was so before.
LEMMA FaultsStepHolds == Types /\ [Next]_vars => FaultsStep
  <1> SUFFICES ASSUME Types, [Next]_vars PROVE FaultsStep
    OBVIOUS
  <1> USE BoundsAssumption DEF files, lobFiles, memory, esn, control, counts,
     Loop, Goto, Advance, At, Dirty, Types, CountTypes, FaultsStep
  <1>1. CASE Lock  BY <1>1 DEF Lock, RecoveryStart
  <1>2. CASE Undo  BY <1>2 DEF Undo
  <1>3. CASE Purge  BY <1>3 DEF Purge
  <1>4. CASE PurgeLog  BY <1>4 DEF PurgeLog, NoLog
  <1>5. CASE Drop  BY <1>5 DEF Drop
  <1>6. CASE Replayed  BY <1>6 DEF Replayed, RemoveLog, NoLog
  <1>7. CASE Sweep  BY <1>7 DEF Sweep, Nowhere
  <1>8. CASE Playback  BY <1>8 DEF Playback
  <1>9. ASSUME NEW a \in Archives, Load(a) PROVE FaultsStep
    BY <1>9 DEF Load, Content
  <1>10. ASSUME NEW a \in Archives, Edit(a) PROVE FaultsStep
    BY <1>10 DEF Edit, Touch
  <1>11. ASSUME NEW l \in Lobs, Replace(l) PROVE FaultsStep
    BY <1>11 DEF Replace, Touch
  <1>12. CASE Age  BY <1>12 DEF Age
  <1>13. CASE Rollback  BY <1>13 DEF Rollback
  <1>14. CASE RollbackOne
    BY <1>14 DEF RollbackOne, RecoveryStart, NoLog, LobsOf
  <1>15. ASSUME NEW r \in BOOLEAN, Save(r) PROVE FaultsStep
    BY <1>15 DEF Save
  <1>16. CASE Write  BY <1>16 DEF Write
  <1>17. CASE Fill  BY <1>17 DEF Fill
  <1>18. CASE WriteFails  BY <1>18 DEF WriteFails, Fault, Return
  <1>19. CASE Keep  BY <1>19 DEF Keep, Kept, CloseCommitLog, KeepFile
  <1>20. CASE KeepFails
    BY <1>20 DEF KeepFails, Kept, CloseCommitLog, KeepFile, Fault
  <1>21. CASE CloseFails  BY <1>21 DEF CloseFails, Kept, Fault, Return
  <1>22. CASE Swap  BY <1>22 DEF Swap
  <1>23. CASE SwapFails  BY <1>23 DEF SwapFails, Fault
  <1>24. CASE CommitESN  BY <1>24 DEF CommitESN
  <1>25. CASE SkipClean  BY <1>25 DEF SkipClean, Return
  <1>26. CASE Played  BY <1>26 DEF Played, RemoveLog, NoLog, LobsOf
  <1>27. CASE Unlink  BY <1>27 DEF Unlink, Cleaned
  <1>28. CASE UnlinkFails  BY <1>28 DEF UnlinkFails, Cleaned, Fault, Return
  <1>29. CASE Crash  BY <1>29 DEF Crash, Unloaded, Nowhere
  <1>30. CASE UNCHANGED vars  BY <1>30 DEF vars
  <1> QED
    BY <1>1, <1>2, <1>3, <1>4, <1>5, <1>6, <1>7, <1>8, <1>9, <1>10, <1>11,
       <1>12, <1>13, <1>14, <1>15, <1>16, <1>17, <1>18, <1>19, <1>20,
       <1>21, <1>22, <1>23, <1>24, <1>25, <1>26, <1>27, <1>28, <1>29, <1>30
       DEF Next, Recover, Serialize

\* So each action is a step of AtomicTree: Publish for the last rename, Change
\* for an edit, Discard for the others, and Fail once an operation has failed.
LEMMA TreeStep ==
    Sound /\ (Intact => Quiet) /\ [Next]_vars => [Tree!Next]_Tree!vars
  <1> SUFFICES ASSUME Sound, Intact => Quiet, [Next]_vars PROVE Tree!Next
    OBVIOUS
  <1>1. CASE ~Intact'
    <2>1. (faults = 0)' = FALSE
      BY <1>1 DEF Intact
    <2> QED
      BY <2>1 DEF Tree!Next, Tree!Fail
  <1>2. CASE Intact'
    <2>1. Intact
      BY <1>2, FaultsStepHolds DEF FaultsStep, Intact, Sound, Types,
         CountTypes
    <2>2. StoredStep /\ WorkStep
      BY <1>2, <2>1, StoredStepHolds, WorkStepHolds
    <2>3. (faults = 0) = TRUE /\ (faults = 0)' = (faults = 0)
      BY <1>2, <2>1 DEF Intact
    <2>4. CASE LastSwap
      <3>1. ASSUME NEW a \in Archives PROVE Recovered'[a] = Working[a]
        <4>1. \A b \in Archives : temp'[b] = NoFile
          BY <2>4 DEF LastSwap, Sound, Types, FileTypes
        <4>2. Recovered'[a] = Content(orig'[a])
          BY <4>1 DEF Recovered, Content
        <4>3. CASE dirty[a]
          <5>1. mem[a] # NoFile /\ Content(mem[a]) = mem[a]
            BY <4>3 DEF Sound, Types, SaveInv, Content
          <5>2. orig'[a] = mem[a]
            BY <2>1, <2>4, <4>3 DEF LastSwap, Sound, Saving, WrittenInv,
               RenamedInv, Holds, Types, FileTypes, SaveInv, Complete, Dirty,
               Quiet, CountTypes, Archives, Versions, NoFile
          <5> QED
            BY <4>2, <5>1, <5>2 DEF Working
        <4>4. CASE ~dirty[a]
          <5>1. a # i /\ orig'[a] = orig[a] /\ bak[a] = NoFile
            BY <2>1, <2>4, <4>4 DEF LastSwap, Dirty, Quiet, FilesInv, Sound,
               Types, FileTypes
          <5>2. Recovered[a] = Content(orig[a])
            BY <5>1 DEF Recovered
          <5>3. mem[a] \in {NoFile, orig[a]}
            BY <2>1, <4>4 DEF Quiet, LoadedInv
          <5> QED
            BY <4>2, <5>1, <5>2, <5>3 DEF Working, Content
        <4> QED  BY <4>3, <4>4
      <3>2. ASSUME NEW a \in Archives PROVE Working'[a] = Working[a]
        BY <2>4, <3>1 DEF LastSwap, Working
      <3>3. Recovered' = Working /\ Working' = Working
        BY <3>1, <3>2 DEF Recovered, Working
      <3> QED
        BY <2>3, <3>3 DEF Tree!Next, Tree!Publish
    <2>5. CASE \A a \in Archives : Recovered'[a] = Recovered[a]
      <3>1. Recovered' = Recovered
        BY <2>5 DEF Recovered
      <3>2. CASE \E b \in Archives : Touch(b)
        <4>1. PICK b \in Archives : Touch(b)
          BY <3>2
        <4>2. clock + 1 \in Versions /\ clock + 1 # NoFile
          BY <4>1, BoundsAssumption DEF Touch, Sound, Types, CountTypes,
             Versions, NoFile
        <4>3. mem' = [mem EXCEPT ![b] = clock + 1] /\ mem[b] # NoFile
          BY <4>1 DEF Touch
        <4>4. ASSUME NEW a \in Archives
              PROVE  Working'[a] = IF a = b THEN clock + 1 ELSE Working[a]
          BY <3>1, <4>2, <4>3 DEF Working, Sound, Types, FileTypes
        <4>5. Working' = [Working EXCEPT ![b] = clock + 1]
          BY <4>4 DEF Working
        <4> QED
          BY <2>3, <3>1, <4>2, <4>5 DEF Tree!Next, Tree!Change
      <3>3. CASE \A a \in Archives :
                     \/ mem'[a] \in {NoFile, mem[a]}
                     \/ mem[a] = NoFile /\ mem'[a] = Recovered[a]
        <4> DEFINE lost == {a \in Archives : mem'[a] = NoFile}
        <4>1. ASSUME NEW a \in Archives
              PROVE  Working'[a] = IF a \in lost THEN Recovered[a]
                                                 ELSE Working[a]
          BY <3>1, <3>3 DEF Working
        <4>2. Working' = [a \in Archives |-> IF a \in lost THEN Recovered[a]
                                                           ELSE Working[a]]
          BY <4>1 DEF Working
        <4>3. Tree!Discard
          BY <2>3, <3>1, <4>2 DEF Tree!Discard
        <4> QED
          BY <2>3, <4>3 DEF Tree!Next
      <3> QED  BY <2>2, <3>2, <3>3 DEF WorkStep
    <2> QED  BY <2>2, <2>4, <2>5 DEF StoredStep
  <1> QED  BY <1>1, <1>2

-----------------------------------------------------------------------------
\* The theorems.

\* The types hold initially, and every action keeps them.
LEMMA TypesInit == Init => BooleanTypes /\ Types
  <1> SUFFICES ASSUME Init PROVE BooleanTypes /\ Types
    OBVIOUS
  <1>1. FileTypes
    BY BoundsAssumption DEF Init, FileTypes, Unloaded, Nowhere, Files,
       Versions
  <1>2. LobTypes
    BY BoundsAssumption DEF Init, LobTypes, Unloaded, Nowhere, NoLog, Files,
       Versions, Handles
  <1>3. CountTypes /\ AtArchive
    BY BoundsAssumption, SizeAssumption DEF Init, CountTypes, AtArchive, PCs,
       Versions
  <1>4. SaveInv
    BY DEF Init, SaveInv, Nowhere
  <1>5. BooleanTypes
    BY DEF Init, BooleanTypes
  <1> QED
    BY <1>1, <1>2, <1>3, <1>4, <1>5 DEF Types

LEMMA TypesStep == Types /\ [Next]_vars => Types'
  BY FileTypesStep, LobTypesStep, CountTypesStep, SaveInvStep DEF Types

\* The variables of the archiver keep their types.
THEOREM ArchiverTypes == Spec => []TypeOK
<1>1. BooleanTypes /\ Types => TypeOK
  BY Zenon DEF TypeOK, BooleanTypes, Types, FileTypes, LobTypes, CountTypes
<1>2. BooleanTypes /\ Types /\ [Next]_vars => (BooleanTypes /\ Types)'
  BY BooleanTypesStep, TypesStep
<1> QED
  BY <1>1, <1>2, TypesInit, PTL DEF Spec

\* The inductive invariant of the theorems below.
IInv == BooleanTypes /\ Sound /\ (Intact => Quiet)

\* It holds initially, ...
LEMMA ArchiverInit == Stored = Archives /\ Init => IInv
  <1> SUFFICES ASSUME Stored = Archives, Init PROVE IInv
    OBVIOUS
  <1>1. BooleanTypes /\ Types
    BY TypesInit
  <1>2. Survival
    BY DEF Init, Survival, ExistInv, UndoneInv, PhaseInv, CommitInv, Missing,
       Unloaded, NoFile
  <1>3. Saving /\ UndoInv
    BY DEF Init, Saving, WrittenInv, RenamedInv, CleanInv, UndoInv
  <1>4. Quiet
    BY DEF Init, Quiet, LoadedInv, RecoveryInv, FilesInv, None, Unloaded,
       Nowhere
  <1> QED
    BY <1>1, <1>2, <1>3, <1>4 DEF IInv, Sound

\* ... every action keeps it, ...
LEMMA ArchiverStep == IInv /\ [Next]_vars => IInv'
  <1> SUFFICES ASSUME IInv, [Next]_vars PROVE IInv'
    OBVIOUS
  <1>1. BooleanTypes' /\ Types'
    BY BooleanTypesStep, TypesStep DEF IInv, Sound
  <1>2. Survival'
    BY ExistInvStep, UndoneInvStep, PhaseInvStep, CommitInvStep
    DEF IInv, Sound, Survival
  <1>3. Saving'
    BY WrittenInvStep, RenamedInvStep, CleanInvStep DEF IInv, Sound, Saving
  <1>4. UndoInv'
    BY UndoInvStep DEF IInv, Sound
  <1>5. ASSUME Intact' PROVE Quiet'
    <2>1. Intact
      BY <1>5, FaultsStepHolds DEF FaultsStep, Intact, IInv, Sound, Types,
         CountTypes
    <2> QED
      BY <1>5, <2>1, LoadedInvStep, RecoveryInvStep, FilesInvStep
      DEF IInv, Quiet
  <1> QED
    BY <1>1, <1>2, <1>3, <1>4, <1>5 DEF IInv, Sound

\* ... and so it is an invariant.
LEMMA ArchiverInvariant == ASSUME Stored = Archives PROVE Spec => []IInv
  BY ArchiverInit, ArchiverStep, PTL DEF Spec

\* Where every archive has a file from the start, each has a complete copy
\* in every state, whatever file operation of a save fails.
THEOREM ArchiveNeverLost ==
    ASSUME Stored = Archives PROVE Spec => []ArchiveSurvives
<1>1. IInv => ArchiveSurvives
  BY DEF IInv, Sound, Survival, UndoneInv, Missing, ArchiveSurvives
<1> QED
  BY <1>1, ArchiverInvariant, PTL

\* There, no archive is passed as saved that is not, and a save that returns
\* success has left none to save.
SavedStep == /\ pc = "unlink" /\ pc' = "commitESN" => orig[i] = mem[i]
             /\ Succeeds => Dirty' = {}

\* Every action respects SavedStep.
LEMMA SavedStepHolds == IInv /\ [Next]_vars => SavedStep
  <1> SUFFICES ASSUME IInv, [Next]_vars PROVE SavedStep
    OBVIOUS
  <1> USE SizeAssumption, BoundsAssumption DEF files, lobFiles, memory, esn,
     control, counts, Loop, Goto, Advance, At, Dirty, FileTypes, CountTypes,
     AtArchive, Types, SaveInv, Complete, Files, Versions, NoFile, Torn,
     Dirty, Archives, IInv, Sound, Survival, CommitInv, Saving, RenamedInv,
     StopsBy, CleanInv, SavedStep, Succeeds
  <1>1. CASE Lock  BY <1>1 DEF Lock, RecoveryStart
  <1>2. CASE Undo  BY <1>2 DEF Undo
  <1>3. CASE Purge  BY <1>3 DEF Purge
  <1>4. CASE PurgeLog  BY <1>4 DEF PurgeLog, NoLog
  <1>5. CASE Drop  BY <1>5 DEF Drop
  <1>6. CASE Replayed  BY <1>6 DEF Replayed, RemoveLog, NoLog
  <1>7. CASE Sweep  BY <1>7 DEF Sweep, Nowhere
  <1>8. CASE Playback  BY <1>8 DEF Playback
  <1>9. ASSUME NEW a \in Archives, Load(a) PROVE SavedStep
    BY <1>9 DEF Load, Content
  <1>10. ASSUME NEW a \in Archives, Edit(a) PROVE SavedStep
    BY <1>10 DEF Edit, Touch
  <1>11. ASSUME NEW l \in Lobs, Replace(l) PROVE SavedStep
    BY <1>11 DEF Replace, Touch
  <1>12. CASE Age  BY <1>12 DEF Age
  <1>13. CASE Rollback  BY <1>13 DEF Rollback
  <1>14. CASE RollbackOne
    BY <1>14 DEF RollbackOne, RecoveryStart, NoLog, LobsOf
  <1>15. ASSUME NEW r \in BOOLEAN, Save(r) PROVE SavedStep
    BY <1>15 DEF Save
  <1>16. CASE Write  BY <1>16 DEF Write
  <1>17. CASE Fill  BY <1>17 DEF Fill
  <1>18. CASE WriteFails  BY <1>18 DEF WriteFails, Fault, Return
  <1>19. CASE Keep  BY <1>19 DEF Keep, Kept, CloseCommitLog, KeepFile
  <1>20. CASE KeepFails
    BY <1>20 DEF KeepFails, Kept, CloseCommitLog, KeepFile, Fault
  <1>21. CASE CloseFails  BY <1>21 DEF CloseFails, Kept, Fault, Return
  <1>22. CASE Swap  BY <1>22 DEF Swap
  <1>23. CASE SwapFails  BY <1>23 DEF SwapFails, Fault
  <1>24. CASE CommitESN  BY <1>24 DEF CommitESN
  <1>25. CASE SkipClean  BY <1>25 DEF SkipClean, Return
  <1>26. CASE Played  BY <1>26 DEF Played, RemoveLog, NoLog, LobsOf
  <1>27. CASE Unlink  BY <1>27 DEF Unlink, Cleaned
  <1>28. CASE UnlinkFails  BY <1>28 DEF UnlinkFails, Cleaned, Fault, Return
  <1>29. CASE Crash  BY <1>29 DEF Crash, Unloaded, Nowhere
  <1>30. CASE UNCHANGED vars  BY <1>30 DEF vars
  <1> QED
    BY <1>1, <1>2, <1>3, <1>4, <1>5, <1>6, <1>7, <1>8, <1>9, <1>10, <1>11,
       <1>12, <1>13, <1>14, <1>15, <1>16, <1>17, <1>18, <1>19, <1>20,
       <1>21, <1>22, <1>23, <1>24, <1>25, <1>26, <1>27, <1>28, <1>29, <1>30
       DEF Next, Recover, Serialize

THEOREM SuccessMeansSaved ==
    ASSUME Stored = Archives PROVE Spec => SuccessIsSaved
<1>1. IInv /\ [Next]_vars => SavedStep
  BY SavedStepHolds
<1> QED
  BY <1>1, ArchiverInvariant, PTL DEF Spec, SuccessIsSaved, SavedStep

\* There, and while no file operation fails, the archiver keeps the promise of
\* AtomicTree: what a restart would load is the tree of a whole save.
THEOREM ArchiverRefinement ==
    ASSUME Stored = Archives PROVE Spec => ImplementsAtomicTree
<1>1. Init => Tree!Init
  BY BoundsAssumption DEF Init, Tree!Init, Recovered, Working, Content,
     Unloaded, Versions, NoFile
<1>2. IInv /\ [Next]_vars => [Tree!Next]_Tree!vars
  BY TreeStep DEF IInv
<1> QED
  BY <1>1, <1>2, ArchiverInvariant, PTL DEF Spec, Tree!Spec,
     ImplementsAtomicTree
-----------------------------------------------------------------------------
\* The large objects, as long as no file operation fails.  The invariant
\* follows a replacement from the buffer of the commit log to the object's
\* file.  LogInv is about the handlers of the logs, FreshInv about the
\* replacements that are not saved yet, and OwedInv about those that are saved
\* but not played back.
\* A log's entries are about its archive, and its ".mid" files are no older
\* than what is saved.
EntryInv ==
    /\ \A l \in Lobs, a \in Archives :
           l \in cmt[a].entries \cup pend[a] => Home[l] = a
    /\ pc \in {"play", "replay"} =>
           /\ cmt[i].exists
           /\ \A l \in play : Home[l] = i /\ l \in cmt[i].entries
    /\ \A l \in Lobs : mid[l] <= clock /\ lobSaved[l] <= clock
    /\ \A l \in Lobs : mid[l] # NoFile => mid[l] >= lobSaved[l]

\* A log is in use for what is changed, and closed by a save only.
LogInv ==
    /\ \A a \in Archives : log[a] # "none" => dirty[a] /\ cmt[a].exists
    /\ \A a \in Archives : log[a] # "open" => pend[a] = {}
    /\ pc \in {"open", "rollback", "write", "fill"} =>
           \A a \in Archives : log[a] # "closed"
    /\ pc = "keep" => \A a \in Archives : a < i => log[a] # "open"
    /\ pc = "swap" => \A a \in Archives : log[a] # "open"
    /\ pc = "unlink" => log[i] = "none"
    /\ pc = "play" => log[i] = "open"

\* A replacement that is not saved has its ".mid" file and its entry.
Recorded(l) == mid[l] # NoFile /\ l \in cmt[Home[l]].entries \cup pend[Home[l]]
FreshInv ==
    /\ \A l \in fresh : log[Home[l]] # "none"
    /\ pc \in {"open", "write", "fill", "keep"} => \A l \in fresh : Recorded(l)
    /\ pc = "swap" /\ ~None(temp) => \A l \in fresh : Recorded(l)

\* The object's file has what is saved, or a later content; or the ".mid"
\* file has it and the log that will be played names it.
Settled(l) == lob[l] # NoFile /\ lob[l] >= lobSaved[l]
Owed(l) ==
    LET a == Home[l]
    IN  /\ mid[l] # NoFile
        /\ cmt[a].exists
        /\ l \in cmt[a].entries
        /\ None(temp)
        /\ pc \in {"idle", "drop", "replay", "swap", "commitESN", "play",
                   "unlink"}
        /\ pc \in {"drop", "replay", "commitESN", "play", "unlink"} => i <= a
        /\ pc \in {"swap", "commitESN", "play", "unlink"} => log[a] # "none"
        /\ pc \in {"play", "replay"} /\ i = a => l \in play

OwedInv == \A l \in Lobs : Settled(l) \/ Owed(l)

Logged == EntryInv /\ LogInv /\ FreshInv /\ OwedInv

\* What the steps that write a commit log do to it and to what it is about.
Replaced(l) ==
    LET a == Home[l]
    IN  /\ pc = "open" /\ clock' = clock + 1 /\ clock \in Nat
        /\ UNCHANGED <<temp, lob, pc, i, play, lobSaved>>
        /\ mid' = [mid EXCEPT ![l] = clock + 1]
        /\ dirty' = [dirty EXCEPT ![a] = TRUE]
        /\ fresh' = fresh \cup {l}
        /\ a \in Archives
        /\ \A b \in Archives : b # a => /\ cmt'[b] = cmt[b]
                                       /\ log'[b] = log[b]
                                       /\ pend'[b] = pend[b]
        /\ cmt'[a].exists
        /\ cmt'[a].entries = cmt[a].entries \cup pend[a]
        /\ log'[a] = "open"
        /\ pend'[a] = {l}

LobKept ==
    /\ pc = "keep"
    /\ UNCHANGED <<temp, dirty, lob, mid, fresh, clock, play, lobSaved>>
    /\ \/ i > N /\ pc' = "swap"
          /\ UNCHANGED <<cmt, log, pend>>
       \/ /\ i \in Archives /\ pc' = pc /\ i' = i + 1
          /\ \A a \in Archives : a # i => /\ cmt'[a] = cmt[a]
                                         /\ log'[a] = log[a]
                                         /\ pend'[a] = pend[a]
          /\ cmt'[i].exists = cmt[i].exists
          /\ cmt'[i].entries = cmt[i].entries \cup pend[i]
          /\ log'[i] = IF log[i] = "open" THEN "closed" ELSE log[i]
          /\ pend'[i] = {}

\* The last rename of a save makes what is recorded the saved content.
LobSwap ==
    /\ pc = "swap" /\ pc' = pc /\ ~None(temp)
    /\ UNCHANGED <<dirty, cmt, log, pend, lob, mid, fresh, clock, lobSaved>>
       \/ /\ UNCHANGED <<dirty, cmt, log, pend, lob, mid, fresh, clock>>
          /\ None(temp')
          /\ \A l \in Lobs :
                 lobSaved'[l] = IF l \in fresh /\ mid[l] # NoFile
                                  THEN mid[l] ELSE lobSaved[l]

\* A replacement finds no closed log and enters its own record.
LEMMA ReplaceFacts ==
    ASSUME Types, LogInv, NEW l \in Lobs, Replace(l) PROVE Replaced(l)
  <1>1. Home[l] \in Archives /\ Touch(Home[l])
    BY HomeAssumption DEF Replace
  <1>2. log[Home[l]] # "closed"
    BY <1>1 DEF Touch, LogInv
  <1>3. /\ pc = "open" /\ clock' = clock + 1 /\ clock \in Nat
        /\ dirty' = [dirty EXCEPT ![Home[l]] = TRUE]
        /\ UNCHANGED <<temp, pc, i, play, lobSaved>>
    BY <1>1, BoundsAssumption
    DEF Touch, files, control, Types, CountTypes, Versions
  <1> QED
    BY <1>1, <1>2, <1>3 DEF Replace, Replaced, Types, LobTypes

\* A step of the first loop of renames flushes the archive's log.
LEMMA KeepFacts ==
    ASSUME Types, Survival, LogInv, Keep PROVE LobKept
  <1> USE SizeAssumption DEF Archives, Types, LobTypes, FileTypes, CountTypes,
     LogInv, Handles
  <1>1. \A a \in Archives : dirty[a] => exist[a]
    BY DEF SaveInv, Survival, ExistInv
  <1>2. CASE Loop("keep", Kept, "swap")
    <2>1. ASSUME i <= N PROVE log[i] # "open" /\ pend[i] = {}
      BY <1>1, <1>2, <2>1 DEF Loop, Kept, Dirty
    <2> QED
      BY <1>2, <2>1 DEF Loop, Goto, Advance, LobKept, files, lobFiles, memory,
         esn, counts
  <1>3. CASE ~Loop("keep", Kept, "swap")
    <2>1. /\ pc = "keep" /\ i \in Archives /\ CloseCommitLog
          /\ UNCHANGED <<temp, dirty, lob, mid, fresh, clock, play, lobSaved>>
          /\ pc' = pc /\ i' = i + 1
      BY <1>3 DEF Keep, At, Kept, Dirty, Advance, memory, counts
    <2> QED  BY <2>1 DEF CloseCommitLog, LobKept
  <1> QED  BY <1>2, <1>3

\* A rename of a ".temp" file finds one, so the save was not complete yet.
LEMMA SwapFacts ==
    ASSUME Types, Swap PROVE Loop("swap", Dirty, "commitESN") \/ LobSwap
  <1> SUFFICES ASSUME ~Loop("swap", Dirty, "commitESN") PROVE LobSwap
    OBVIOUS
  <1>1. /\ pc = "swap" /\ pc' = pc /\ i \in Archives /\ dirty[i]
        /\ UNCHANGED <<dirty, cmt, log, pend, lob, mid, fresh, clock>>
        /\ \/ lobSaved' = lobSaved
           \/ /\ None(temp')
              /\ lobSaved' = [l \in Lobs |->
                    IF l \in fresh /\ mid[l] # NoFile
                      THEN mid[l] ELSE lobSaved[l]]
    BY DEF Swap, At, Dirty, Advance, None, lobFiles, memory, esn, counts
  <1>2. temp[i] # NoFile
    BY <1>1, BoundsAssumption
    DEF Types, SaveInv, CountTypes, Complete, NoFile, Versions, Archives
  <1> QED  BY <1>1, <1>2 DEF LobSwap, None

\* Versions are numbers.
LEMMA Numbers ==
    Types => /\ clock \in Nat
             /\ \A l \in Lobs : mid[l] \in Int /\ lobSaved[l] \in Int
  BY BoundsAssumption DEF Types, LobTypes, CountTypes, Files, Versions, NoFile

\* Entries, ".mid" files and what is saved: what a step has to respect.
LEMMA EntryFrame ==
    ASSUME Types, EntryInv,
           clock' \in {clock, clock + 1},
           \A l \in Lobs : mid'[l] \in {mid[l], NoFile, clock'},
           \A l \in Lobs : lobSaved'[l] = lobSaved[l],
           \A l \in Lobs, a \in Archives :
               l \in cmt'[a].entries \cup pend'[a]
                   => l \in cmt[a].entries \cup pend[a] \/ Home[l] = a,
           pc' \in {"play", "replay"}
               => /\ pc' = pc /\ i' = i /\ play' \subseteq play
                  /\ cmt' = cmt
    PROVE  EntryInv'
  <1>1. \A l \in Lobs, a \in Archives :
            l \in cmt'[a].entries \cup pend'[a] => Home[l] = a
    BY Zenon DEF EntryInv
  <1>2. pc' \in {"play", "replay"} =>
            /\ cmt'[i'].exists
            /\ \A l \in play' : Home[l] = i' /\ l \in cmt'[i'].entries
    BY DEF EntryInv
  <1>3. ASSUME NEW l \in Lobs
        PROVE  /\ mid'[l] <= clock' /\ lobSaved'[l] <= clock'
               /\ mid'[l] # NoFile => mid'[l] >= lobSaved'[l]
    <2>1. /\ clock \in Nat /\ mid[l] \in Int /\ lobSaved[l] \in Int
          /\ mid[l] <= clock /\ lobSaved[l] <= clock
          /\ mid[l] # NoFile => mid[l] >= lobSaved[l]
      BY Numbers DEF EntryInv
    <2>2. mid'[l] \in {mid[l], NoFile, clock'} /\ lobSaved'[l] = lobSaved[l]
      OBVIOUS
    <2> QED  BY <2>1, <2>2 DEF NoFile
  <1> QED  BY <1>1, <1>2, <1>3, Zenon DEF EntryInv

\* A replacement's entry is about its archive, and its content the latest.
LEMMA ReplaceEntry ==
    ASSUME Types, EntryInv, NEW l \in Lobs, Replaced(l) PROVE EntryInv'
  <1>1. \A k \in Lobs : mid'[k] \in {mid[k], NoFile, clock'}
    BY DEF Replaced, Types, LobTypes
  <1>2. ASSUME NEW k \in Lobs, NEW a \in Archives,
               k \in cmt'[a].entries \cup pend'[a]
        PROVE  k \in cmt[a].entries \cup pend[a] \/ Home[k] = a
    BY <1>2 DEF Replaced
  <1>3. /\ clock' = clock + 1 /\ lobSaved' = lobSaved
        /\ pc' = "open"
    BY DEF Replaced
  <1> QED  BY <1>1, <1>2, <1>3, EntryFrame

\* What a save makes the saved content is no newer than the ".mid" file.
LEMMA SwapEntry == ASSUME Types, EntryInv, LobSwap PROVE EntryInv'
  <1>1. /\ UNCHANGED <<cmt, pend, mid, clock>>
        /\ pc' \notin {"play", "replay"}
    BY DEF LobSwap
  <1>2. ASSUME NEW l \in Lobs
        PROVE  /\ mid'[l] <= clock' /\ lobSaved'[l] <= clock'
               /\ mid'[l] # NoFile => mid'[l] >= lobSaved'[l]
    <2>1. lobSaved'[l] \in {lobSaved[l], mid[l]}
      BY DEF LobSwap
    <2>2. mid[l] \in Int
      BY Numbers
    <2> QED  BY <1>1, <2>1, <2>2 DEF EntryInv
  <1> QED  BY <1>1, <1>2 DEF EntryInv

\* A replacement opens the log of an archive that it changes.
LEMMA ReplaceLog ==
    ASSUME Types, LogInv, NEW l \in Lobs, Replaced(l) PROVE LogInv'
  <1>1. /\ pc = "open" /\ pc' = "open" /\ Home[l] \in Archives
        /\ cmt'[Home[l]].exists /\ log'[Home[l]] = "open"
    BY DEF Replaced
  <1>2. dirty'[Home[l]]
    BY <1>1 DEF Replaced, Types, FileTypes
  <1>3. ASSUME NEW a \in Archives, a # Home[l]
        PROVE  /\ cmt'[a] = cmt[a] /\ log'[a] = log[a] /\ pend'[a] = pend[a]
               /\ dirty'[a] = dirty[a]
    BY <1>3 DEF Replaced, Types, FileTypes
  <1> QED  BY <1>1, <1>2, <1>3 DEF LogInv

\* The logs of the archives that the loop has passed are not open.
LEMMA KeepLog == ASSUME Types, LogInv, LobKept PROVE LogInv'
  <1> USE DEF Types, CountTypes, Archives
  <1>1. CASE i > N
    BY <1>1, SizeAssumption DEF LobKept, LogInv
  <1>2. CASE i \in Archives
    <2>1. /\ pc = "keep" /\ pc' = pc /\ i' = i + 1 /\ dirty' = dirty
          /\ cmt'[i].exists = cmt[i].exists
          /\ log'[i] = (IF log[i] = "open" THEN "closed" ELSE log[i])
          /\ pend'[i] = {}
      BY <1>2, SizeAssumption DEF LobKept
    <2>2. \A a \in Archives : a # i =>
              cmt'[a] = cmt[a] /\ log'[a] = log[a] /\ pend'[a] = pend[a]
      BY <1>2, SizeAssumption DEF LobKept
    <2>3. \A a \in Archives : a < i' => a < i \/ a = i
      BY <2>1, SizeAssumption
    <2> QED  BY <1>2, <2>1, <2>2, <2>3 DEF LogInv
  <1> QED  BY <1>1, <1>2, SizeAssumption

\* A rollback leaves no log for the archive.
LEMMA RollbackLog ==
    ASSUME LogInv, pc = "rollback", pc' = pc, i \in Archives,
           \A a \in Archives : a # i => /\ cmt'[a] = cmt[a] /\ log'[a] = log[a]
                                       /\ pend'[a] = pend[a]
                                       /\ dirty'[a] = dirty[a],
           log'[i] = "none", pend'[i] = {}
    PROVE  LogInv'
  BY DEF LogInv

\* The second loop of renames does not touch the logs.
LEMMA SameLog ==
    ASSUME LogInv, pc = "swap", pc' \in {"swap", "commitESN"},
           UNCHANGED <<cmt, log, pend, dirty>>
    PROVE  LogInv'
  BY DEF LogInv

\* The log of a changed archive is opened again, if there is one.
LEMMA CommitLog ==
    ASSUME LogInv, pc = "commitESN", i \in Archives, dirty[i],
           dirty' = dirty, i' = i,
           \A a \in Archives : a # i => /\ cmt'[a] = cmt[a] /\ log'[a] = log[a]
                                       /\ pend'[a] = pend[a],
           \/ /\ log[i] = "none" /\ pc' = "unlink"
              /\ UNCHANGED <<cmt, log, pend>>
           \/ /\ pc' = "play" /\ cmt'[i].exists /\ log'[i] = "open"
              /\ pend'[i] = {}
    PROVE  LogInv'
  BY DEF LogInv

\* A replacement and those before it are recorded.
LEMMA ReplaceFresh ==
    ASSUME Types, FreshInv, NEW l \in Lobs, Replaced(l) PROVE FreshInv'
  <1>1. pc = "open" /\ pc' = "open" /\ fresh' = fresh \cup {l}
    BY DEF Replaced
  <1>2. ASSUME NEW k \in fresh'
        PROVE  log'[Home[k]] # "none" /\ Recorded(k)'
    <2>1. k \in Lobs /\ Home[k] \in Archives
      BY <1>1, <1>2, HomeAssumption DEF Types, LobTypes
    <2>2. k # l => log[Home[k]] # "none" /\ Recorded(k)
      BY <1>1, <1>2 DEF FreshInv
    <2>3. log'[Home[k]] # "none"
      BY <2>1, <2>2 DEF Replaced
    <2>4. mid'[k] # NoFile
      BY <2>1, <2>2 DEF Replaced, Recorded, NoFile, Types, LobTypes
    <2>5. k \in cmt'[Home[k]].entries \cup pend'[Home[k]]
      BY <2>1, <2>2 DEF Replaced, Recorded
    <2> QED  BY <2>3, <2>4, <2>5 DEF Recorded
  <1> QED  BY <1>1, <1>2 DEF FreshInv

\* One record of a log is played back.
LEMMA PlaybackOwed ==
    ASSUME Types, EntryInv, LogInv, None(temp),
           NEW l \in Lobs, Settled(l) \/ Owed(l), Playback
    PROVE  Settled(l)' \/ Owed(l)'
  <1>1. /\ pc \in {"play", "replay"}
        /\ UNCHANGED <<temp, cmt, log, pc, i, lobSaved>>
    BY DEF Playback, files, esn
  <1>2. PICK k \in play :
            \/ /\ mid[k] = NoFile /\ play' = play \ {k}
               /\ UNCHANGED <<lob, mid>>
            \/ /\ mid[k] # NoFile /\ lob' = [lob EXCEPT ![k] = NoFile]
               /\ UNCHANGED <<mid, play>>
            \/ /\ mid[k] # NoFile /\ lob' = [lob EXCEPT ![k] = mid[k]]
               /\ mid' = [mid EXCEPT ![k] = NoFile]
               /\ play' = play \ {k}
    BY Zenon DEF Playback
  <1>3. None(temp)'
    BY <1>1 DEF None
  <1>4. CASE k = l
    <2>1. /\ Home[l] = i /\ l \in cmt[i].entries /\ cmt[i].exists
          /\ pc = "play" => log[i] # "none"
      BY <1>1, <1>4 DEF EntryInv, LogInv
    <2>2. CASE mid[l] = NoFile
      BY <1>1, <1>2, <1>4, <2>2 DEF Settled, Owed
    <2>3. CASE mid[l] # NoFile /\ UNCHANGED <<mid, play>>
      <3>1. i <= Home[l]
        BY <2>1 DEF Types, CountTypes
      <3> QED  BY <1>1, <1>3, <1>4, <2>1, <2>3, <3>1 DEF Owed
    <2>4. CASE mid[l] # NoFile /\ lob' = [lob EXCEPT ![k] = mid[k]]
      <3>1. lob'[l] = mid[l]
        BY <1>4, <2>4 DEF Types, LobTypes
      <3>2. mid[l] >= lobSaved[l]
        BY <2>4 DEF EntryInv
      <3> QED  BY <1>1, <2>4, <3>1, <3>2 DEF Settled
    <2> QED  BY <1>2, <1>4, <2>2, <2>3, <2>4
  <1>5. CASE k # l
    <2>1. /\ lob'[l] = lob[l] /\ mid'[l] = mid[l]
          /\ l \in play => l \in play'
      BY <1>2, <1>5 DEF Types, LobTypes
    <2> QED  BY <1>1, <1>3, <2>1 DEF Settled, Owed
  <1> QED  BY <1>4, <1>5

\* Nothing else fails where no file operation does.
LEMMA NothingFails ==
    Sound /\ Quiet /\ Intact /\ Intact' => ~KeepFails /\ ~UnlinkFails
  <1> SUFFICES ASSUME Sound, Quiet, Intact, Intact'
               PROVE  ~KeepFails /\ ~UnlinkFails
    OBVIOUS
  <1>1. ~Fault
    BY DEF Fault, Intact
  <1>2. ~KeepFails
    BY <1>1 DEF KeepFails, At, Kept, Dirty, Quiet, FilesInv, Missing, Sound,
       Types, CountTypes, Archives
  <1>3. ~UnlinkFails
    <2> SUFFICES ASSUME pc = "unlink" PROVE bak[i] # NoFile
      BY <1>1 DEF UnlinkFails
    <2>1. i \in Archives
      BY SizeAssumption DEF Sound, Types, CountTypes, AtArchive, Archives
    <2>2. dirty[i]
      BY DEF Sound, Survival, CommitInv
    <2> QED  BY <2>1, <2>2 DEF Quiet, FilesInv
  <1> QED  BY <1>2, <1>3

\* As long as no file operation fails, every action keeps Logged: one lemma
\* per part of it.
LEMMA EntryInvStep ==
    Sound /\ Quiet /\ Intact /\ Intact' /\ Logged /\ [Next]_vars => EntryInv'
  <1> SUFFICES ASSUME Sound, Quiet, Intact, Intact', Logged, [Next]_vars
               PROVE  EntryInv'
    OBVIOUS
  <1> USE SizeAssumption, BoundsAssumption, HomeAssumption
     DEF files, lobFiles, memory, esn, control, counts, Loop, Goto, Advance,
     At, Dirty, Archives, FileTypes, LobTypes, CountTypes, AtArchive, Types,
     Files, Versions, NoFile, Handles, Sound, Quiet, Intact, None, LoadedInv,
     RecoveryInv, Logged, EntryInv, LogInv
  <1>1. CASE Lock
    BY <1>1 DEF Lock, RecoveryStart
  <1>2. CASE Undo
    BY <1>2 DEF Undo
  <1>3. CASE Purge
    BY <1>3 DEF Purge
  <1>4. CASE PurgeLog
    BY <1>4 DEF PurgeLog, NoLog
  <1>5. CASE Drop
    BY <1>5 DEF Drop
  <1>6. CASE Replayed
    BY <1>6 DEF Replayed, RemoveLog, NoLog
  <1>7. CASE Sweep
    BY <1>7 DEF Sweep, Nowhere
  <1>8. CASE Playback
    <2>1. /\ pc \in {"play", "replay"} /\ play' \subseteq play
          /\ UNCHANGED <<cmt, pend, pc, i, clock, lobSaved>>
      BY <1>8 DEF Playback
    <2>2. \A l \in Lobs : mid'[l] \in {mid[l], NoFile}
      BY <1>8 DEF Playback
    <2> QED  BY <2>1, <2>2, EntryFrame
  <1>9. ASSUME NEW a \in Archives, Load(a) PROVE EntryInv'
    BY <1>9 DEF Load, Content
  <1>10. ASSUME NEW a \in Archives, Edit(a) PROVE EntryInv'
    <2>1. /\ clock' = clock + 1 /\ clock \in Nat
          /\ UNCHANGED <<cmt, pend, mid, pc, i, play, lobSaved>>
      BY <1>10 DEF Edit, Touch
    <2> QED  BY <2>1, EntryFrame
  <1>11. ASSUME NEW l \in Lobs, Replace(l) PROVE EntryInv'
    <2>1. Replaced(l)
      BY <1>11, ReplaceFacts
    <2> QED  BY <2>1, ReplaceEntry
  <1>12. CASE Age
    BY <1>12 DEF Age
  <1>13. CASE Rollback
    BY <1>13 DEF Rollback
  <1>14. CASE RollbackOne
    <2>1. /\ pc = "rollback" /\ UNCHANGED <<clock, lobSaved>>
          /\ pc' \notin {"play", "replay"}
      BY <1>14 DEF RollbackOne, RecoveryStart
    <2>2. \A l \in Lobs : mid'[l] \in {mid[l], NoFile}
      BY <1>14 DEF RollbackOne
    <2>3. \A a \in Archives : /\ cmt'[a] \in {cmt[a], NoLog}
                              /\ pend'[a] \in {pend[a], {}}
      BY <1>14 DEF RollbackOne
    <2>4. ASSUME NEW k \in Lobs, NEW a \in Archives,
                 k \in cmt'[a].entries \cup pend'[a]
          PROVE  k \in cmt[a].entries \cup pend[a]
      <3>1. cmt'[a].entries \in {cmt[a].entries, {}}
        <4>1. NoLog.entries = {}
          BY Zenon DEF NoLog
        <4> QED  BY <2>3, <4>1, Zenon
      <3> QED  BY <2>3, <2>4, <3>1, Zenon
    <2> QED  BY <2>1, <2>2, <2>4, EntryFrame
  <1>15. ASSUME NEW r \in BOOLEAN, Save(r) PROVE EntryInv'
    BY <1>15 DEF Save
  <1>16. CASE Write
    BY <1>16 DEF Write
  <1>17. CASE Fill
    BY <1>17 DEF Fill
  <1>18. CASE WriteFails
    BY <1>18 DEF WriteFails, Fault, Return
  <1>19. CASE Keep
    <2>1. LobKept
      BY <1>19, KeepFacts
    <2> QED  BY <2>1 DEF LobKept
  <1>20. CASE KeepFails
    BY <1>20 DEF KeepFails, Kept, CloseCommitLog, KeepFile, Fault
  <1>21. CASE CloseFails
    BY <1>21 DEF CloseFails, Kept, Fault, Return
  <1>22. CASE Swap
    <2>1. Loop("swap", Dirty, "commitESN") \/ LobSwap
      BY <1>22, SwapFacts
    <2>2. CASE Loop("swap", Dirty, "commitESN")
      BY <2>2
    <2>3. CASE LobSwap
      BY <2>3, SwapEntry
    <2> QED  BY <2>1, <2>2, <2>3
  <1>23. CASE SwapFails
    BY <1>23 DEF SwapFails, Fault
  <1>24. CASE CommitESN
    BY <1>24 DEF CommitESN
  <1>25. CASE SkipClean
    BY <1>25 DEF SkipClean, Return
  <1>26. CASE Played
    BY <1>26 DEF Played, RemoveLog, NoLog, LobsOf
  <1>27. CASE Unlink
    BY <1>27 DEF Unlink, Cleaned
  <1>28. CASE UnlinkFails
    BY <1>28 DEF UnlinkFails, Cleaned, Fault, Return
  <1>29. CASE Crash
    BY <1>29 DEF Crash, Unloaded, Nowhere
  <1>30. CASE UNCHANGED vars
    BY <1>30 DEF vars
  <1> QED
    BY <1>1, <1>2, <1>3, <1>4, <1>5, <1>6, <1>7, <1>8, <1>9, <1>10, <1>11,
       <1>12, <1>13, <1>14, <1>15, <1>16, <1>17, <1>18, <1>19, <1>20,
       <1>21, <1>22, <1>23, <1>24, <1>25, <1>26, <1>27, <1>28, <1>29, <1>30
       DEF Next, Recover, Serialize

\* The logs are used as LogInv says.
LEMMA LogInvStep ==
    Sound /\ Quiet /\ Intact /\ Intact' /\ Logged /\ [Next]_vars => LogInv'
  <1> SUFFICES ASSUME Sound, Quiet, Intact, Intact', Logged, [Next]_vars
               PROVE  LogInv'
    OBVIOUS
  <1> USE SizeAssumption, BoundsAssumption, HomeAssumption
     DEF files, lobFiles, memory, esn, control, counts, Loop, Goto, Advance,
     At, Dirty, Archives, FileTypes, LobTypes, CountTypes, AtArchive, Types,
     Files, Versions, NoFile, Handles, Sound, Quiet, Intact, None, LoadedInv,
     RecoveryInv, Logged, EntryInv, LogInv
  <1>1. CASE Lock
    BY <1>1 DEF Lock, RecoveryStart
  <1>2. CASE Undo
    BY <1>2 DEF Undo
  <1>3. CASE Purge
    BY <1>3 DEF Purge
  <1>4. CASE PurgeLog
    BY <1>4 DEF PurgeLog, NoLog
  <1>5. CASE Drop
    BY <1>5 DEF Drop
  <1>6. CASE Replayed
    BY <1>6 DEF Replayed, RemoveLog, NoLog
  <1>7. CASE Sweep
    BY <1>7 DEF Sweep, Nowhere
  <1>8. CASE Playback
    BY <1>8 DEF Playback
  <1>9. ASSUME NEW a \in Archives, Load(a) PROVE LogInv'
    BY <1>9 DEF Load, Content
  <1>10. ASSUME NEW a \in Archives, Edit(a) PROVE LogInv'
    BY <1>10 DEF Edit, Touch
  <1>11. ASSUME NEW l \in Lobs, Replace(l) PROVE LogInv'
    <2>1. Replaced(l)
      BY <1>11, ReplaceFacts
    <2> QED  BY <2>1, ReplaceLog
  <1>12. CASE Age
    BY <1>12 DEF Age
  <1>13. CASE Rollback
    BY <1>13 DEF Rollback
  <1>14. CASE RollbackOne
    <2>1. CASE Loop("rollback", Dirty, RecoveryStart)
      <3>1. pc' \notin {"open", "write", "fill", "keep", "swap", "unlink",
                        "play"} \/ pc' = pc
        BY <2>1 DEF RecoveryStart
      <3> QED  BY <2>1, <3>1
    <2>2. CASE ~Loop("rollback", Dirty, RecoveryStart)
      <3>1. /\ pc = "rollback" /\ pc' = pc /\ i \in Archives
            /\ \A a \in Archives : a # i =>
                   /\ cmt'[a] = cmt[a] /\ log'[a] = log[a]
                   /\ pend'[a] = pend[a] /\ dirty'[a] = dirty[a]
            /\ log'[i] = "none" /\ pend'[i] = {}
        BY <1>14, <2>2 DEF RollbackOne
      <3> QED  BY <3>1, RollbackLog
    <2> QED  BY <2>1, <2>2
  <1>15. ASSUME NEW r \in BOOLEAN, Save(r) PROVE LogInv'
    BY <1>15 DEF Save
  <1>16. CASE Write
    BY <1>16 DEF Write
  <1>17. CASE Fill
    BY <1>17 DEF Fill
  <1>18. CASE WriteFails
    BY <1>18 DEF WriteFails, Fault, Return
  <1>19. CASE Keep
    <2>1. LobKept
      BY <1>19, KeepFacts
    <2> QED  BY <2>1, KeepLog
  <1>20. CASE KeepFails
    BY <1>20, NothingFails
  <1>21. CASE CloseFails
    BY <1>21 DEF CloseFails, Kept, Fault, Return
  <1>22. CASE Swap
    <2>1. CASE Loop("swap", Dirty, "commitESN")
      <3>1. /\ pc = "swap" /\ pc' \in {"swap", "commitESN"}
            /\ UNCHANGED <<cmt, log, pend, dirty>>
        BY <2>1, Zenon
      <3> QED  BY <3>1, SameLog
    <2>2. CASE LobSwap
      <3>1. /\ pc = "swap" /\ pc' = pc /\ UNCHANGED <<cmt, log, pend, dirty>>
        BY <2>2, Zenon DEF LobSwap
      <3> QED  BY <3>1, SameLog
    <2> QED  BY <1>22, <2>1, <2>2, SwapFacts
  <1>23. CASE SwapFails
    BY <1>23 DEF SwapFails, Fault
  <1>24. CASE CommitESN
    <2>1. /\ pc = "commitESN" /\ i \in Archives /\ dirty[i]
          /\ dirty' = dirty /\ i' = i
          /\ \A a \in Archives : a # i => /\ cmt'[a] = cmt[a]
                                         /\ log'[a] = log[a]
                                         /\ pend'[a] = pend[a]
      BY <1>24 DEF CommitESN
    <2>2. \/ /\ log[i] = "none" /\ pc' = "unlink"
             /\ UNCHANGED <<cmt, log, pend>>
          \/ /\ pc' = "play" /\ cmt'[i].exists /\ log'[i] = "open"
             /\ pend'[i] = {}
      BY <1>24 DEF CommitESN
    <2> QED  BY <2>1, <2>2, CommitLog
  <1>25. CASE SkipClean
    <2>1. i > N => \A a \in Archives : ~dirty[a]
      BY <1>25 DEF SkipClean, Saving, CleanInv
    <2>2. /\ UNCHANGED <<cmt, log, pend, dirty>>
          /\ \/ i > N /\ pc' \in {"idle", "open"}
             \/ pc' = pc
          /\ pc = "commitESN"
      BY <1>25 DEF SkipClean, Return
    <2> QED  BY <2>1, <2>2
  <1>26. CASE Played
    BY <1>26 DEF Played, RemoveLog, NoLog, LobsOf
  <1>27. CASE Unlink
    BY <1>27 DEF Unlink, Cleaned
  <1>28. CASE UnlinkFails
    BY <1>28, NothingFails
  <1>29. CASE Crash
    BY <1>29 DEF Crash, Unloaded, Nowhere
  <1>30. CASE UNCHANGED vars
    BY <1>30 DEF vars
  <1> QED
    BY <1>1, <1>2, <1>3, <1>4, <1>5, <1>6, <1>7, <1>8, <1>9, <1>10, <1>11,
       <1>12, <1>13, <1>14, <1>15, <1>16, <1>17, <1>18, <1>19, <1>20,
       <1>21, <1>22, <1>23, <1>24, <1>25, <1>26, <1>27, <1>28, <1>29, <1>30
       DEF Next, Recover, Serialize

\* What is not saved stays recorded.
LEMMA FreshInvStep ==
    Sound /\ Quiet /\ Intact /\ Intact' /\ Logged /\ [Next]_vars => FreshInv'
  <1> SUFFICES ASSUME Sound, Quiet, Intact, Intact', Logged, [Next]_vars
               PROVE  FreshInv'
    OBVIOUS
  <1> USE SizeAssumption, BoundsAssumption, HomeAssumption
     DEF files, lobFiles, memory, esn, control, counts, Loop, Goto, Advance,
     At, Dirty, Archives, FileTypes, LobTypes, CountTypes, AtArchive, Types,
     Files, Versions, NoFile, Handles, Sound, Quiet, Intact, None, LoadedInv,
     RecoveryInv, Logged, EntryInv, LogInv, FreshInv,
     Recorded
  <1>1. CASE Lock
    BY <1>1 DEF Lock, RecoveryStart
  <1>2. CASE Undo
    BY <1>2 DEF Undo
  <1>3. CASE Purge
    BY <1>3 DEF Purge
  <1>4. CASE PurgeLog
    BY <1>4 DEF PurgeLog, NoLog
  <1>5. CASE Drop
    BY <1>5 DEF Drop
  <1>6. CASE Replayed
    BY <1>6 DEF Replayed, RemoveLog, NoLog
  <1>7. CASE Sweep
    BY <1>7 DEF Sweep, Nowhere
  <1>8. CASE Playback
    BY <1>8 DEF Playback
  <1>9. ASSUME NEW a \in Archives, Load(a) PROVE FreshInv'
    BY <1>9 DEF Load, Content
  <1>10. ASSUME NEW a \in Archives, Edit(a) PROVE FreshInv'
    BY <1>10 DEF Edit, Touch
  <1>11. ASSUME NEW l \in Lobs, Replace(l) PROVE FreshInv'
    <2>1. Replaced(l)
      BY <1>11, ReplaceFacts
    <2> QED  BY <2>1, ReplaceFresh
  <1>12. CASE Age
    BY <1>12 DEF Age
  <1>13. CASE Rollback
    BY <1>13 DEF Rollback
  <1>14. CASE RollbackOne
    BY SMTT(30), <1>14 DEF RollbackOne, RecoveryStart, NoLog, LobsOf
  <1>15. ASSUME NEW r \in BOOLEAN, Save(r) PROVE FreshInv'
    BY <1>15 DEF Save
  <1>16. CASE Write
    BY <1>16 DEF Write
  <1>17. CASE Fill
    BY <1>17 DEF Fill
  <1>18. CASE WriteFails
    BY <1>18 DEF WriteFails, Fault, Return
  <1>19. CASE Keep
    <2>1. LobKept
      BY <1>19, KeepFacts
    <2> QED  BY <2>1 DEF LobKept
  <1>20. CASE KeepFails
    BY <1>20 DEF KeepFails, Kept, CloseCommitLog, KeepFile, Fault
  <1>21. CASE CloseFails
    BY <1>21 DEF CloseFails, Kept, Fault, Return
  <1>22. CASE Swap
    <2>1. Loop("swap", Dirty, "commitESN") \/ LobSwap
      BY <1>22, SwapFacts
    <2>2. CASE Loop("swap", Dirty, "commitESN")
      BY <2>2
    <2>3. CASE LobSwap
      BY <2>3 DEF LobSwap
    <2> QED  BY <2>1, <2>2, <2>3
  <1>23. CASE SwapFails
    BY <1>23 DEF SwapFails, Fault
  <1>24. CASE CommitESN
    BY <1>24 DEF CommitESN
  <1>25. CASE SkipClean
    BY <1>25 DEF SkipClean, Return, Saving, CleanInv
  <1>26. CASE Played
    BY <1>26 DEF Played, RemoveLog, NoLog, LobsOf
  <1>27. CASE Unlink
    BY <1>27 DEF Unlink, Cleaned
  <1>28. CASE UnlinkFails
    BY <1>28, NothingFails
  <1>29. CASE Crash
    BY <1>29 DEF Crash, Unloaded, Nowhere
  <1>30. CASE UNCHANGED vars
    BY <1>30 DEF vars
  <1> QED
    BY <1>1, <1>2, <1>3, <1>4, <1>5, <1>6, <1>7, <1>8, <1>9, <1>10, <1>11,
       <1>12, <1>13, <1>14, <1>15, <1>16, <1>17, <1>18, <1>19, <1>20,
       <1>21, <1>22, <1>23, <1>24, <1>25, <1>26, <1>27, <1>28, <1>29, <1>30
       DEF Next, Recover, Serialize

\* What is saved stays with the object or owed to it.
LEMMA OwedInvStep ==
    Sound /\ Quiet /\ Intact /\ Intact' /\ Logged /\ [Next]_vars => OwedInv'
  <1> SUFFICES ASSUME Sound, Quiet, Intact, Intact', Logged, [Next]_vars,
                      NEW l \in Lobs
               PROVE  Settled(l)' \/ Owed(l)'
    BY DEF OwedInv
  <1> USE SizeAssumption, BoundsAssumption, HomeAssumption
     DEF files, lobFiles, memory, esn, control, counts, Loop, Goto, Advance,
     At, Dirty, Archives, FileTypes, LobTypes, CountTypes, AtArchive, Types,
     Files, Versions, NoFile, Handles, Sound, Quiet, Intact, None, LoadedInv,
     RecoveryInv, Logged, EntryInv, LogInv, FreshInv,
     Recorded, OwedInv, Settled, Owed
  <1>1. CASE Lock
    BY SMTT(30), <1>1 DEF Lock, RecoveryStart
  <1>2. CASE Undo
    BY <1>2 DEF Undo
  <1>3. CASE Purge
    BY <1>3 DEF Purge
  <1>4. CASE PurgeLog
    BY <1>4 DEF PurgeLog, NoLog
  <1>5. CASE Drop
    BY SMTT(30), <1>5 DEF Drop
  <1>6. CASE Replayed
    BY <1>6 DEF Replayed, RemoveLog, NoLog
  <1>7. CASE Sweep
    BY <1>7 DEF Sweep, Nowhere
  <1>8. CASE Playback
    <2>1. pc \in {"play", "replay"}
      BY <1>8, Zenon DEF Playback
    <2>2. Types /\ EntryInv /\ LogInv /\ OwedInv
      BY Zenon DEF Sound, Logged
    <2>3. Settled(l) \/ Owed(l)
      BY <2>2, Zenon DEF OwedInv
    <2>4. None(temp)
      BY <2>1, Zenon DEF Quiet, RecoveryInv, FilesInv
    <2> QED  BY <1>8, <2>2, <2>3, <2>4, PlaybackOwed, Zenon
  <1>9. ASSUME NEW a \in Archives, Load(a)
         PROVE  Settled(l)' \/ Owed(l)'
    BY <1>9 DEF Load, Content
  <1>10. ASSUME NEW a \in Archives, Edit(a)
         PROVE  Settled(l)' \/ Owed(l)'
    BY <1>10 DEF Edit, Touch
  <1>11. ASSUME NEW k \in Lobs, Replace(k)
         PROVE  Settled(l)' \/ Owed(l)'
    BY <1>11 DEF Replace, Touch
  <1>12. CASE Age
    BY <1>12 DEF Age
  <1>13. CASE Rollback
    BY <1>13 DEF Rollback
  <1>14. CASE RollbackOne
    BY <1>14 DEF RollbackOne, RecoveryStart, NoLog, LobsOf
  <1>15. ASSUME NEW r \in BOOLEAN, Save(r)
         PROVE  Settled(l)' \/ Owed(l)'
    BY <1>15 DEF Save
  <1>16. CASE Write
    BY <1>16 DEF Write
  <1>17. CASE Fill
    BY <1>17 DEF Fill
  <1>18. CASE WriteFails
    BY <1>18 DEF WriteFails, Fault, Return
  <1>19. CASE Keep
    BY <1>19 DEF Keep, Kept, CloseCommitLog, KeepFile
  <1>20. CASE KeepFails
    BY <1>20 DEF KeepFails, Kept, CloseCommitLog, KeepFile, Fault
  <1>21. CASE CloseFails
    BY <1>21 DEF CloseFails, Kept, Fault, Return
  <1>22. CASE Swap
    <2>1. Loop("swap", Dirty, "commitESN") \/ LobSwap
      BY <1>22, SwapFacts
    <2>2. CASE Loop("swap", Dirty, "commitESN")
      BY <2>2
    <2>3. CASE LobSwap
      BY <2>3 DEF LobSwap
    <2> QED  BY <2>1, <2>2, <2>3
  <1>23. CASE SwapFails
    BY <1>23 DEF SwapFails, Fault
  <1>24. CASE CommitESN
    BY <1>24 DEF CommitESN
  <1>25. CASE SkipClean
    BY <1>25 DEF SkipClean, Return
  <1>26. CASE Played
    BY <1>26 DEF Played, RemoveLog, NoLog, LobsOf
  <1>27. CASE Unlink
    BY <1>27 DEF Unlink, Cleaned
  <1>28. CASE UnlinkFails
    BY <1>28, NothingFails
  <1>29. CASE Crash
    BY <1>29 DEF Crash, Unloaded, Nowhere
  <1>30. CASE UNCHANGED vars
    BY <1>30 DEF vars
  <1> QED
    BY <1>1, <1>2, <1>3, <1>4, <1>5, <1>6, <1>7, <1>8, <1>9, <1>10, <1>11,
       <1>12, <1>13, <1>14, <1>15, <1>16, <1>17, <1>18, <1>19, <1>20,
       <1>21, <1>22, <1>23, <1>24, <1>25, <1>26, <1>27, <1>28, <1>29, <1>30
       DEF Next, Recover, Serialize

\* Logged holds initially and is kept.
LEMMA LoggedInit == Init => Logged
  <1> SUFFICES ASSUME Init PROVE Logged
    OBVIOUS
  <1>1. EntryInv
    BY HomeAssumption DEF Init, EntryInv, Nowhere, NoLog, NoFile
  <1>2. LogInv /\ FreshInv
    BY DEF Init, LogInv, FreshInv, Nowhere
  <1>3. OwedInv
    BY DEF Init, OwedInv, Settled, NoFile
  <1> QED
    BY <1>1, <1>2, <1>3 DEF Logged

\* The invariant of the theorem, next to IInv.
LobInv == Intact => Logged

\* Every action keeps it.
LEMMA LobInvStep == IInv /\ LobInv /\ [Next]_vars => LobInv'
  <1> SUFFICES ASSUME IInv, LobInv, [Next]_vars, Intact' PROVE Logged'
    BY DEF LobInv
  <1>1. Intact
    BY FaultsStepHolds DEF FaultsStep, Intact, IInv, Sound, Types, CountTypes
  <1>2. Sound /\ Quiet /\ Logged
    BY <1>1 DEF IInv, LobInv
  <1> QED
    BY <1>1, <1>2, EntryInvStep, LogInvStep, FreshInvStep, OwedInvStep
    DEF Logged

\* Where every archive has a file from the start and no file operation fails,
\* the large objects of a stored tree are there whenever the tree is open:
\* whatever the process was doing when it died, the recovery plays the logs
\* of what was saved to their end before the tree is used.
THEOREM LobsSurvive ==
    ASSUME Stored = Archives PROVE Spec => []LobDurable
<1>1. Init => LobInv
  BY LoggedInit DEF LobInv
<1>2. IInv /\ LobInv /\ [Next]_vars => LobInv'
  BY LobInvStep
<1>3. LobInv => LobDurable
  <2> SUFFICES ASSUME LobInv, pc = "open", Intact, NEW l \in Lobs
               PROVE  lob[l] # NoFile /\ lob[l] >= lobSaved[l]
    BY DEF LobDurable, Intact
  <2>1. Settled(l) \/ Owed(l)
    BY DEF LobInv, Logged, OwedInv
  <2> QED  BY <2>1 DEF Settled, Owed
<1> QED
  BY <1>1, <1>2, <1>3, ArchiverInvariant, PTL DEF Spec
=============================================================================
