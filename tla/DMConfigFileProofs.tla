------------------------- MODULE DMConfigFileProofs -------------------------
(***************************************************************************)
(* Proofs about DMConfigFile, for all paths, values and bounds: the types, *)
(* that only a load that fails can cost the root its ACL, and that the     *)
(* file of the ACLs implements ConfigStore.                                *)
(*                                                                         *)
(* The invariant has two parts.  DurableOK is about both files: whatever   *)
(* the process dies in leaves a complete copy where the recovery finds it. *)
(* AclInv is about the ACLs: as long as nothing was saved that stems from  *)
(* a failed load, what is durable has the root, and in a memory that stems *)
(* from none what is loaded has the root and a change implies a load; and  *)
(* each step of Serialize finds the files that the one before it has left. *)
(***************************************************************************)
EXTENDS DMConfigFile, TLAPS

Governed(c) == c \in Contents /\ Root \in DOMAIN c

DurableOK == \A f \in Files : Durable(f) \in Contents

Saving == step \in {"write", "bak", "rename", "remove"}

AclInv ==
    /\ ~short => Governed(Durable("acl"))
    /\ ~short /\ whole["acl"] =>
           /\ changed["acl"] => loaded["acl"]
           /\ loaded["acl"] => Governed(config["acl"])
    /\ step = "stopped" => ~loaded["acl"] /\ ~changed["acl"] /\ whole["acl"]
    /\ (loaded["acl"] \/ changed["acl"]) /\ step \in {"idle", "write", "bak"} =>
           bak["acl"] = NoFile
    /\ Saving => changed["acl"]
    /\ step \in {"bak", "rename"} => temp["acl"] = config["acl"]
    /\ step = "rename" => bak["acl"] # NoFile
    /\ step = "remove" => temp["acl"] = NoFile

IInv == TypeOK /\ DurableOK /\ AclInv

----------------------------------------------------------------------------
(* Configurations with an item set and an item removed.                    *)

LEMMA EmptyContents == Empty \in Contents
<1>1. Empty \in [{} -> Values]
  BY DEF Empty
<1> QED
  BY <1>1 DEF Contents

LEMMA ItemSet ==
    ASSUME NEW c \in Contents, NEW p \in Paths, NEW v \in Values,
           NEW d, d = [q \in DOMAIN c \cup {p} |-> IF q = p THEN v ELSE c[q]]
    PROVE  d \in Contents /\ DOMAIN d = DOMAIN c \cup {p}
<1>1. PICK S \in SUBSET Paths : c \in [S -> Values]
  BY DEF Contents
<1>2. d \in [S \cup {p} -> Values]
  BY <1>1
<1>3. S \cup {p} \in SUBSET Paths
  OBVIOUS
<1> QED
  BY <1>1, <1>2, <1>3 DEF Contents

LEMMA ItemRemoved ==
    ASSUME NEW c \in Contents, NEW p \in Paths,
           NEW d, d = [q \in DOMAIN c \ {p} |-> c[q]]
    PROVE  d \in Contents /\ DOMAIN d = DOMAIN c \ {p}
<1>1. PICK S \in SUBSET Paths : c \in [S -> Values]
  BY DEF Contents
<1>2. d \in [S \ {p} -> Values]
  BY <1>1
<1>3. S \ {p} \in SUBSET Paths
  OBVIOUS
<1> QED
  BY <1>1, <1>2, <1>3 DEF Contents

----------------------------------------------------------------------------
(* The invariant.                                                          *)

LEMMA InitIInv == Init => IInv
<1> SUFFICES ASSUME Init PROVE IInv
  OBVIOUS
<1>1. \A f \in Files : Durable(f) = file[f] /\ file[f] \in Contents
  BY ConfigAssumption, EmptyContents DEF Init, Durable, Files
<1>2. TypeOK
  <2>1. 0 \in 0..MaxDeaths
    BY ConfigAssumption
  <2>2. file \in [Files -> Contents \cup {NoFile}]
    BY ConfigAssumption, EmptyContents DEF Init
  <2> QED
    BY <2>1, <2>2, EmptyContents DEF Init, TypeOK
<1>3. AclInv
  BY <1>1, ConfigAssumption DEF Init, AclInv, Governed, Saving, Files
<1> QED
  BY <1>1, <1>2, <1>3 DEF IInv, DurableOK

\* What a load finds is what was durable, and stays so.
LEMMA RecoveredIsDurable == \A f : Recovered(f) = Durable(f)
BY DEF Recovered, Durable

LEMMA RecoveryKeeps ==
    ASSUME TypeOK, DurableOK, NEW f \in Files, CheckRecovery(f)
    PROVE  /\ file' \in [Files -> Contents \cup {NoFile}]
           /\ temp' \in [Files -> Contents \cup {NoFile, Torn}]
           /\ bak' \in [Files -> Contents \cup {NoFile}]
           /\ \A g \in Files : Durable(g)' = Durable(g)
           /\ bak'[f] = NoFile
           /\ \A g \in Files \ {f} : bak'[g] = bak[g] /\ temp'[g] = temp[g]
<1>1. Recovered(f) \in Contents
  BY RecoveredIsDurable DEF DurableOK
<1> QED
  BY <1>1, RecoveredIsDurable DEF CheckRecovery, TypeOK, Durable

LEMMA StartKeeps == IInv /\ Start => IInv'
<1> SUFFICES ASSUME IInv, Start PROVE IInv'
  OBVIOUS
<1>1. file' \in [Files -> Contents \cup {NoFile}]
  BY EmptyContents DEF IInv, TypeOK, Start
<1>2. \A f \in Files : Durable(f)' = Durable(f)
  BY ConfigAssumption DEF IInv, TypeOK, DurableOK, Durable, Start
<1>3. TypeOK'
  BY <1>1 DEF IInv, TypeOK, Start, mem
<1>4. AclInv'
  BY <1>2 DEF IInv, AclInv, Start, mem, Saving, Files
<1> QED
  BY <1>2, <1>3, <1>4 DEF IInv, DurableOK

\* What a load leaves: all of what is durable, or a part.
LEMMA LoadsFacts ==
    ASSUME TypeOK, DurableOK, NEW f \in Files, NEW m \in Loads(f)
    PROVE  /\ m.config \in Contents
           /\ m.loaded \in BOOLEAN /\ m.whole \in BOOLEAN
           /\ m.whole => /\ m.config = Durable(f)
                         /\ m.loaded = (Durable(f) # Empty)
           /\ m.config \in Store!Parts(Durable(f))
<1> DEFINE r == Recovered(f)
           part(S) == [p \in S |-> r[p]]
<1>1. r = Durable(f) /\ r \in Contents
  BY RecoveredIsDurable DEF DurableOK
<1>2. PICK D \in SUBSET Paths : r \in [D -> Values]
  BY <1>1 DEF Contents
<1>3. ASSUME NEW S \in SUBSET D
      PROVE  part(S) \in Contents /\ part(S) \in Store!Parts(r)
  <2>1. part(S) \in [S -> Values] /\ S \in SUBSET Paths
    BY <1>2, <1>3
  <2> QED
    BY <1>2, <2>1 DEF Contents, Store!Parts
<1>4. part(D) = r /\ part({}) = Empty
  BY <1>2 DEF Empty
<1>5. CASE m = [config |-> r, loaded |-> r # Empty, whole |-> TRUE]
  BY <1>1, <1>3, <1>4, <1>5
<1>6. CASE m = [config |-> Empty, loaded |-> FALSE, whole |-> FALSE]
  BY <1>1, <1>3, <1>4, <1>6
<1>7. ASSUME NEW S \in (SUBSET DOMAIN r) \ {DOMAIN r},
             m = [config |-> part(S), loaded |-> TRUE, whole |-> FALSE]
      PROVE  /\ m.config \in Contents /\ m.config \in Store!Parts(r)
             /\ m.loaded \in BOOLEAN /\ m.whole = FALSE
  <2>1. S \in SUBSET D
    BY <1>2
  <2> HIDE DEF r, part
  <2> QED
    BY <2>1, <1>3, <1>7
<1> QED
  BY <1>1, <1>5, <1>6, <1>7 DEF Loads

LEMMA ReadKeeps == ASSUME NEW f \in Files PROVE IInv /\ Read(f) => IInv'
<1> SUFFICES ASSUME IInv, Read(f) PROVE IInv'
  OBVIOUS
<1>1. PICK m \in Loads(f) :
         /\ Deserialize(f, m)
         /\ changed' = [changed EXCEPT ![f] = @ /\ ~m.loaded]
  BY DEF Read
<1>2. /\ step = "idle" /\ ~loaded[f] /\ CheckRecovery(f)
      /\ UNCHANGED <<step, deaths, short>>
  BY <1>1 DEF Read, Deserialize
<1>3. \A g \in Files : Durable(g)' = Durable(g)
  BY <1>2, RecoveryKeeps DEF IInv
<1>4. TypeOK'
  BY <1>1, <1>2, RecoveryKeeps, LoadsFacts DEF IInv, TypeOK, Deserialize
<1>5. AclInv'
  <2>1. CASE f = "acl"
    <3>1. ~short => Durable("acl") # Empty
      BY DEF IInv, AclInv, Governed, Empty
    <3>2. bak'["acl"] = NoFile
      BY <2>1, <1>2, RecoveryKeeps DEF IInv
    <3>3. /\ config'["acl"] = m.config /\ loaded'["acl"] = m.loaded
          /\ whole'["acl"] = m.whole
          /\ m.loaded => ~changed'["acl"]
      BY <2>1, <1>1 DEF Deserialize, IInv, TypeOK
    <3>4. m.whole => m.config = Durable("acl") /\ m.loaded = (Durable("acl") # Empty)
      BY <2>1, LoadsFacts DEF IInv
    <3> QED
      BY <2>1, <1>2, <1>3, <3>1, <3>2, <3>3, <3>4
         DEF IInv, AclInv, Governed, Saving
  <2>2. CASE f # "acl"
    BY <2>2, <1>1, <1>2, <1>3, RecoveryKeeps
       DEF Deserialize, IInv, AclInv, TypeOK, Governed, Saving, Files
  <2> QED
    BY <2>1, <2>2
<1> QED
  BY <1>3, <1>4, <1>5 DEF IInv, DurableOK

\* A change starts from what a reader has, or from what a load leaves.
LEMMA CopiesFacts ==
    ASSUME IInv, NEW f \in Files, step = "idle", NEW m \in Copies(f)
    PROVE  /\ m.config \in Contents
           /\ m.loaded \in BOOLEAN /\ m.whole \in BOOLEAN
           /\ f = "acl" =>
                 /\ ~short /\ m.whole => m.loaded /\ Governed(m.config)
                 /\ <<m.config, m.whole>> \in Store!Copies
<1>1. CASE loaded[f] \/ changed[f]
  <2>1. m.config = config[f] /\ m.loaded = loaded[f] /\ m.whole = whole[f]
    BY <1>1 DEF Copies, InMemory
  <2>2. f = "acl" => m.config = View("acl")
    BY <1>1, <2>1 DEF View
  <2> QED
    BY <1>1, <2>1, <2>2 DEF IInv, AclInv, TypeOK, Store!Copies
<1>2. CASE ~(loaded[f] \/ changed[f])
  <2>1. m \in Loads(f)
    BY <1>2 DEF Copies
  <2>2. f = "acl" /\ ~short => Governed(Durable(f)) /\ Durable(f) # Empty
    BY DEF IInv, AclInv, Governed, Empty
  <2> QED
    BY <2>1, <2>2, LoadsFacts DEF IInv, Store!Copies
<1> QED
  BY <1>1, <1>2

LEMMA LockingFacts ==
    ASSUME IInv, NEW f \in Files, step = "idle", CheckLocking(f)
    PROVE  /\ file' \in [Files -> Contents \cup {NoFile}]
           /\ temp' \in [Files -> Contents \cup {NoFile, Torn}]
           /\ bak' \in [Files -> Contents \cup {NoFile}]
           /\ \A g \in Files : Durable(g)' = Durable(g)
           /\ bak'["acl"] = IF f = "acl" THEN NoFile ELSE bak["acl"]
<1>1. CASE loaded[f] \/ changed[f]
  <2>1. UNCHANGED disk
    BY <1>1 DEF CheckLocking
  <2>2. \A g \in Files : Durable(g)' = Durable(g)
    BY <2>1 DEF disk, Durable
  <2>3. f = "acl" => bak["acl"] = NoFile
    BY <1>1 DEF IInv, AclInv
  <2> QED
    BY <2>1, <2>2, <2>3 DEF disk, IInv, TypeOK
<1>2. CASE ~(loaded[f] \/ changed[f])
  BY <1>2, RecoveryKeeps DEF CheckLocking, IInv, Files
<1> QED
  BY <1>1, <1>2

\* What SetItem and RemoveItem have in common.
LEMMA ChangeKeeps ==
    ASSUME IInv, NEW f \in Files, step = "idle", CheckLocking(f),
           NEW m \in Copies(f), NEW d \in Contents,
           f = "acl" /\ Root \in DOMAIN m.config => Root \in DOMAIN d,
           Changed(f, m, d)
    PROVE  IInv'
<1>1. TypeOK'
  BY LockingFacts, CopiesFacts DEF IInv, TypeOK, Changed
<1>2. DurableOK'
  BY LockingFacts DEF IInv, DurableOK
<1>3. AclInv'
  <2>1. CASE f = "acl"
    BY <2>1, LockingFacts, CopiesFacts
       DEF Changed, IInv, AclInv, TypeOK, Governed, Saving, Files
  <2>2. CASE f # "acl"
    BY <2>2, LockingFacts
       DEF Changed, IInv, AclInv, TypeOK, Governed, Saving, Files
  <2> QED
    BY <2>1, <2>2
<1> QED
  BY <1>1, <1>2, <1>3 DEF IInv

LEMMA SetItemKeeps ==
    ASSUME NEW f \in Files, NEW p \in Paths, NEW v \in Values
    PROVE  IInv /\ SetItem(f, p, v) => IInv'
<1> SUFFICES ASSUME IInv, SetItem(f, p, v) PROVE IInv'
  OBVIOUS
<1> DEFINE d(m) == [q \in DOMAIN m.config \cup {p} |->
                       IF q = p THEN v ELSE m.config[q]]
<1>1. step = "idle" /\ CheckLocking(f)
  BY DEF SetItem
<1>2. PICK m \in Copies(f) : Changed(f, m, d(m))
  BY DEF SetItem
<1>3. m.config \in Contents
  BY <1>1, CopiesFacts
<1>4. d(m) \in Contents /\ DOMAIN d(m) = DOMAIN m.config \cup {p}
  BY <1>3, ItemSet
<1> HIDE DEF d
<1> QED
  BY <1>1, <1>2, <1>4, ChangeKeeps

LEMMA RemoveItemKeeps ==
    ASSUME NEW f \in Files, NEW p \in Paths
    PROVE  IInv /\ RemoveItem(f, p) => IInv'
<1> SUFFICES ASSUME IInv, RemoveItem(f, p) PROVE IInv'
  OBVIOUS
<1> DEFINE d(m) == [q \in DOMAIN m.config \ {p} |-> m.config[q]]
<1>1. step = "idle" /\ CheckLocking(f) /\ (f = "acl" => p # Root)
  BY DEF RemoveItem
<1>2. PICK m \in Copies(f) : Changed(f, m, d(m))
  BY DEF RemoveItem
<1>3. m.config \in Contents
  BY <1>1, CopiesFacts
<1>4. d(m) \in Contents /\ DOMAIN d(m) = DOMAIN m.config \ {p}
  BY <1>3, ItemRemoved
<1> HIDE DEF d
<1> QED
  BY <1>1, <1>2, <1>4, ChangeKeeps

\* Each step of Serialize, the other file being as it was.
LEMMA SerializeKeeps == IInv /\ Serialize => IInv'
<1> SUFFICES ASSUME IInv, Serialize PROVE IInv'
  OBVIOUS
<1> USE DEF IInv, AclInv, Governed, Saving, Released, disk, mem
<1>f. "acl" \in Files /\ Torn # NoFile /\ NoFile \notin Contents
  BY ConfigAssumption DEF Files
<1>1. TypeOK'
  BY <1>f, ZenonT(30)
  DEF TypeOK, Serialize, Save, WriteFails, Write, KeepBak, RenameTemp,
     RemoveBak, DurableOK, Durable
<1>2. CASE Save
  BY <1>1, <1>2, <1>f DEF Save, TypeOK, DurableOK, Durable
<1>3. CASE WriteFails
  BY <1>1, <1>3, <1>f DEF WriteFails, DurableOK, Durable
<1>4. CASE Write
  BY <1>1, <1>4, <1>f DEF Write, TypeOK, DurableOK, Durable
<1>5. CASE KeepBak
  BY <1>1, <1>5, <1>f DEF KeepBak, TypeOK, DurableOK, Durable
<1>6. CASE RenameTemp
  BY <1>1, <1>6, <1>f DEF RenameTemp, TypeOK, DurableOK, Durable
<1>7. CASE RemoveBak
  BY <1>1, <1>7, <1>f DEF RemoveBak, TypeOK, DurableOK, Durable
<1> QED
  BY <1>2, <1>3, <1>4, <1>5, <1>6, <1>7 DEF Serialize

LEMMA RevertKeeps == IInv /\ Revert => IInv'
<1> SUFFICES ASSUME IInv, Revert PROVE IInv'
  OBVIOUS
<1>1. "acl" \in Files /\ Released = "acl"
  BY DEF Files, Released
<1>2. PICK m \in Loads("acl") : Deserialize("acl", m)
  BY <1>1 DEF Revert
<1>3. TypeOK'
  BY <1>1, <1>2, RecoveryKeeps, LoadsFacts DEF Revert, Deserialize, IInv, TypeOK
<1>4. \A g \in Files : Durable(g)' = Durable(g)
  BY <1>1, <1>2, RecoveryKeeps DEF Deserialize, IInv
<1>5. ~short => Durable("acl") # Empty
  BY DEF IInv, AclInv, Governed, Empty
<1>6. /\ config'["acl"] = m.config /\ loaded'["acl"] = m.loaded
      /\ whole'["acl"] = m.whole /\ ~changed'["acl"]
      /\ step = "idle" /\ step' = "idle" /\ short' = short
      /\ bak'["acl"] = NoFile
  BY <1>1, <1>2, RecoveryKeeps DEF Revert, Deserialize, IInv, TypeOK
<1>7. m.whole => m.config = Durable("acl") /\ m.loaded = (Durable("acl") # Empty)
  BY <1>1, LoadsFacts DEF IInv
<1>8. AclInv'
  BY <1>1, <1>4, <1>5, <1>6, <1>7 DEF IInv, AclInv, Governed, Saving
<1> QED
  BY <1>3, <1>4, <1>8 DEF IInv, DurableOK

LEMMA DiesKeeps ==
    ASSUME IInv, Dies, \A f \in Files : Durable(f)' = Durable(f),
           file' \in [Files -> Contents \cup {NoFile}],
           temp' \in [Files -> Contents \cup {NoFile, Torn}],
           bak' \in [Files -> Contents \cup {NoFile}]
    PROVE  IInv'
<1>1. TypeOK'
  BY EmptyContents, ConfigAssumption DEF Dies, IInv, TypeOK
<1>2. AclInv'
  BY DEF Dies, IInv, AclInv, Governed, Saving, Files
<1> QED
  BY <1>1, <1>2 DEF IInv, DurableOK

LEMMA DieKeeps == IInv /\ Die => IInv'
<1>1. ASSUME Die PROVE \A f \in Files : Durable(f)' = Durable(f)
  BY <1>1 DEF Die, disk, Durable
<1> QED
  BY <1>1, DiesKeeps DEF Die, disk, IInv, TypeOK

LEMMA DieInRecoveryKeeps ==
    ASSUME NEW f \in Files PROVE IInv /\ DieInRecovery(f) => IInv'
<1> SUFFICES ASSUME IInv, DieInRecovery(f) PROVE IInv'
  OBVIOUS
<1>1. /\ file' \in [Files -> Contents \cup {NoFile}]
      /\ temp' \in [Files -> Contents \cup {NoFile, Torn}]
      /\ bak' \in [Files -> Contents \cup {NoFile}]
  BY DEF DieInRecovery, IInv, TypeOK
<1>2. \A g \in Files : Durable(g)' = Durable(g)
  BY DEF DieInRecovery, IInv, TypeOK, Durable
<1> QED
  BY <1>1, <1>2, DiesKeeps DEF DieInRecovery

LEMMA StepKeeps == IInv /\ [Next]_vars => IInv'
<1> SUFFICES ASSUME IInv, [Next]_vars PROVE IInv'
  OBVIOUS
<1>1. CASE Start
  BY <1>1, StartKeeps
<1>2. CASE Use
  BY <1>2, ReadKeeps, SetItemKeeps, RemoveItemKeeps, DieInRecoveryKeeps DEF Use
<1>3. CASE Serialize
  BY <1>3, SerializeKeeps
<1>4. CASE Revert
  BY <1>4, RevertKeeps
<1>5. CASE Die
  BY <1>5, DieKeeps
<1>6. CASE UNCHANGED vars
  BY <1>6 DEF vars, disk, mem, IInv, TypeOK, DurableOK, Durable, AclInv,
     Governed, Saving
<1> QED
  BY <1>1, <1>2, <1>3, <1>4, <1>5, <1>6 DEF Next

LEMMA Invariance == Spec => []IInv
BY InitIInv, StepKeeps, PTL DEF Spec

\* The types of both files, whatever the process dies in: a file that is
\* missing or torn is never loaded (dmConfigManager.cc:108-240).
THEOREM ConfigTypes == Spec => []TypeOK
BY Invariance, PTL DEF IInv

\* The ACL of the root, without which no request would be refused, is lost in
\* no other way than by a load that fails, whatever the process dies in and
\* whichever write fails (dmACLManager.cc:53-77, dmConfigManager.cc:108-361).
THEOREM RootAlwaysGoverned == Spec => []RootGoverned
<1>1. IInv => RootGoverned
  BY DEF IInv, AclInv, Governed, View, RootGoverned
<1> QED
  BY <1>1, Invariance, PTL

----------------------------------------------------------------------------
(* The refinement: a change is one of the abstract store, the rename of    *)
(* the ".temp" file is its save, and a load, a revert or a death goes      *)
(* back.                                                                   *)

LEMMA InitMaps == Init => Store!Init
<1> SUFFICES ASSUME Init PROVE Store!Init
  OBVIOUS
<1>1. "acl" \in Files /\ "events" \in Files
  BY DEF Files
<1>2. /\ Durable("acl") = FirstAcls /\ View("acl") = FirstAcls
      /\ whole["acl"] = TRUE
  BY <1>1 DEF Init, Durable, View
<1> QED
  BY <1>2, ConfigAssumption DEF Store!Init

\* A step that leaves the ACLs of a running or stopped process alone.
LEMMA Stutters ==
    ASSUME View("acl")' = View("acl"), Durable("acl")' = Durable("acl"),
           whole'["acl"] = whole["acl"]
    PROVE  UNCHANGED Store!vars
BY DEF Store!vars

LEMMA StartMaps == IInv /\ Start => [Store!Next]_Store!vars
<1> SUFFICES ASSUME IInv, Start PROVE UNCHANGED Store!vars
  OBVIOUS
<1>1. "acl" \in Files
  BY DEF Files
<1>2. Durable("acl")' = Durable("acl")
  BY <1>1, ConfigAssumption DEF IInv, TypeOK, DurableOK, Durable, Start
<1>3. View("acl")' = View("acl")
  BY <1>2 DEF Start, mem, View, IInv, AclInv
<1> QED
  BY <1>2, <1>3, Stutters DEF Start, mem

\* A load leaves a working copy that the abstract store may go back to.
LEMMA LoadGoesBack ==
    ASSUME IInv, NEW m \in Loads("acl"), Deserialize("acl", m),
           Durable("acl")' = Durable("acl"), step = "idle", step' = "idle",
           m.loaded => ~changed'["acl"],
           changed'["acl"] => changed["acl"]
    PROVE  [Store!Next]_Store!vars
<1>1. /\ "acl" \in Files /\ config'["acl"] = m.config
      /\ loaded'["acl"] = m.loaded /\ whole'["acl"] = m.whole
  BY DEF Files, Deserialize, IInv, TypeOK
<1>2. /\ m.whole \in BOOLEAN /\ m.config \in Store!Parts(Durable("acl"))
      /\ m.whole => m.config = Durable("acl")
  BY <1>1, LoadsFacts DEF IInv
<1>3. View("acl")' = m.config
  BY <1>1, <1>2 DEF View
<1>4. <<View("acl")', whole'["acl"]>> \in Store!Copies
  BY <1>1, <1>2, <1>3 DEF Store!Copies
<1> QED
  BY <1>4 DEF Store!Next, Store!GoBack

LEMMA ReadMaps ==
    ASSUME NEW f \in Files PROVE IInv /\ Read(f) => [Store!Next]_Store!vars
<1> SUFFICES ASSUME IInv, Read(f) PROVE [Store!Next]_Store!vars
  OBVIOUS
<1>1. PICK m \in Loads(f) :
         /\ Deserialize(f, m)
         /\ changed' = [changed EXCEPT ![f] = @ /\ ~m.loaded]
  BY DEF Read
<1>2. step = "idle" /\ step' = "idle" /\ "acl" \in Files
  BY DEF Read, Files
<1>3. Durable("acl")' = Durable("acl")
  BY <1>1, <1>2, RecoveryKeeps DEF IInv, Deserialize
<1>4. CASE f = "acl"
  <2>1. changed'["acl"] = (changed["acl"] /\ ~m.loaded)
    BY <1>1, <1>4 DEF IInv, TypeOK
  <2> QED
    BY <1>1, <1>2, <1>3, <1>4, <2>1, LoadGoesBack
<1>5. CASE f # "acl"
  <2>1. /\ config'["acl"] = config["acl"] /\ loaded'["acl"] = loaded["acl"]
        /\ changed'["acl"] = changed["acl"] /\ whole'["acl"] = whole["acl"]
    BY <1>1, <1>2, <1>5 DEF Deserialize, IInv, TypeOK
  <2> QED
    BY <1>2, <1>3, <2>1, Stutters DEF View
<1> QED
  BY <1>4, <1>5

\* A change of the ACLs starts from what the reader has, or from what a load
\* leaves; one of the subscriptions leaves the ACLs alone.
LEMMA ChangeMaps ==
    ASSUME IInv, NEW m \in Copies("acl"), NEW c, Changed("acl", m, c),
           step = "idle", CheckLocking("acl")
    PROVE  /\ View("acl")' = c /\ whole'["acl"] = m.whole
           /\ Durable("acl")' = Durable("acl")
           /\ <<m.config, m.whole>> \in Store!Copies
<1>1. "acl" \in Files
  BY DEF Files
<1>2. <<m.config, m.whole>> \in Store!Copies
  BY <1>1, CopiesFacts
<1>3. config'["acl"] = c /\ whole'["acl"] = m.whole /\ changed'["acl"]
  BY <1>1 DEF Changed, IInv, TypeOK
<1>4. View("acl")' = c
  BY <1>3 DEF Changed, View
<1> QED
  BY <1>1, <1>2, <1>3, <1>4, LockingFacts

LEMMA OtherChangeMaps ==
    ASSUME IInv, NEW f \in Files, f # "acl", NEW m, NEW c, Changed(f, m, c),
           step = "idle", CheckLocking(f)
    PROVE  UNCHANGED Store!vars
<1>1. /\ config'["acl"] = config["acl"] /\ loaded'["acl"] = loaded["acl"]
      /\ changed'["acl"] = changed["acl"] /\ whole'["acl"] = whole["acl"]
  BY DEF Changed, IInv, TypeOK, Files
<1>2. Durable("acl")' = Durable("acl")
  BY LockingFacts DEF Files
<1> QED
  BY <1>1, <1>2, Stutters DEF View, Changed

LEMMA SetItemMaps ==
    ASSUME NEW f \in Files, NEW p \in Paths, NEW v \in Values
    PROVE  IInv /\ SetItem(f, p, v) => [Store!Next]_Store!vars
<1> SUFFICES ASSUME IInv, SetItem(f, p, v) PROVE [Store!Next]_Store!vars
  OBVIOUS
<1> DEFINE d(c) == [q \in DOMAIN c \cup {p} |-> IF q = p THEN v ELSE c[q]]
<1>1. step = "idle" /\ CheckLocking(f)
  BY DEF SetItem
<1>2. PICK m \in Copies(f) : Changed(f, m, d(m.config))
  BY DEF SetItem
<1>3. CASE f = "acl"
  <2>1. /\ View("acl")' = d(m.config) /\ whole'["acl"] = m.whole
        /\ Durable("acl")' = Durable("acl")
        /\ <<m.config, m.whole>> \in Store!Copies
    <3> HIDE DEF d
    <3> QED
      BY <1>1, <1>2, <1>3, ChangeMaps
  <2>2. PICK c \in Store!Copies : c[1] = m.config /\ c[2] = m.whole
    BY <2>1
  <2>3. View("acl")' = d(c[1]) /\ whole'["acl"] = c[2]
    BY <2>1, <2>2
  <2>4. Store!SetItem
    BY <2>3, Zenon DEF Store!SetItem
  <2> QED
    BY <2>1, <2>4 DEF Store!Next, Store!Change
<1>4. CASE f # "acl"
  <2> HIDE DEF d
  <2> QED
    BY <1>1, <1>2, <1>4, OtherChangeMaps
<1> QED
  BY <1>3, <1>4

LEMMA RemoveItemMaps ==
    ASSUME NEW f \in Files, NEW p \in Paths
    PROVE  IInv /\ RemoveItem(f, p) => [Store!Next]_Store!vars
<1> SUFFICES ASSUME IInv, RemoveItem(f, p) PROVE [Store!Next]_Store!vars
  OBVIOUS
<1> DEFINE d(c) == [q \in DOMAIN c \ {p} |-> c[q]]
<1>1. step = "idle" /\ CheckLocking(f)
  BY DEF RemoveItem
<1>2. PICK m \in Copies(f) : Changed(f, m, d(m.config))
  BY DEF RemoveItem
<1>3. CASE f = "acl"
  <2>1. /\ View("acl")' = d(m.config) /\ whole'["acl"] = m.whole
        /\ Durable("acl")' = Durable("acl")
        /\ <<m.config, m.whole>> \in Store!Copies
    <3> HIDE DEF d
    <3> QED
      BY <1>1, <1>2, <1>3, ChangeMaps
  <2>2. Store!RemoveItem
    BY <2>1 DEF Store!RemoveItem
  <2> QED
    BY <2>1, <2>2 DEF Store!Next, Store!Change
<1>4. CASE f # "acl"
  <2> HIDE DEF d
  <2> QED
    BY <1>1, <1>2, <1>4, OtherChangeMaps
<1> QED
  BY <1>3, <1>4

LEMMA SerializeMaps == IInv /\ Serialize => [Store!Next]_Store!vars
<1> SUFFICES ASSUME IInv, Serialize PROVE [Store!Next]_Store!vars
  OBVIOUS
<1>1. /\ "acl" \in Files /\ Released = "acl"
      /\ Torn # NoFile /\ NoFile \notin Contents
  BY ConfigAssumption DEF Files, Released
<1>2. View("acl") = config["acl"] /\ View("acl")' = config["acl"]
  BY <1>1 DEF Serialize, Save, WriteFails, Write, KeepBak, RenameTemp,
     RemoveBak, View, IInv, AclInv, TypeOK, Saving, mem
<1>5. whole' = whole
  BY DEF Serialize, Save, WriteFails, Write, KeepBak, RenameTemp, RemoveBak, mem
<1>3. CASE RenameTemp
  <2>1. Durable("acl")' = config["acl"]
    BY <1>1, <1>3 DEF RenameTemp, Durable, IInv, AclInv, TypeOK
  <2> QED
    BY <1>2, <1>5, <2>1 DEF Store!Next, Store!Save
<1>4. CASE Save \/ WriteFails \/ Write \/ KeepBak \/ RemoveBak
  <2>1. Durable("acl")' = Durable("acl")
    BY <1>1, <1>4 DEF Save, WriteFails, Write, KeepBak, RemoveBak, Durable,
       IInv, DurableOK, AclInv, TypeOK, Saving, disk
  <2> QED
    BY <1>2, <1>5, <2>1, Stutters
<1> QED
  BY <1>3, <1>4 DEF Serialize

LEMMA RevertMaps == IInv /\ Revert => [Store!Next]_Store!vars
<1> SUFFICES ASSUME IInv, Revert PROVE [Store!Next]_Store!vars
  OBVIOUS
<1>1. "acl" \in Files /\ Released = "acl"
  BY DEF Files, Released
<1>2. PICK m \in Loads("acl") : Deserialize("acl", m)
  BY <1>1 DEF Revert
<1>3. Durable("acl")' = Durable("acl")
  BY <1>1, <1>2, RecoveryKeeps DEF Deserialize, IInv
<1>4. ~changed'["acl"] /\ step = "idle" /\ step' = "idle"
  BY <1>1 DEF Revert, IInv, TypeOK
<1> QED
  BY <1>2, <1>3, <1>4, LoadGoesBack

LEMMA DiesMaps ==
    ASSUME Dies, Durable("acl")' = Durable("acl") PROVE Store!Next
BY DEF Dies, View, Files, Store!Next, Store!GoBack, Store!Copies

LEMMA StepMaps == IInv /\ [Next]_vars => [Store!Next]_Store!vars
<1> SUFFICES ASSUME IInv, [Next]_vars PROVE [Store!Next]_Store!vars
  OBVIOUS
<1>1. CASE Start
  BY <1>1, StartMaps
<1>2. CASE Use
  <2>1. ASSUME NEW f \in Files, DieInRecovery(f) PROVE Store!Next
    <3>1. Durable("acl")' = Durable("acl")
      BY <2>1 DEF DieInRecovery, IInv, TypeOK, Durable, Files
    <3> QED
      BY <2>1, <3>1, DiesMaps DEF DieInRecovery
  <2> QED
    BY <1>2, <2>1, ReadMaps, SetItemMaps, RemoveItemMaps DEF Use
<1>3. CASE Serialize
  BY <1>3, SerializeMaps
<1>4. CASE Revert
  BY <1>4, RevertMaps
<1>5. CASE Die
  <2>1. Durable("acl")' = Durable("acl")
    BY <1>5 DEF Die, disk, Durable
  <2> QED
    BY <1>5, <2>1, DiesMaps DEF Die
<1>6. CASE UNCHANGED vars
  <2>1. UNCHANGED Store!vars
    BY <1>6, Stutters DEF vars, disk, mem, View, Durable
  <2> QED
    BY <2>1
<1> QED
  BY <1>1, <1>2, <1>3, <1>4, <1>5, <1>6 DEF Next

\* The file of the ACLs implements ConfigStore: it is saved as a whole or not
\* at all, with the process dying in any step of a save, of a load or of a
\* recovery (dmConfigManager.cc:205-240, 261-361), and what a reader gets is
\* the working copy, of which a load that fails leaves a part (125-172).
THEOREM ConfigRefinement == Spec => AclsSaved
<1>1. Init => Store!Init
  BY InitMaps
<1>2. IInv /\ [Next]_vars => [Store!Next]_Store!vars
  BY StepMaps
<1> QED
  BY <1>1, <1>2, Invariance, PTL DEF Spec, Store!Spec, AclsSaved
=============================================================================
