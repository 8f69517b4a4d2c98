------------------------ MODULE CheckpointStoreProofs -------------------------
(***************************************************************************)
(* A save that returned survives, and a load is one save, for every number *)
(* of processes, names, directories, files, power failures and removals.   *)
(*                                                                         *)
(* Survival rests on two facts about the time before a save returns: what  *)
(* is renamed to its name is flushed and listed already (Prepared), and no *)
(* other save has the directory (TypeOK).  From then on the name leads to  *)
(* it on disk, and only there (KeptOK), so a power failure changes nothing.*)
(***************************************************************************)
EXTENDS CheckpointStore, TLAPS

\* A power failure leaves the directory as it is.
Safe(trees, t) == (\A f \in File : trees[t].file[f] = "stable") /\ trees[t].listed

Prepared ==
    \A p \in Process :
        /\ save[p].at # "idle" => save[p].name \in Name /\ save[p].staged \in Tree
        /\ save[p].at = "publish" => Safe(tree, save[p].staged)
        /\ save[p].at = "confirm" /\ save[p].staged \notin spoiled =>
              Safe(tree, save[p].staged) /\ visible[save[p].name] = save[p].staged

KeptOK ==
    \A k \in kept : k[2] \notin spoiled =>
        visible[k[1]] = k[2] /\ onDisk[k[1]] = {k[2]} /\ Safe(tree, k[2])

\* A load keeps to the directory it opened, and takes no torn file.
LoadsOK ==
    \A p \in Process :
        /\ load[p].at # "idle" => load[p].root \in Tree
        /\ \A r \in load[p].read : r.of = load[p].root /\ r.torn = FALSE
        /\ load[p].at = "loaded" => {r.name : r \in load[p].read} = File

IInv == TypeOK /\ Prepared /\ KeptOK /\ LoadsOK

\* The parts of TypeOK.
Trees == [Tree -> [file : [File -> FileState], listed : BOOLEAN]]
Saves ==
    [at : {"idle", "write", "flush", "publish", "confirm"},
     name : Name \cup {Nothing}, staged : TreeOrNothing]
Loads ==
    [at : {"idle", "inventory", "read", "loaded"},
     root : TreeOrNothing, read : SUBSET Read]
DiskOK ==
    /\ tree \in Trees
    /\ visible \in [Name -> TreeOrNothing] /\ onDisk \in [Name -> SUBSET TreeOrNothing]
    /\ \A n \in Name : visible[n] \in onDisk[n]
    /\ kept \subseteq Name \X Tree /\ spoiled \subseteq Tree
SavesOK ==
    /\ save \in [Process -> Saves]
    /\ \A p, q \in Process : p # q => Staged(p) \cap Staged(q) = {}
    /\ \A p \in Process : save[p].at # "confirm" => Staged(p) \cap Named = {}
LoadTypes == load \in [Process -> Loads]
FaultsOK == faults \in 0..MaxFaults

LEMMA Types ==
    /\ TypeOK <=> DiskOK /\ SavesOK /\ LoadTypes /\ FaultsOK
    /\ TypeOK' <=> DiskOK' /\ SavesOK' /\ LoadTypes' /\ FaultsOK'
  BY DEF TypeOK, DiskOK, SavesOK, LoadTypes, FaultsOK, Trees, Saves, Loads

LEMMA FaultsCounted ==
    ASSUME FaultsOK, Fault \/ UNCHANGED faults PROVE FaultsOK'
  BY FaultsAssumption DEF FaultsOK, Fault

-----------------------------------------------------------------------------
LEMMA InitInv == Init => IInv
  <1> SUFFICES ASSUME Init PROVE IInv
    OBVIOUS
  <1>1. DiskOK
    BY DEF Init, DiskOK, Trees, Unmade, FileState, TreeOrNothing
  <1>2. SavesOK /\ LoadTypes
    BY DEF Init, SavesOK, LoadTypes, Saves, Loads, NoSave, NoLoad, TreeOrNothing, Staged
  <1>3. FaultsOK
    BY FaultsAssumption DEF Init, FaultsOK
  <1>4. Prepared /\ KeptOK /\ LoadsOK
    BY DEF Init, Prepared, KeptOK, LoadsOK, NoSave, NoLoad
  <1> QED BY <1>1, <1>2, <1>3, <1>4, Types DEF IInv

-----------------------------------------------------------------------------
\* Loads change nothing that saves know, and the reverse.

LEMMA LoadStep ==
    ASSUME IInv, UNCHANGED <<tree, names, save, ghosts, faults>>, LoadTypes', LoadsOK'
    PROVE  IInv'
  <1>1. DiskOK' /\ SavesOK' /\ FaultsOK'
    BY Types DEF IInv, DiskOK, SavesOK, FaultsOK, Staged, Named, names, ghosts
  <1>2. Prepared' /\ KeptOK'
    BY DEF IInv, Prepared, KeptOK, names, ghosts
  <1> QED BY <1>1, <1>2, Types DEF IInv

LEMMA LoadGoes ==
    ASSUME IInv, NEW p \in Process, NEW l \in Loads, load' = [load EXCEPT ![p] = l],
           UNCHANGED <<tree, names, save, ghosts, faults>>,
           l.at # "idle" => l.root \in Tree,
           \A r \in l.read : r.of = l.root /\ r.torn = FALSE,
           l.at = "loaded" => {r.name : r \in l.read} = File
    PROVE  IInv'
  <1>1. load \in [Process -> Loads]
    BY Types DEF IInv, LoadTypes
  <1>2. LoadTypes'
    BY <1>1 DEF LoadTypes
  <1>3. \A q \in Process : load'[q] = IF q = p THEN l ELSE load[q]
    BY <1>1
  <1>4. LoadsOK'
    BY <1>3 DEF IInv, LoadsOK
  <1> QED BY <1>2, <1>4, LoadStep

LEMMA NoLoadInv ==
    ASSUME IInv, NEW p \in Process, load' = [load EXCEPT ![p] = NoLoad],
           UNCHANGED <<tree, names, save, ghosts, faults>>
    PROVE  IInv'
  <1> DEFINE l == NoLoad
  <1>1. l \in Loads /\ l.at = "idle" /\ l.read = {}
    BY DEF NoLoad, Loads, TreeOrNothing
  <1>2. load' = [load EXCEPT ![p] = l]
    OBVIOUS
  <1> HIDE DEF l
  <1> QED BY <1>1, <1>2, LoadGoes

LEMMA LoadInv ==
    ASSUME IInv, NEW p \in Process,
           \/ \E n \in Name : BeginLoad(p, n)
           \/ Inventory(p) \/ (\E f \in File : ReadFile(p, f)) \/ EndLoad(p)
    PROVE  IInv'
  <1>1. /\ load[p] \in Loads /\ visible \in [Name -> TreeOrNothing]
        /\ load[p].at # "idle" => load[p].root \in Tree
        /\ \A r \in load[p].read : r.of = load[p].root /\ r.torn = FALSE
    BY Types DEF IInv, LoadTypes, DiskOK, LoadsOK
  <1>2. ASSUME NEW n \in Name, BeginLoad(p, n) PROVE IInv'
    <2> DEFINE l == [at |-> "inventory", root |-> visible[n], read |-> {}]
    <2>1. l \in Loads /\ l.root \in Tree /\ l.at = "inventory" /\ l.read = {}
      BY <1>1, <1>2 DEF BeginLoad, Loads, TreeOrNothing
    <2>2. load' = [load EXCEPT ![p] = l] /\ UNCHANGED <<tree, names, save, ghosts, faults>>
      BY <1>2 DEF BeginLoad
    <2> HIDE DEF l
    <2> QED BY <2>1, <2>2, LoadGoes
  <1>3. CASE Inventory(p)
    <2> DEFINE l == [load[p] EXCEPT !.at = "read"]
    <2>1. /\ load' = [load EXCEPT ![p] = l] \/ load' = [load EXCEPT ![p] = NoLoad]
          /\ UNCHANGED <<tree, names, save, ghosts, faults>>
      BY <1>3 DEF Inventory
    <2>2. l \in Loads /\ l.at = "read" /\ l.root = load[p].root /\ l.read = load[p].read
      BY <1>1 DEF Loads
    <2>3. load[p].root \in Tree
      BY <1>1, <1>3 DEF Inventory, LoadAt
    <2> HIDE DEF l
    <2> QED BY <1>1, <2>1, <2>2, <2>3, LoadGoes, NoLoadInv
  <1>4. ASSUME NEW f \in File, ReadFile(p, f) PROVE IInv'
    <2> DEFINE new == [of |-> load[p].root, name |-> f,
                       torn |-> tree[load[p].root].file[f] = "torn"]
               read == load[p].read \cup {new}
               at == IF {r.name : r \in read} = File THEN "loaded" ELSE "read"
               l == [load[p] EXCEPT !.read = read, !.at = at]
    <2>1. UNCHANGED <<tree, names, save, ghosts, faults>> /\ load[p].at = "read"
      BY <1>4 DEF ReadFile, LoadAt
    <2>2. CASE ~Matches(p, f)
      <3>1. load' = [load EXCEPT ![p] = NoLoad]
        BY <1>4, <2>2 DEF ReadFile
      <3> QED BY <2>1, <3>1, NoLoadInv
    <2>3. CASE Matches(p, f)
      <3>1. load' = [load EXCEPT ![p] = l]
        BY <1>4, <2>3 DEF ReadFile
      <3>2. load[p].root \in Tree
        BY <1>1, <2>1
      <3>3. new.torn = FALSE /\ new.of = load[p].root /\ new \in Read
        BY <2>3, <3>2 DEF Matches, Read
      <3>4. load[p].read \subseteq Read
        BY <1>1 DEF Loads
      <3> HIDE DEF new
      <3>5. read \subseteq Read /\ \A r \in read : r.of = load[p].root /\ r.torn = FALSE
        BY <1>1, <3>3, <3>4
      <3>6. at \in {"loaded", "read"} /\ (at = "loaded" => {r.name : r \in read} = File)
        OBVIOUS
      <3> HIDE DEF read, at
      <3>7. l \in Loads /\ l.at = at /\ l.root = load[p].root /\ l.read = read
        BY <1>1, <3>5, <3>6 DEF Loads
      <3> HIDE DEF l
      <3> QED BY <2>1, <3>1, <3>2, <3>5, <3>6, <3>7, LoadGoes
    <2> QED BY <2>2, <2>3
  <1>5. CASE EndLoad(p)
    BY <1>5, NoLoadInv DEF EndLoad
  <1> QED BY <1>2, <1>3, <1>4, <1>5

LEMMA LoadsStay ==
    ASSUME IInv, UNCHANGED load PROVE LoadTypes' /\ LoadsOK'
  BY Types DEF IInv, LoadTypes, LoadsOK

-----------------------------------------------------------------------------
\* Saves.

LEMMA Facts ==
    ASSUME IInv
    PROVE  /\ DiskOK /\ SavesOK /\ FaultsOK /\ Prepared /\ KeptOK
           /\ \A p \in Process : save[p] \in Saves
           /\ \A n \in Name : visible[n] \in TreeOrNothing /\ visible[n] \in onDisk[n]
           /\ \A p \in Process : save[p].at # "idle" =>
                 save[p].name \in Name /\ save[p].staged \in Tree
           /\ \A p, q \in Process :
                 p # q /\ save[p].at # "idle" => save[p].staged # save[q].staged
           /\ \A p \in Process, n \in Name :
                 save[p].at \notin {"idle", "confirm"} => save[p].staged # visible[n]
  <1>1. DiskOK /\ SavesOK /\ FaultsOK /\ Prepared /\ KeptOK
    BY Types DEF IInv
  <1>2. \A p \in Process : save[p].at # "idle" =>
           save[p].name \in Name /\ save[p].staged \in Tree /\ Staged(p) = {save[p].staged}
    BY <1>1, NothingAssumption DEF Prepared, Staged
  <1>3. \A p, q \in Process :
           p # q /\ save[p].at # "idle" => save[p].staged # save[q].staged
    BY <1>1, <1>2 DEF SavesOK, Staged
  <1>4. \A p \in Process, n \in Name :
           save[p].at \notin {"idle", "confirm"} => save[p].staged # visible[n]
    BY <1>1, <1>2 DEF SavesOK, Named
  <1> QED BY <1>1, <1>2, <1>3, <1>4 DEF SavesOK, DiskOK

\* A step that leaves what is kept, or spoils it, keeps what was kept.
LEMMA SameSaves ==
    ASSUME IInv, UNCHANGED <<save, visible>> PROVE SavesOK'
  BY Facts DEF SavesOK, Staged, Named

\* p's save goes on in the directory it has to itself, or ends.
LEMMA SaveGoesOn ==
    ASSUME IInv, NEW p \in Process, NEW s \in Saves, save' = [save EXCEPT ![p] = s],
           UNCHANGED visible,
           s.staged \in {save[p].staged, Nothing},
           s.at # "confirm" => save[p].at # "confirm" \/ s.staged = Nothing
    PROVE  SavesOK'
  <1>1. save \in [Process -> Saves] /\ SavesOK
    BY Facts DEF SavesOK
  <1>2. \A q \in Process : save'[q] = IF q = p THEN s ELSE save[q]
    BY <1>1
  <1>3. Staged(p)' \subseteq Staged(p) /\ \A q \in Process \ {p} : Staged(q)' = Staged(q)
    BY <1>2 DEF Staged
  <1>4. \A q, r \in Process : q # r => Staged(q)' \cap Staged(r)' = {}
    BY <1>1, <1>3 DEF SavesOK
  <1>5. Named' = Named
    BY DEF Named
  <1>6. \A q \in Process : save'[q].at # "confirm" => Staged(q)' \cap Named = {}
    <2>1. CASE s.staged = Nothing
      <3>1. Staged(p)' = {}
        BY <2>1, <1>2 DEF Staged
      <3> QED BY <3>1, <1>1, <1>2, <1>3 DEF SavesOK
    <2>2. CASE s.staged # Nothing
      BY <2>2, <1>1, <1>2, <1>3 DEF SavesOK
    <2> QED BY <2>1, <2>2
  <1> QED BY <1>1, <1>4, <1>5, <1>6 DEF SavesOK

LEMMA NoSaveFacts == NoSave \in Saves /\ NoSave.at = "idle" /\ NoSave.staged = Nothing
  BY DEF NoSave, Saves, TreeOrNothing

LEMMA BeginSaveInv ==
    ASSUME IInv, NEW p \in Process, NEW n \in Name, BeginSave(p, n) PROVE IInv'
  <1>1. PICK t \in Tree :
           New(t) /\ save' = [save EXCEPT ![p] = [at |-> "write", name |-> n, staged |-> t]]
    BY DEF BeginSave
  <1> DEFINE s == [at |-> "write", name |-> n, staged |-> t]
  <1>2. s \in Saves /\ s.at = "write" /\ s.name = n /\ s.staged = t
    BY DEF Saves, TreeOrNothing
  <1>3. UNCHANGED <<tree, visible, onDisk, load, kept, spoiled, faults>>
    BY DEF BeginSave, names, ghosts
  <1> HIDE DEF s
  <1>4. save' = [save EXCEPT ![p] = s]
    BY <1>1 DEF s
  <1>5. save \in [Process -> Saves] /\ SavesOK
    BY Facts DEF SavesOK
  <1>6. \A q \in Process : save'[q] = IF q = p THEN s ELSE save[q]
    BY <1>4, <1>5
  <1>7. /\ \A q \in Process : save[q].staged # t
        /\ \A m \in Name : visible[m] # t
    BY <1>1, Facts DEF New, Used
  <1>8. Staged(p)' = {t} /\ \A q \in Process \ {p} : Staged(q)' = Staged(q) /\ t \notin Staged(q)
    BY <1>2, <1>6, <1>7, NothingAssumption DEF Staged
  <1>9. \A q, r \in Process : q # r => Staged(q)' \cap Staged(r)' = {}
    BY <1>5, <1>8 DEF SavesOK
  <1>10. Named' = Named /\ t \notin Named
    BY <1>3, <1>7 DEF Named
  <1>11. \A q \in Process : save'[q].at # "confirm" => Staged(q)' \cap Named' = {}
    BY <1>5, <1>6, <1>8, <1>10 DEF SavesOK
  <1>12. SavesOK'
    BY <1>2, <1>4, <1>5, <1>9, <1>11 DEF SavesOK
  <1>13. DiskOK' /\ FaultsOK' /\ LoadTypes' /\ LoadsOK' /\ KeptOK'
    BY <1>3, Facts, LoadsStay DEF DiskOK, FaultsOK, KeptOK
  <1>14. Prepared'
    BY <1>2, <1>3, <1>6, Facts DEF Prepared
  <1> QED BY <1>12, <1>13, <1>14, Types DEF IInv

\* A save writes to its own directory only: no other save knows it, and none
\* that returned.
LEMMA WritesOwn ==
    ASSUME IInv, NEW p \in Process, save[p].at \notin {"idle", "confirm"}, NEW T \in Trees, 
           tree' = T, \A t \in Tree : t # save[p].staged => T[t] = tree[t],
           UNCHANGED <<visible, onDisk, load, kept, spoiled, faults>>,
           NEW s \in Saves, save' = [save EXCEPT ![p] = s],
           s.staged = save[p].staged, s.name = save[p].name,
           s.at \notin {"idle", "confirm"},
           s.at = "publish" => Safe(tree', s.staged)
    PROVE  IInv'
  <1>1. SavesOK'
    BY SaveGoesOn
  <1>2. /\ DiskOK' /\ FaultsOK' /\ LoadTypes' /\ LoadsOK'
    BY Facts, LoadsStay DEF DiskOK, FaultsOK
  <1>3. save \in [Process -> Saves]
    BY Facts DEF SavesOK
  <1>4. \A q \in Process : save'[q] = IF q = p THEN s ELSE save[q]
    BY <1>3
  <1>5. \A t \in Tree : t # save[p].staged /\ Safe(tree, t) => Safe(tree', t)
    BY DEF Safe
  <1>6. \A q \in Process : q # p /\ save[q].at # "idle" =>
           save[q].staged \in Tree /\ save[q].staged # save[p].staged
    BY Facts
  <1>7. Prepared'
    <2> SUFFICES ASSUME NEW q \in Process
                 PROVE  /\ save'[q].at # "idle" => save'[q].name \in Name /\ save'[q].staged \in Tree
                        /\ save'[q].at = "publish" => Safe(tree', save'[q].staged)
                        /\ save'[q].at = "confirm" /\ save'[q].staged \notin spoiled =>
                              /\ Safe(tree', save'[q].staged)
                              /\ visible[save'[q].name] = save'[q].staged
      BY DEF Prepared
    <2>1. CASE q = p
      <3>1. save'[q] = s /\ s.name \in Name /\ s.staged \in Tree
        BY <2>1, <1>4, Facts
      <3> QED BY <3>1 DEF Safe
    <2>2. CASE q # p
      <3>1. save'[q] = save[q]
        BY <2>2, <1>4
      <3>2. save[q].at # "idle" /\ Safe(tree, save[q].staged) => Safe(tree', save[q].staged)
        BY <2>2, <1>6 DEF Safe
      <3> QED BY <3>1, <3>2, Facts DEF Prepared
    <2> QED BY <2>1, <2>2
  <1>8. KeptOK'
    <2> SUFFICES ASSUME NEW k \in kept, k[2] \notin spoiled
                 PROVE  visible[k[1]] = k[2] /\ onDisk[k[1]] = {k[2]} /\ Safe(tree', k[2])
      BY DEF KeptOK
    <2>1. /\ visible[k[1]] = k[2] /\ onDisk[k[1]] = {k[2]} /\ Safe(tree, k[2])
          /\ k[1] \in Name /\ k[2] \in Tree
      BY Facts DEF KeptOK, DiskOK
    <2>2. k[2] # save[p].staged
      BY <2>1, Facts
    <2> QED BY <1>5, <2>1, <2>2 DEF Safe
  <1> QED BY <1>1, <1>2, <1>7, <1>8, Types DEF IInv

LEMMA WriteInv ==
    ASSUME IInv, NEW p \in Process,
           WriteFiles(p) \/ (\E f \in File : FlushFile(p, f)) \/ FlushListing(p)
    PROVE  IInv'
  <1> DEFINE t == save[p].staged
  <1>1. /\ save[p] \in Saves /\ save[p].at \in {"write", "flush"} /\ t \in Tree
        /\ tree \in Trees /\ save \in [Process -> Saves]
    BY Facts DEF WriteFiles, FlushFile, FlushListing, SaveAt, DiskOK, SavesOK
  <1>2. UNCHANGED <<visible, onDisk, load, kept, spoiled, faults>>
    BY DEF WriteFiles, FlushFile, FlushListing, names, ghosts
  <1>3. tree' \in Trees /\ \A u \in Tree : u # t => tree'[u] = tree[u]
    <2>1. CASE WriteFiles(p)
      BY <2>1, <1>1 DEF WriteFiles, Trees, FileState
    <2>2. ASSUME NEW f \in File, FlushFile(p, f)
          PROVE  tree' \in Trees /\ \A u \in Tree : u # t => tree'[u] = tree[u]
      BY <2>2, <1>1 DEF FlushFile, Trees, FileState
    <2>3. CASE FlushListing(p)
      BY <2>3, <1>1 DEF FlushListing, Trees
    <2> QED BY <2>1, <2>2, <2>3
  <1>4. PICK step \in {"flush", "publish"} :
           /\ save' = [save EXCEPT ![p].at = step]
           /\ step = "publish" => FlushListing(p)
    <2>1. CASE WriteFiles(p)
      BY <2>1 DEF WriteFiles, SaveGoes
    <2>2. ASSUME NEW f \in File, FlushFile(p, f)
          PROVE  save' = [save EXCEPT ![p].at = "flush"]
      BY <2>2, <1>1 DEF FlushFile, SaveAt, Saves
    <2>3. CASE FlushListing(p)
      BY <2>3 DEF FlushListing, SaveGoes
    <2> QED BY <2>1, <2>2, <2>3
  <1> DEFINE s == [save[p] EXCEPT !.at = step]
  <1>5. /\ s \in Saves /\ s.at = step /\ s.staged = t /\ s.name = save[p].name
        /\ save' = [save EXCEPT ![p] = s]
    BY <1>1, <1>4 DEF Saves
  <1>6. step = "publish" => Safe(tree', t)
    BY <1>1, <1>4 DEF FlushListing, Flushed, Safe, Trees
  <1> HIDE DEF s
  <1> QED BY <1>1, <1>2, <1>3, <1>5, <1>6, WritesOwn

\* A save ends without having returned.
LEMMA SaveStopsInv ==
    ASSUME IInv, NEW p \in Process, save' = [save EXCEPT ![p] = NoSave],
           UNCHANGED <<tree, visible, onDisk, load, kept, spoiled>>, FaultsOK'
    PROVE  IInv'
  <1>1. SavesOK'
    BY NoSaveFacts, SaveGoesOn
  <1>2. DiskOK' /\ LoadTypes' /\ LoadsOK' /\ KeptOK'
    BY Facts, LoadsStay DEF DiskOK, KeptOK
  <1>3. \A q \in Process : save'[q] = save[q] \/ save'[q].at = "idle"
    BY NoSaveFacts, Facts DEF SavesOK
  <1>4. Prepared'
    BY <1>3, Facts DEF Prepared
  <1> QED BY <1>1, <1>2, <1>4, Types DEF IInv

\* The name was free, so that no save that returned, or is about to, has it.
LEMMA PublishInv == ASSUME IInv, NEW p \in Process, Publish(p) PROVE IInv'
  <1> DEFINE n == save[p].name
             t == save[p].staged
             s == [save[p] EXCEPT !.at = "confirm"]
  <1>1. /\ save[p] \in Saves /\ save[p].at = "publish" /\ n \in Name /\ t \in Tree
        /\ Safe(tree, t) /\ save \in [Process -> Saves] /\ SavesOK
    BY Facts DEF Publish, SaveAt, Prepared, SavesOK
  <1>2. UNCHANGED <<tree, load, kept, spoiled, faults>>
    BY DEF Publish, ghosts
  <1>3. CASE visible[n] # Nothing
    <2>1. save' = [save EXCEPT ![p] = NoSave] /\ UNCHANGED <<visible, onDisk>>
      BY <1>3 DEF Publish, MayTake, names
    <2>2. FaultsOK'
      BY <1>2, Facts DEF FaultsOK
    <2> QED BY <1>2, <2>1, <2>2, SaveStopsInv
  <1>4. CASE visible[n] = Nothing
    <2>1. /\ visible' = [visible EXCEPT ![n] = t]
          /\ onDisk' = [onDisk EXCEPT ![n] = @ \cup {t}]
          /\ save' = [save EXCEPT ![p] = s]
      BY <1>4 DEF Publish, MayTake, SaveGoes
    <2>2. s \in Saves /\ s.at = "confirm" /\ s.name = n /\ s.staged = t
      BY <1>1 DEF Saves
    <2> HIDE DEF s
    <2>3. /\ visible \in [Name -> TreeOrNothing] /\ onDisk \in [Name -> SUBSET TreeOrNothing]
          /\ t \in TreeOrNothing
      BY <1>1, Facts DEF DiskOK, TreeOrNothing
    <2>4. /\ \A m \in Name : visible'[m] = IF m = n THEN t ELSE visible[m]
          /\ \A m \in Name : onDisk'[m] = IF m = n THEN onDisk[m] \cup {t} ELSE onDisk[m]
          /\ \A q \in Process : save'[q] = IF q = p THEN s ELSE save[q]
      BY <1>1, <2>1, <2>3
    <2>5. DiskOK'
      BY <1>2, <2>1, <2>3, <2>4, Facts DEF DiskOK
    <2>6. SavesOK'
      <3>1. \A q \in Process : Staged(q)' = Staged(q)
        BY <2>2, <2>4 DEF Staged
      <3>2. Named' \subseteq Named \cup {t}
        BY <2>4 DEF Named
      <3>3. \A q \in Process \ {p} : t \notin Staged(q)
        BY <1>1, Facts DEF Staged
      <3>4. \A q \in Process : save'[q].at # "confirm" => Staged(q)' \cap Named' = {}
        BY <1>1, <2>2, <2>4, <3>1, <3>2, <3>3 DEF SavesOK
      <3>5. save' \in [Process -> Saves]
        BY <1>1, <2>1, <2>2
      <3> QED BY <1>1, <3>1, <3>4, <3>5 DEF SavesOK
    <2>7. \A u \in Tree : visible[n] # u
      BY <1>4, NothingAssumption
    <2>8. KeptOK'
      <3> SUFFICES ASSUME NEW k \in kept, k[2] \notin spoiled
                   PROVE  visible'[k[1]] = k[2] /\ onDisk'[k[1]] = {k[2]} /\ Safe(tree, k[2])
        BY <1>2 DEF KeptOK
      <3>1. /\ visible[k[1]] = k[2] /\ onDisk[k[1]] = {k[2]} /\ Safe(tree, k[2])
            /\ k[1] \in Name /\ k[2] \in Tree
        BY Facts DEF KeptOK, DiskOK
      <3>2. k[1] # n
        BY <2>7, <3>1
      <3> QED BY <2>4, <3>1, <3>2
    <2>9. Prepared'
      <3> SUFFICES ASSUME NEW q \in Process
                   PROVE  /\ save'[q].at # "idle" => save'[q].name \in Name /\ save'[q].staged \in Tree
                          /\ save'[q].at = "publish" => Safe(tree, save'[q].staged)
                          /\ save'[q].at = "confirm" /\ save'[q].staged \notin spoiled =>
                                /\ Safe(tree, save'[q].staged)
                                /\ visible'[save'[q].name] = save'[q].staged
        BY <1>2 DEF Prepared
      <3>1. CASE q = p
        BY <3>1, <1>1, <2>2, <2>4
      <3>2. CASE q # p
        <4>1. save'[q] = save[q]
          BY <3>2, <2>4
        <4>2. save[q].at = "confirm" /\ save[q].staged \notin spoiled =>
                visible'[save[q].name] = save[q].staged
          BY <2>4, <2>7, Facts DEF Prepared
        <4> QED BY <4>1, <4>2, Facts DEF Prepared
      <3> QED BY <3>1, <3>2
    <2>10. FaultsOK' /\ LoadTypes' /\ LoadsOK'
      BY <1>2, Facts, LoadsStay DEF FaultsOK
    <2> QED BY <2>5, <2>6, <2>8, <2>9, <2>10, Types DEF IInv
  <1> QED BY <1>3, <1>4

\* The flush of the parent leaves the name one meaning on disk.
LEMMA ConfirmInv == ASSUME IInv, NEW p \in Process, Confirm(p) PROVE IInv'
  <1> DEFINE new == <<save[p].name, save[p].staged>>
  <1>1. /\ save[p].at = "confirm" /\ save[p].name \in Name /\ save[p].staged \in Tree
        /\ visible \in [Name -> TreeOrNothing]
    BY Facts DEF Confirm, SaveAt, DiskOK
  <1>2. /\ onDisk' = [n \in Name |-> {visible[n]}] /\ kept' = kept \cup {new}
        /\ save' = [save EXCEPT ![p] = NoSave]
        /\ UNCHANGED <<tree, visible, load, spoiled, faults>>
    BY DEF Confirm
  <1>3. SavesOK'
    BY <1>2, NoSaveFacts, SaveGoesOn
  <1>4. onDisk' \in [Name -> SUBSET TreeOrNothing] /\ \A n \in Name : onDisk'[n] = {visible[n]}
    BY <1>1, <1>2
  <1>5. DiskOK'
    BY <1>1, <1>2, <1>4, Facts DEF DiskOK
  <1>6. FaultsOK' /\ LoadTypes' /\ LoadsOK'
    BY <1>2, Facts, LoadsStay DEF FaultsOK
  <1>7. \A q \in Process : save'[q] = save[q] \/ save'[q].at = "idle"
    BY <1>2, NoSaveFacts, Facts DEF SavesOK
  <1>8. Prepared'
    BY <1>2, <1>7, Facts DEF Prepared
  <1>9. KeptOK'
    <2> SUFFICES ASSUME NEW k \in kept \cup {new}, k[2] \notin spoiled
                 PROVE  visible[k[1]] = k[2] /\ onDisk'[k[1]] = {k[2]} /\ Safe(tree, k[2])
      BY <1>2 DEF KeptOK
    <2>1. k[1] \in Name /\ visible[k[1]] = k[2] /\ Safe(tree, k[2])
      <3>1. CASE k = new
        BY <3>1, <1>1, Facts DEF Prepared
      <3>2. CASE k \in kept
        BY <3>2, Facts DEF KeptOK, DiskOK
      <3> QED BY <3>1, <3>2
    <2> QED BY <1>4, <2>1
  <1> QED BY <1>3, <1>5, <1>6, <1>8, <1>9, Types DEF IInv

-----------------------------------------------------------------------------
\* The rest of the world.

\* What is removed or damaged is at a name, and spoiled from then on.
LEMMA SpoilInv ==
    ASSUME IInv, NEW n \in Name, NEW f \in File, Unlink(n, f) \/ Damage(n, f)
    PROVE  IInv'
  <1> DEFINE t == visible[n]
  <1>1. t \in Tree /\ tree \in Trees
    BY Facts DEF Unlink, Damage, TreeOrNothing, DiskOK
  <1>2. /\ UNCHANGED <<visible, onDisk, save, load, kept>>
        /\ spoiled' = spoiled \cup {t}
        /\ Fault \/ UNCHANGED faults
    BY DEF Unlink, Damage, names
  <1>3. tree' \in Trees /\ \A u \in Tree : u # t => tree'[u] = tree[u]
    BY <1>1 DEF Unlink, Damage, Trees, FileState
  <1>4. \A u \in Tree : u # t /\ Safe(tree, u) => Safe(tree', u)
    BY <1>3 DEF Safe
  <1>5. DiskOK' /\ SavesOK' /\ FaultsOK' /\ LoadTypes' /\ LoadsOK'
    BY <1>1, <1>2, <1>3, Facts, SameSaves, FaultsCounted, LoadsStay DEF DiskOK
  <1>6. KeptOK'
    BY <1>2, <1>4, Facts DEF KeptOK, DiskOK
  <1>7. Prepared'
    BY <1>2, <1>4, Facts DEF Prepared
  <1> QED BY <1>5, <1>6, <1>7, Types DEF IInv

LEMMA RemoveDirectoryInv ==
    ASSUME IInv, NEW n \in Name, RemoveDirectory(n) PROVE IInv'
  <1>1. /\ visible' = [visible EXCEPT ![n] = Nothing]
        /\ onDisk' = [onDisk EXCEPT ![n] = @ \cup {Nothing}]
        /\ UNCHANGED <<tree, save, load, kept, spoiled, faults>>
    BY DEF RemoveDirectory, ghosts
  <1>2. ~Safe(tree, visible[n])
    BY ManifestAssumption DEF RemoveDirectory, Safe
  <1>3. visible \in [Name -> TreeOrNothing] /\ onDisk \in [Name -> SUBSET TreeOrNothing]
    BY Facts DEF DiskOK
  <1>4. /\ \A m \in Name : visible'[m] = IF m = n THEN Nothing ELSE visible[m]
        /\ \A m \in Name : onDisk'[m] = IF m = n THEN onDisk[m] \cup {Nothing} ELSE onDisk[m]
    BY <1>1, <1>3
  <1>5. DiskOK'
    BY <1>1, <1>3, <1>4, Facts DEF DiskOK, TreeOrNothing
  <1>6. SavesOK'
    <2>1. \A q \in Process : Staged(q)' = Staged(q) /\ Nothing \notin Staged(q)
      BY <1>1 DEF Staged
    <2>2. Named' \subseteq Named \cup {Nothing}
      BY <1>4 DEF Named
    <2> QED BY <1>1, <2>1, <2>2, Facts DEF SavesOK
  <1>7. KeptOK'
    BY <1>1, <1>2, <1>4, Facts DEF KeptOK, DiskOK
  <1>8. Prepared'
    BY <1>1, <1>2, <1>4, Facts DEF Prepared
  <1>9. FaultsOK' /\ LoadTypes' /\ LoadsOK'
    BY <1>1, Facts, LoadsStay DEF FaultsOK
  <1> QED BY <1>5, <1>6, <1>7, <1>8, <1>9, Types DEF IInv

\* A directory that is safe, and that its name alone leads to, comes back.
LEMMA PowerFailsInv == ASSUME IInv, PowerFails PROVE IInv'
  <1> DEFINE back == {visible'[n] : n \in Name} \ {Nothing}
  <1>1. PICK left \in [back -> [File -> FileState]] :
           /\ \A t \in back, f \in File : left[t][f] \in Remains(t, f)
           /\ tree' = [t \in Tree |->
                 IF t \in back THEN [file |-> left[t], listed |-> TRUE] ELSE tree[t]]
    BY DEF PowerFails
  <1>2. /\ visible' \in [Name -> TreeOrNothing] /\ \A n \in Name : visible'[n] \in onDisk[n]
        /\ onDisk' = [n \in Name |-> {visible'[n]}]
        /\ save' = [p \in Process |-> NoSave] /\ load' = [p \in Process |-> NoLoad]
        /\ UNCHANGED <<kept, spoiled>> /\ Fault
    BY DEF PowerFails, ghosts
  <1> HIDE DEF back
  <1>3. tree \in Trees
    BY Facts DEF DiskOK
  <1>4. tree' \in Trees
    BY <1>1, <1>3 DEF Trees
  <1>5. DiskOK'
    BY <1>2, <1>4, Facts DEF DiskOK
  <1>6. SavesOK'
    BY <1>2, NoSaveFacts DEF SavesOK, Staged
  <1>7. FaultsOK'
    BY <1>2, Facts, FaultsCounted
  <1>8. NoLoad \in Loads /\ NoLoad.at = "idle" /\ NoLoad.read = {}
    BY DEF NoLoad, Loads, TreeOrNothing
  <1>9. LoadTypes' /\ LoadsOK'
    BY <1>2, <1>8 DEF LoadTypes, LoadsOK
  <1>10. Prepared'
    BY <1>2, NoSaveFacts DEF Prepared
  <1>11. \A t \in Tree : Safe(tree, t) => Safe(tree', t)
    <2> SUFFICES ASSUME NEW t \in Tree, Safe(tree, t) PROVE Safe(tree', t)
      OBVIOUS
    <2>1. CASE t \notin back
      BY <2>1, <1>1 DEF Safe
    <2>2. CASE t \in back
      <3>1. \A f \in File : Remains(t, f) = {"stable"}
        BY DEF Remains, Survives, Safe
      <3>2. \A f \in File : left[t][f] = "stable"
        BY <3>1, <2>2, <1>1
      <3>3. tree'[t] = [file |-> left[t], listed |-> TRUE]
        BY <2>2, <1>1
      <3> QED BY <3>2, <3>3 DEF Safe
    <2> QED BY <2>1, <2>2
  <1>12. KeptOK'
    BY <1>2, <1>11, Facts DEF KeptOK, DiskOK
  <1> QED BY <1>5, <1>6, <1>7, <1>9, <1>10, <1>12, Types DEF IInv

-----------------------------------------------------------------------------
LEMMA NextInv == IInv /\ [Next]_vars => IInv'
  <1> SUFFICES ASSUME IInv, [Next]_vars PROVE IInv'
    OBVIOUS
  <1>1. CASE UNCHANGED vars
    BY <1>1, LoadStep, LoadsStay DEF vars, names, ghosts
  <1>2. ASSUME NEW p \in Process, SaveStops(p) PROVE IInv'
    <2>1. FaultsOK'
      BY <1>2, Facts, FaultsCounted DEF SaveStops
    <2> QED BY <1>2, <2>1, SaveStopsInv DEF SaveStops, names, ghosts
  <1>3. CASE Next
    BY <1>2, <1>3, BeginSaveInv, WriteInv, PublishInv, ConfirmInv, LoadInv, SpoilInv,
       RemoveDirectoryInv, PowerFailsInv
       DEF Next
  <1> QED BY <1>1, <1>3

\* No order of saves, loads, removals, damage and power failures leaves the
\* invariant.
THEOREM Invariant == Spec => []IInv
  <1> QED BY InitInv, NextInv, PTL DEF Spec

\* Files, names and calls stay what their types say, and a save that has not
\* renamed its directory has it to itself (mkdtemp in checkpoint/durability.py).
THEOREM TypeCorrect == Spec => []TypeOK
  <1>1. IInv => TypeOK
    BY DEF IInv
  <1> QED BY <1>1, Invariant, PTL

\* Once save_checkpoint has returned, its checkpoint is at its name, whole,
\* until somebody removes or damages it.
THEOREM SavesSurvive == Spec => []ReturnedSaveSurvives
  <1>1. IInv => ReturnedSaveSurvives
    BY DEF IInv, KeptOK, Safe, ReturnedSaveSurvives, Whole
  <1> QED BY <1>1, Invariant, PTL

\* What prepare_checkpoint_load returns is all the files of one save.
THEOREM LoadsAreWhole == Spec => []LoadIsOneSave
  <1>1. IInv => LoadIsOneSave
    <2> SUFFICES ASSUME IInv, NEW p \in Process, LoadAt(p, "loaded")
                 PROVE  \E t \in Tree : load[p].read = [of : {t}, name : File, torn : {FALSE}]
      BY DEF LoadIsOneSave
    <2> DEFINE read == load[p].read
               t == load[p].root
    <2>1. /\ t \in Tree /\ {r.name : r \in read} = File
          /\ \A r \in read : r.of = t /\ r.torn = FALSE
      BY DEF IInv, LoadsOK, LoadAt
    <2>2. load[p] \in Loads
      BY Types DEF IInv, LoadTypes
    <2>3. read \subseteq Read
      BY <2>2 DEF Loads
    <2> HIDE DEF read, t
    <2>4. \A r \in read : r = [of |-> t, name |-> r.name, torn |-> FALSE] /\ r.name \in File
      BY <2>1, <2>3 DEF Read
    <2>5. \A f \in File : [of |-> t, name |-> f, torn |-> FALSE] \in read
      <3> SUFFICES ASSUME NEW f \in File PROVE [of |-> t, name |-> f, torn |-> FALSE] \in read
        OBVIOUS
      <3>1. PICK r \in read : r.name = f
        BY <2>1
      <3> QED BY <2>4, <3>1
    <2>6. read = [of : {t}, name : File, torn : {FALSE}]
      <3>1. ASSUME NEW r \in read PROVE r \in [of : {t}, name : File, torn : {FALSE}]
        <4>1. PICK f \in File : r = [of |-> t, name |-> f, torn |-> FALSE]
          BY <2>4
        <4> QED BY <4>1
      <3>2. ASSUME NEW r \in [of : {t}, name : File, torn : {FALSE}] PROVE r \in read
        <4>1. r = [of |-> t, name |-> r.name, torn |-> FALSE] /\ r.name \in File
          OBVIOUS
        <4> QED BY <4>1, <2>5
      <3> QED BY <3>1, <3>2
    <2> QED BY <2>1, <2>6 DEF read
  <1> QED BY <1>1, Invariant, PTL
=============================================================================
