---------------------------- MODULE CheckpointStore ----------------------------
(***************************************************************************)
(* Checkpoint directories on disk: save_checkpoint (checkpoint/core.py) as *)
(* checkpoint/durability.py wraps it, and prepare_checkpoint_load as       *)
(* checkpoint/root_snapshot.py pins it, with processes that die, power     *)
(* that fails, damage, and a cleanup that removes directories meanwhile.   *)
(*                                                                         *)
(*   tree[t]     a directory: the state of its files, and whether their    *)
(*               names are on disk (listed)                                *)
(*   visible[n]  the directory named n, if any                             *)
(*   onDisk[n]   what n may name after a power failure: every directory it *)
(*               named since the parent was last flushed                   *)
(*   save[p]     p's call: its next step, destination and staged directory *)
(*   load[p]     p's call: its next step, the directory it has opened, and *)
(*               the files it has read                                     *)
(*   kept        the <<name, directory>> of the saves that returned        *)
(*   spoiled     the directories a removal or damage has touched           *)
(*                                                                         *)
(* A file is absent, cached (written and not flushed), stable or torn. Two *)
(* directories never hold equal files.  Of the five files of a checkpoint  *)
(* File has the manifest (with its checksum) and as many payloads as it    *)
(* likes.  The names are those of one parent directory, which stays.       *)
(*                                                                         *)
(* Fuel: a save uses a directory of Tree up, and faults counts failures,   *)
(* deaths, power failures, damage and removals.                            *)
(***************************************************************************)
EXTENDS Naturals

CONSTANTS Process, Name, Tree, File,
          Manifest,     \* the file that the others are verified against
          Nothing,      \* no directory
          MaxFaults

ASSUME ManifestAssumption == Manifest \in File
ASSUME NothingAssumption == Nothing \notin Tree
ASSUME FaultsAssumption == MaxFaults \in Nat

VARIABLES tree, visible, onDisk, save, load, kept, spoiled, faults

vars == <<tree, visible, onDisk, save, load, kept, spoiled, faults>>
names == <<visible, onDisk>>
ghosts == <<kept, spoiled>>

TreeOrNothing == Tree \cup {Nothing}
FileState == {"absent", "cached", "stable", "torn"}
Unmade == [file |-> [f \in File |-> "absent"], listed |-> FALSE]
NoSave == [at |-> "idle", name |-> Nothing, staged |-> Nothing]
NoLoad == [at |-> "idle", root |-> Nothing, read |-> {}]

Init ==
    /\ tree = [t \in Tree |-> Unmade]
    /\ visible = [n \in Name |-> Nothing]
    /\ onDisk = [n \in Name |-> {Nothing}]
    /\ save = [p \in Process |-> NoSave] /\ load = [p \in Process |-> NoLoad]
    /\ kept = {} /\ spoiled = {}
    /\ faults = 0

Fault == faults < MaxFaults /\ faults' = faults + 1

Whole(t) == \A f \in File : tree[t].file[f] \in {"cached", "stable"}
Flushed(t) == \A f \in File : tree[t].file[f] = "stable"

-----------------------------------------------------------------------------
\* save_checkpoint(directory).

SaveAt(p, step) == save[p].at = step
SaveGoes(p, step) == save' = [save EXCEPT ![p].at = step]

\* A destination that exists is refused; else mkdtemp makes a new directory.  A
\* faulty mkdtemp takes one in use.
Used == {save[p].staged : p \in Process} \cup UNION {onDisk[n] : n \in Name}
InUse(t) == t \in Tree
New(t) == t \notin Used /\ tree[t] = Unmade
BeginSave(p, n) ==
    /\ SaveAt(p, "idle") /\ visible[n] = Nothing
    /\ \E t \in Tree :
          /\ New(t)
          /\ save' = [save EXCEPT ![p] = [at |-> "write", name |-> n, staged |-> t]]
    /\ UNCHANGED <<tree, names, load, ghosts, faults>>

\* The core save: the files are written, verified, and renamed into the staging.
WriteFiles(p) ==
    /\ SaveAt(p, "write")
    /\ tree' = [tree EXCEPT ![save[p].staged].file = [f \in File |-> "cached"]]
    /\ SaveGoes(p, "flush")
    /\ UNCHANGED <<names, load, ghosts, faults>>

\* fsync_checkpoint_tree: each file, then the directory that lists them.
FlushFile(p, f) ==
    /\ SaveAt(p, "flush")
    /\ tree[save[p].staged].file[f] = "cached"
    /\ tree' = [tree EXCEPT ![save[p].staged].file[f] = "stable"]
    /\ UNCHANGED <<names, save, load, ghosts, faults>>

FlushListing(p) ==
    /\ SaveAt(p, "flush") /\ Flushed(save[p].staged)
    /\ tree' = [tree EXCEPT ![save[p].staged].listed = TRUE]
    /\ SaveGoes(p, "publish")
    /\ UNCHANGED <<names, load, ghosts, faults>>

\* renameat2 with RENAME_NOREPLACE; a faulty one replaces.
Replaces(n) == n \in Name
MayTake(n) == visible[n] = Nothing
Publish(p) ==
    LET n == save[p].name IN
    /\ SaveAt(p, "publish")
    /\ IF MayTake(n)
       THEN /\ visible' = [visible EXCEPT ![n] = save[p].staged]
            /\ onDisk' = [onDisk EXCEPT ![n] = @ \cup {save[p].staged}]
            /\ SaveGoes(p, "confirm")
       ELSE save' = [save EXCEPT ![p] = NoSave] /\ UNCHANGED names
    /\ UNCHANGED <<tree, load, ghosts, faults>>

\* fsync_parent_directory, and the save returns.
Confirm(p) ==
    /\ SaveAt(p, "confirm")
    /\ onDisk' = [n \in Name |-> {visible[n]}]
    /\ kept' = kept \cup {<<save[p].name, save[p].staged>>}
    /\ save' = [save EXCEPT ![p] = NoSave]
    /\ UNCHANGED <<tree, visible, load, spoiled, faults>>

\* A step raises, or the process dies.  After the rename the directory is
\* visible, though no caller was told.
SaveStops(p) ==
    /\ ~SaveAt(p, "idle") /\ Fault
    /\ save' = [save EXCEPT ![p] = NoSave]
    /\ UNCHANGED <<tree, names, load, ghosts>>

-----------------------------------------------------------------------------
\* prepare_checkpoint_load(directory).

LoadAt(p, step) == load[p].at = step

\* The directory is opened once, and everything is read from what was opened.
BeginLoad(p, n) ==
    /\ LoadAt(p, "idle") /\ visible[n] # Nothing
    /\ load' = [load EXCEPT ![p] = [at |-> "inventory", root |-> visible[n], read |-> {}]]
    /\ UNCHANGED <<tree, names, save, ghosts, faults>>

\* _require_checkpoint_directory: exactly the files of a checkpoint.
Inventory(p) ==
    /\ LoadAt(p, "inventory")
    /\ load' = [load EXCEPT ![p] =
          IF \A f \in File : tree[load[p].root].file[f] # "absent"
          THEN [@ EXCEPT !.at = "read"] ELSE NoLoad]
    /\ UNCHANGED <<tree, names, save, ghosts, faults>>

\* Each file is read once, the manifest first.  A file that is gone, or that does
\* not match its record (or the manifest's own checksum), ends the load.  A faulty
\* load does not compare.
Present(p, f) == tree[load[p].root].file[f] # "absent"
Matches(p, f) == tree[load[p].root].file[f] \in {"cached", "stable"}
ReadFile(p, f) ==
    LET read == load[p].read \cup {[of |-> load[p].root, name |-> f,
                                    torn |-> tree[load[p].root].file[f] = "torn"]}
    IN /\ LoadAt(p, "read")
       /\ \A r \in load[p].read : r.name # f
       /\ f = Manifest \/ \E r \in load[p].read : r.name = Manifest
       /\ load' = [load EXCEPT ![p] =
             IF ~Matches(p, f) THEN NoLoad
             ELSE [@ EXCEPT !.read = read,
                            !.at = IF {r.name : r \in read} = File THEN "loaded" ELSE "read"]]
       /\ UNCHANGED <<tree, names, save, ghosts, faults>>

\* The caller is done with what was loaded.
EndLoad(p) ==
    /\ LoadAt(p, "loaded")
    /\ load' = [load EXCEPT ![p] = NoLoad]
    /\ UNCHANGED <<tree, names, save, ghosts, faults>>

-----------------------------------------------------------------------------
\* The rest of the world.

\* rmtree of a published checkpoint, file by file and then the directory.
Unlink(n, f) ==
    LET t == visible[n] IN
    /\ t # Nothing
    /\ tree[t].file[f] # "absent"
    /\ tree' = [tree EXCEPT ![t].file[f] = "absent"]
    /\ IF t \in spoiled THEN UNCHANGED <<spoiled, faults>>
       ELSE Fault /\ spoiled' = spoiled \cup {t}
    /\ UNCHANGED <<names, save, load, kept>>

RemoveDirectory(n) ==
    /\ visible[n] # Nothing
    /\ \A f \in File : tree[visible[n]].file[f] = "absent"
    /\ visible' = [visible EXCEPT ![n] = Nothing]
    /\ onDisk' = [onDisk EXCEPT ![n] = @ \cup {Nothing}]
    /\ UNCHANGED <<tree, save, load, ghosts, faults>>

Damage(n, f) ==
    LET t == visible[n] IN
    /\ t # Nothing
    /\ tree[t].file[f] # "absent" /\ Fault
    /\ tree' = [tree EXCEPT ![t].file[f] = "torn"]
    /\ spoiled' = spoiled \cup {t}
    /\ UNCHANGED <<names, save, load, kept>>

\* Power fails: every call ends, a name is one of what it may be on disk, and of
\* a file that was not flushed, or not listed, anything may be left.  What no name
\* leads to is litter.
Survives(t, f) == tree[t].listed /\ tree[t].file[f] # "cached"
Remains(t, f) ==
    IF Survives(t, f) \/ tree[t].file[f] = "absent" THEN {tree[t].file[f]}
    ELSE {"absent", "torn", "stable"}
PowerFails ==
    /\ Fault
    /\ visible' \in {v \in [Name -> TreeOrNothing] : \A n \in Name : v[n] \in onDisk[n]}
    /\ onDisk' = [n \in Name |-> {visible'[n]}]
    /\ LET back == {visible'[n] : n \in Name} \ {Nothing} IN
       \E left \in [back -> [File -> FileState]] :
          /\ \A t \in back, f \in File : left[t][f] \in Remains(t, f)
          /\ tree' = [t \in Tree |->
                IF t \in back THEN [file |-> left[t], listed |-> TRUE] ELSE tree[t]]
    /\ save' = [p \in Process |-> NoSave] /\ load' = [p \in Process |-> NoLoad]
    /\ UNCHANGED ghosts

Next ==
    \/ \E p \in Process :
          \/ \E n \in Name : BeginSave(p, n) \/ BeginLoad(p, n)
          \/ WriteFiles(p) \/ FlushListing(p) \/ Publish(p) \/ Confirm(p) \/ SaveStops(p)
          \/ \E f \in File : FlushFile(p, f) \/ ReadFile(p, f)
          \/ Inventory(p) \/ EndLoad(p)
    \/ \E n \in Name :
          \/ \E f \in File : Unlink(n, f) \/ Damage(n, f)
          \/ RemoveDirectory(n)
    \/ PowerFails

Spec == Init /\ [][Next]_vars

-----------------------------------------------------------------------------
Read == [of : Tree, name : File, torn : BOOLEAN]
Staged(p) == {save[p].staged} \ {Nothing}
Named == {visible[n] : n \in Name}

\* The ranges; a save that has not renamed has its staged directory to itself.
TypeOK ==
    /\ tree \in [Tree -> [file : [File -> FileState], listed : BOOLEAN]]
    /\ visible \in [Name -> TreeOrNothing]
    /\ onDisk \in [Name -> SUBSET TreeOrNothing]
    /\ \A n \in Name : visible[n] \in onDisk[n]
    /\ save \in [Process ->
          [at : {"idle", "write", "flush", "publish", "confirm"},
           name : Name \cup {Nothing}, staged : TreeOrNothing]]
    /\ load \in [Process ->
          [at : {"idle", "inventory", "read", "loaded"},
           root : TreeOrNothing, read : SUBSET Read]]
    /\ kept \subseteq Name \X Tree /\ spoiled \subseteq Tree
    /\ faults \in 0..MaxFaults
    /\ \A p, q \in Process : p # q => Staged(p) \cap Staged(q) = {}
    /\ \A p \in Process : save[p].at # "confirm" => Staged(p) \cap Named = {}

\* A checkpoint whose save has returned is whole and at its name, through every
\* power failure and every other save, until it is removed or damaged.
ReturnedSaveSurvives ==
    \A k \in kept : k[2] \notin spoiled => visible[k[1]] = k[2] /\ Whole(k[2])

\* A load returns the files of one save, all of them as they were written,
\* though it reads them one by one while directories come and go.  That they are
\* of one directory is the doing of the descriptor the load has pinned; that a
\* directory being removed, damaged or half back after a power failure is not
\* returned rests on the inventory and the checksums.
LoadIsOneSave ==
    \A p \in Process : LoadAt(p, "loaded") =>
        \E t \in Tree : load[p].read = [of : {t}, name : File, torn : {FALSE}]
===============================================================================
