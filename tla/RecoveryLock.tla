----------------------------- MODULE RecoveryLock -----------------------------
(***************************************************************************)
(* checkpoint/recovery_lock.py, exclusive_recovery_lock: the three nested  *)
(* flocks under which a recovery root is changed, while others rename and  *)
(* recreate the directories the path goes through.  A path is a parent's   *)
(* name in a stable namespace and then the root's name in that parent.     *)
(*                                                                         *)
(*   parentAt[n]  the parent directory named n, if any                     *)
(*   rootIn[d]    the root directory inside the parent directory d, if any *)
(*   made         the directories that were ever created                   *)
(*   call[p]      p's call: its next step, the name it was given, and the  *)
(*                directories it remembers: parent (parent_before), guard  *)
(*                (where it opened the path guard) and root (before)       *)
(*   holds[p]     the locks p has                                          *)
(*                                                                         *)
(* A lock is a file that is never removed, so it is known by where it is:  *)
(* the namespace guard by the path's names, the path guard by the parent's *)
(* inode, the publication lock by the root's inode.  Directories are moved *)
(* and not deleted, so an inode is never reused.  This is the POSIX branch.*)
(*                                                                         *)
(* Fuel: moves counts the directories that others move, and the directories*)
(* that can be made are those of ParentDir and RootDir (then mkdir fails). *)
(***************************************************************************)
EXTENDS Naturals

CONSTANTS Process, Name, ParentDir, RootDir,
          Nowhere,      \* no directory
          MaxMoves

ASSUME NowhereAssumption == Nowhere \notin ParentDir \cup RootDir
ASSUME MovesAssumption == MaxMoves \in Nat

VARIABLES parentAt, rootIn, made, call, holds, moves

vars == <<parentAt, rootIn, made, call, holds, moves>>
tree == <<parentAt, rootIn, made>>

Steps == {"idle", "namespace", "parent", "mkroot", "guard", "path", "pin",
          "lock", "checkParent", "checkRoot", "inside"}

NamespaceGuard(n) == <<"namespace", n>>
PathGuard(d) == <<"path", d>>
PublicationLock(r) == <<"publication", r>>
Locks ==
    {NamespaceGuard(n) : n \in Name} \cup {PathGuard(d) : d \in ParentDir}
        \cup {PublicationLock(r) : r \in RootDir}

NoCall(n) ==
    [at |-> "idle", name |-> n, parent |-> Nowhere, guard |-> Nowhere, root |-> Nowhere]

\* What the path of p's call leads to.
Parent(p) == parentAt[call[p].name]
Root(p) == IF Parent(p) = Nowhere THEN Nowhere ELSE rootIn[Parent(p)]

-----------------------------------------------------------------------------
Init ==
    /\ parentAt = [n \in Name |-> Nowhere] /\ rootIn = [d \in ParentDir |-> Nowhere]
    /\ made = {}
    /\ \E n \in Name : call = [p \in Process |-> NoCall(n)]
    /\ holds = [p \in Process |-> {}]
    /\ moves = 0

At(p, step) == call[p].at = step
Go(p, step) == call' = [call EXCEPT ![p].at = step]

\* flock(LOCK_EX) waits for the holder; the kernel does not queue the waiters.
FreeLock(lock) == \A p \in Process : lock \notin holds[p]
Flock(p, lock) == FreeLock(lock) /\ holds' = [holds EXCEPT ![p] = @ \cup {lock}]

\* The finally clauses, and the kernel when a process dies.  A faulty one keeps
\* the namespace guard.
Spares(p) == {NamespaceGuard(call[p].name)}
Leaves(p) == {}
Release(p) ==
    /\ call' = [call EXCEPT ![p] = NoCall(call[p].name)]
    /\ holds' = [holds EXCEPT ![p] = @ \cap Leaves(p)]

\* exclusive_recovery_lock(root): open the namespace guard ...
Begin(p, n) ==
    /\ At(p, "idle")
    /\ call' = [call EXCEPT ![p] = [NoCall(n) EXCEPT !.at = "namespace"]]
    /\ UNCHANGED <<tree, holds, moves>>

\* ... and lock it.  A faulty one keeps that guard, too, in the parent.
InParent(p) == NamespaceGuard(Parent(p))
Outer(p) == NamespaceGuard(call[p].name)
LockNamespace(p) ==
    /\ At(p, "namespace")
    /\ Flock(p, Outer(p))
    /\ Go(p, "parent")
    /\ UNCHANGED <<tree, moves>>

\* parent.mkdir(exist_ok=True), and the inode it then has.
PinParent(p) ==
    /\ At(p, "parent")
    /\ IF Parent(p) # Nowhere
       THEN /\ call' = [call EXCEPT ![p].at = "mkroot", ![p].parent = Parent(p)]
            /\ UNCHANGED <<tree, holds>>
       ELSE IF ParentDir \subseteq made THEN Release(p) /\ UNCHANGED tree
       ELSE \E d \in ParentDir \ made :
            /\ parentAt' = [parentAt EXCEPT ![call[p].name] = d]
            /\ made' = made \cup {d}
            /\ call' = [call EXCEPT ![p].at = "mkroot", ![p].parent = d]
            /\ UNCHANGED <<rootIn, holds>>
    /\ UNCHANGED moves

\* recovery_root.mkdir(exist_ok=True) goes by the path, so it may make the root
\* in a parent that is not the one remembered, before that is refused.
MakeRoot(p) ==
    /\ At(p, "mkroot")
    /\ IF Root(p) # Nowhere THEN UNCHANGED tree
       ELSE \/ (Parent(p) = Nowhere \/ RootDir \subseteq made) /\ UNCHANGED tree
            \/ /\ Parent(p) # Nowhere
               /\ \E r \in RootDir \ made :
                     /\ rootIn' = [rootIn EXCEPT ![Parent(p)] = r]
                     /\ made' = made \cup {r}
               /\ UNCHANGED parentAt
    /\ IF Parent(p) = call[p].parent /\ rootIn'[Parent(p)] # Nowhere
       THEN Go(p, "guard") /\ UNCHANGED holds
       ELSE Release(p)
    /\ UNCHANGED moves

\* The path guard is opened in whatever parent the path leads to by now.
OpenGuard(p) ==
    /\ At(p, "guard")
    /\ IF Parent(p) = Nowhere THEN Release(p)
       ELSE call' = [call EXCEPT ![p].at = "path", ![p].guard = Parent(p)] /\ UNCHANGED holds
    /\ UNCHANGED <<tree, moves>>

LockPath(p) ==
    /\ At(p, "path")
    /\ Flock(p, PathGuard(call[p].guard))
    /\ Go(p, "pin")
    /\ UNCHANGED <<tree, moves>>

\* The root is opened, and its publication lock through the open directory.
PinRoot(p) ==
    /\ At(p, "pin")
    /\ IF Root(p) = Nowhere THEN Release(p)
       ELSE call' = [call EXCEPT ![p].at = "lock", ![p].root = Root(p)] /\ UNCHANGED holds
    /\ UNCHANGED <<tree, moves>>

\* A faulty one names the lock by the path and not by the directory.
ByName(p) == PublicationLock(call[p].name)
Inner(p) == PublicationLock(call[p].root)
LockRoot(p) ==
    /\ At(p, "lock")
    /\ Flock(p, Inner(p))
    /\ Go(p, "checkParent")
    /\ UNCHANGED <<tree, moves>>

\* Neither the parent nor the root changed while the locks were waited for.
CheckParent(p) ==
    /\ At(p, "checkParent")
    /\ IF Parent(p) = call[p].parent THEN Go(p, "checkRoot") /\ UNCHANGED holds ELSE Release(p)
    /\ UNCHANGED <<tree, moves>>

CheckRoot(p) ==
    /\ At(p, "checkRoot")
    /\ IF Root(p) = call[p].root THEN Go(p, "inside") /\ UNCHANGED holds ELSE Release(p)
    /\ UNCHANGED <<tree, moves>>

\* The critical section ends, or the process dies or gets an error anywhere.  The
\* two checks after it decide between returning and raising.
End(p) ==
    /\ ~At(p, "idle")
    /\ Release(p)
    /\ UNCHANGED <<tree, moves>>

Leave(p) == At(p, "inside") /\ End(p)

-----------------------------------------------------------------------------
\* Others: a directory is moved away, or one moved before comes to a free name.
Move ==
    /\ moves < MaxMoves /\ moves' = moves + 1
    /\ \/ \E n \in Name, d \in (made \cap ParentDir) \cup {Nowhere} :
            /\ d # parentAt[n] /\ (d = Nowhere \/ \A m \in Name : parentAt[m] # d)
            /\ parentAt[n] = Nowhere \/ d = Nowhere
            /\ parentAt' = [parentAt EXCEPT ![n] = d] /\ UNCHANGED rootIn
       \/ \E d \in made \cap ParentDir, r \in (made \cap RootDir) \cup {Nowhere} :
            /\ r # rootIn[d] /\ (r = Nowhere \/ \A e \in ParentDir : rootIn[e] # r)
            /\ rootIn[d] = Nowhere \/ r = Nowhere
            /\ rootIn' = [rootIn EXCEPT ![d] = r] /\ UNCHANGED parentAt
    /\ UNCHANGED <<made, call, holds>>

Step(p) ==
    \/ PinParent(p) \/ MakeRoot(p) \/ OpenGuard(p) \/ PinRoot(p)
    \/ CheckParent(p) \/ CheckRoot(p)

Next ==
    \/ \E p \in Process :
          \/ \E n \in Name : Begin(p, n)
          \/ LockNamespace(p) \/ LockPath(p) \/ LockRoot(p)
          \/ Step(p) \/ End(p)
    \/ Move

Spec == Init /\ [][Next]_vars

(***************************************************************************)
(* A call that need not wait goes on and leaves its critical section; one  *)
(* that waits gets a lock that is free again and again, for flock hands it *)
(* to one of those that wait and a critical section is a bounded job.      *)
(***************************************************************************)
FairSpec ==
    /\ Spec
    /\ \A p \in Process :
          /\ WF_vars(Step(p)) /\ WF_vars(Leave(p))
          /\ SF_vars(LockNamespace(p)) /\ SF_vars(LockPath(p)) /\ SF_vars(LockRoot(p))

-----------------------------------------------------------------------------
\* Properties.

TypeOK ==
    /\ parentAt \in [Name -> ParentDir \cup {Nowhere}]
    /\ rootIn \in [ParentDir -> RootDir \cup {Nowhere}]
    /\ made \subseteq ParentDir \cup RootDir
    /\ call \in [Process -> [at: Steps, name: Name, parent: ParentDir \cup {Nowhere},
                             guard: ParentDir \cup {Nowhere}, root: RootDir \cup {Nowhere}]]
    /\ holds \in [Process -> SUBSET Locks]
    /\ moves \in Nat

Inside(p) == At(p, "inside")

\* "Replacing the immediate parent cannot mint a second logical-path lock lane":
\* whatever is moved, two processes are never inside for one path.
OnePerPath ==
    \A p, q \in Process :
        p # q /\ Inside(p) /\ Inside(q) => call[p].name # call[q].name

\* Nor do two ever change one directory, though they reach it by two paths,
\* when it or its parent was moved from one to the other in between.
OnePerRoot ==
    \A p, q \in Process :
        p # q /\ Inside(p) /\ Inside(q) => call[p].root # call[q].root

\* No three nested locks, taken while directories are exchanged under them,
\* ever leave a call waiting for good.
EveryCallEnds == \A p \in Process : ~At(p, "idle") ~> At(p, "idle")
=============================================================================
