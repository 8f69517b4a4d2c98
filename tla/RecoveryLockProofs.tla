-------------------------- MODULE RecoveryLockProofs --------------------------
(***************************************************************************)
(* Mutual exclusion of checkpoint/recovery_lock.py, for every number of    *)
(* processes, names and directories, however often they are moved.         *)
(***************************************************************************)
EXTENDS RecoveryLock, TLAPS

\* A lock has one holder.
OneHolder == \A p, q \in Process : p # q => holds[p] \cap holds[q] = {}

\* From the step after it was locked, a call has its namespace guard ...
GuardHeld ==
    \A p \in Process :
        call[p].at \notin {"idle", "namespace"} => NamespaceGuard(call[p].name) \in holds[p]

\* ... and from the checks on, the publication lock of the root it remembers.
RootHeld ==
    \A p \in Process :
        call[p].at \in {"checkParent", "checkRoot", "inside"}
            => PublicationLock(call[p].root) \in holds[p]

\* What a call is about to lock exists.
Opened ==
    \A p \in Process :
        /\ call[p].at = "path" => call[p].guard # Nowhere
        /\ call[p].at = "lock" => call[p].root # Nowhere

LockInv == OneHolder /\ GuardHeld /\ RootHeld /\ Opened
IInv == TypeOK /\ LockInv

Calls ==
    [at: Steps, name: Name, parent: ParentDir \cup {Nowhere},
     guard: ParentDir \cup {Nowhere}, root: RootDir \cup {Nowhere}]

-----------------------------------------------------------------------------
\* What the four things that happen to a call's own state do to the invariant:
\* it gives up its locks, goes on without a new one, takes one, or nothing.

LEMMA ReleaseKeeps ==
    ASSUME IInv, NEW p \in Process, Release(p)
    PROVE  /\ call' \in [Process -> Calls] /\ holds' \in [Process -> SUBSET Locks]
           /\ LockInv'
  <1> DEFINE idle == NoCall(call[p].name)
  <1>1. idle \in Calls /\ idle.at = "idle"
    BY DEF NoCall, Calls, Steps, IInv, TypeOK
  <1>2. /\ call' = [call EXCEPT ![p] = idle]
        /\ holds' = [holds EXCEPT ![p] = {}]
    BY DEF Release, Leaves
  <1>3. call \in [Process -> Calls] /\ holds \in [Process -> SUBSET Locks]
    BY DEF IInv, TypeOK, Calls
  <1> HIDE DEF idle
  <1>4. call' \in [Process -> Calls] /\ holds' \in [Process -> SUBSET Locks]
    BY <1>1, <1>2, <1>3
  <1>5. OneHolder'
    BY <1>2, <1>3 DEF IInv, LockInv, OneHolder
  <1>6. GuardHeld' /\ RootHeld' /\ Opened'
    BY <1>1, <1>2, <1>3 DEF IInv, LockInv, GuardHeld, RootHeld, Opened
  <1> QED BY <1>4, <1>5, <1>6 DEF LockInv

LEMMA GoingOnKeeps ==
    ASSUME IInv, NEW p \in Process, NEW c \in Calls,
           call' = [call EXCEPT ![p] = c], UNCHANGED holds,
           c.at \notin {"idle", "namespace"} =>
               c.name = call[p].name /\ call[p].at \notin {"idle", "namespace"},
           c.at \in {"checkParent", "checkRoot", "inside"} =>
               /\ c.root = call[p].root
               /\ call[p].at \in {"checkParent", "checkRoot", "inside"},
           c.at = "path" => c.guard # Nowhere,
           c.at = "lock" => c.root # Nowhere
    PROVE  /\ call' \in [Process -> Calls] /\ holds' \in [Process -> SUBSET Locks]
           /\ LockInv'
  <1>1. call \in [Process -> Calls] /\ holds \in [Process -> SUBSET Locks]
    BY DEF IInv, TypeOK, Calls
  <1>2. call'[p] = c /\ \A q \in Process : q # p => call'[q] = call[q]
    BY <1>1
  <1>3. GuardHeld' /\ RootHeld'
    BY <1>2 DEF IInv, LockInv, GuardHeld, RootHeld
  <1>4. OneHolder' /\ Opened'
    BY <1>2 DEF IInv, LockInv, OneHolder, Opened
  <1> QED BY <1>1, <1>3, <1>4 DEF LockInv

LEMMA LockingKeeps ==
    ASSUME IInv, NEW p \in Process, NEW lock \in Locks, NEW step \in Steps,
           Flock(p, lock), Go(p, step),
           step \notin {"idle", "namespace", "path", "lock"},
           call[p].at \in {"idle", "namespace"} => lock = NamespaceGuard(call[p].name),
           step \in {"checkParent", "checkRoot", "inside"} =>
               lock = PublicationLock(call[p].root)
    PROVE  /\ call' \in [Process -> Calls] /\ holds' \in [Process -> SUBSET Locks]
           /\ LockInv'
  <1>1. call \in [Process -> Calls] /\ holds \in [Process -> SUBSET Locks]
    BY DEF IInv, TypeOK, Calls
  <1>2. /\ call' = [call EXCEPT ![p].at = step]
        /\ holds' = [holds EXCEPT ![p] = holds[p] \cup {lock}]
        /\ \A q \in Process : lock \notin holds[q]
    BY DEF Flock, Go, FreeLock
  <1>3. call'[p] = [call[p] EXCEPT !.at = step]
    BY <1>1, <1>2
  <1>4. /\ call'[p] \in Calls /\ call'[p].at = step
        /\ call'[p].name = call[p].name /\ call'[p].root = call[p].root
    BY <1>1, <1>3 DEF Calls
  <1>5. \A q \in Process : q # p => call'[q] = call[q] /\ holds'[q] = holds[q]
    BY <1>1, <1>2
  <1>6. holds'[p] = holds[p] \cup {lock}
    BY <1>1, <1>2
  <1>7. call' \in [Process -> Calls] /\ holds' \in [Process -> SUBSET Locks]
    BY <1>1, <1>2, <1>4
  <1>8. OneHolder'
    BY <1>2, <1>5, <1>6 DEF IInv, LockInv, OneHolder
  <1>9. GuardHeld'
    BY <1>4, <1>5, <1>6 DEF IInv, LockInv, GuardHeld
  <1>10. RootHeld'
    BY <1>4, <1>5, <1>6 DEF IInv, LockInv, RootHeld
  <1>11. Opened'
    BY <1>4, <1>5 DEF IInv, LockInv, Opened
  <1> QED BY <1>7, <1>8, <1>9, <1>10, <1>11 DEF LockInv

-----------------------------------------------------------------------------
LEMMA InitInv == Init => IInv
  <1> SUFFICES ASSUME Init PROVE IInv
    OBVIOUS
  <1>1. PICK n \in Name : call = [p \in Process |-> NoCall(n)]
    BY DEF Init
  <1>2. TypeOK
    BY <1>1 DEF Init, TypeOK, NoCall, Steps
  <1>3. LockInv
    BY <1>1 DEF Init, LockInv, OneHolder, GuardHeld, RootHeld, Opened, NoCall
  <1> QED BY <1>2, <1>3 DEF IInv

LEMMA NextInv == IInv /\ [Next]_vars => IInv'
  <1> SUFFICES ASSUME IInv, [Next]_vars PROVE IInv'
    OBVIOUS
  <1> DEFINE Tree == /\ parentAt' \in [Name -> ParentDir \cup {Nowhere}]
                     /\ rootIn' \in [ParentDir -> RootDir \cup {Nowhere}]
                     /\ made' \subseteq ParentDir \cup RootDir
                     /\ moves' \in Nat
             Own == /\ call' \in [Process -> Calls] /\ holds' \in [Process -> SUBSET Locks]
                    /\ LockInv'
  <1>t. /\ parentAt \in [Name -> ParentDir \cup {Nowhere}]
        /\ rootIn \in [ParentDir -> RootDir \cup {Nowhere}]
        /\ made \subseteq ParentDir \cup RootDir
        /\ call \in [Process -> Calls]
        /\ holds \in [Process -> SUBSET Locks]
        /\ moves \in Nat
    BY DEF IInv, TypeOK, Calls
  <1>s. UNCHANGED <<tree, moves>> => Tree
    BY <1>t DEF tree
  <1>q. Tree /\ Own => IInv'
    BY DEF IInv, TypeOK, Calls
  <1>c. \A p \in Process : /\ call[p] \in Calls
                           /\ Parent(p) \in ParentDir \cup {Nowhere}
                           /\ Root(p) \in RootDir \cup {Nowhere}
    BY <1>t DEF Calls, Parent, Root
  <1>1. ASSUME NEW p \in Process, NEW n \in Name, Begin(p, n) PROVE IInv'
    <2> DEFINE c == [NoCall(n) EXCEPT !.at = "namespace"]
    <2>1. c \in Calls /\ c.at = "namespace"
      BY DEF Calls, NoCall, Steps
    <2>2. call' = [call EXCEPT ![p] = c] /\ UNCHANGED holds /\ UNCHANGED <<tree, moves>>
      BY <1>1 DEF Begin
    <2> HIDE DEF c
    <2>3. Own
      BY <2>1, <2>2, GoingOnKeeps
    <2> QED BY <2>2, <2>3, <1>s, <1>q
  <1>2. ASSUME NEW p \in Process, LockNamespace(p) PROVE IInv'
    <2>1. Outer(p) \in Locks /\ Outer(p) = NamespaceGuard(call[p].name)
      BY <1>c DEF Outer, Locks, Calls
    <2>2. /\ Flock(p, Outer(p)) /\ Go(p, "parent") /\ call[p].at = "namespace"
          /\ UNCHANGED <<tree, moves>>
      BY <1>2 DEF LockNamespace, At
    <2>3. Own
      BY <2>1, <2>2, LockingKeeps DEF Steps
    <2> QED BY <2>2, <2>3, <1>s, <1>q
  <1>3. ASSUME NEW p \in Process, LockPath(p) PROVE IInv'
    <2> DEFINE lock == PathGuard(call[p].guard)
    <2>1. /\ Flock(p, lock) /\ Go(p, "pin") /\ call[p].at = "path"
          /\ UNCHANGED <<tree, moves>>
      BY <1>3 DEF LockPath, At
    <2>2. lock \in Locks
      BY <1>c, <2>1 DEF Locks, Calls, IInv, LockInv, Opened
    <2> HIDE DEF lock
    <2>3. Own
      BY <2>1, <2>2, LockingKeeps DEF Steps
    <2> QED BY <2>1, <2>3, <1>s, <1>q
  <1>4. ASSUME NEW p \in Process, LockRoot(p) PROVE IInv'
    <2>1. /\ Flock(p, Inner(p)) /\ Go(p, "checkParent") /\ call[p].at = "lock"
          /\ UNCHANGED <<tree, moves>>
      BY <1>4 DEF LockRoot, At
    <2>2. Inner(p) \in Locks /\ Inner(p) = PublicationLock(call[p].root)
      BY <1>c, <2>1 DEF Inner, Locks, Calls, IInv, LockInv, Opened
    <2>3. Own
      BY <2>1, <2>2, LockingKeeps DEF Steps
    <2> QED BY <2>1, <2>3, <1>s, <1>q
  <1>5. ASSUME NEW p \in Process, PinParent(p) PROVE IInv'
    <2>1. CASE Parent(p) # Nowhere
      <3> DEFINE c == [call[p] EXCEPT !.at = "mkroot", !.parent = Parent(p)]
      <3>1. /\ call' = [call EXCEPT ![p] = c] /\ UNCHANGED holds
            /\ call[p].at = "parent" /\ UNCHANGED <<tree, moves>>
        BY <1>5, <2>1, <1>t DEF PinParent, At
      <3>2. c \in Calls /\ c.at = "mkroot" /\ c.name = call[p].name
        BY <1>c DEF Calls, Steps
      <3> HIDE DEF c
      <3>3. Own
        BY <3>1, <3>2, GoingOnKeeps
      <3> QED BY <3>1, <3>3, <1>s, <1>q
    <2>2. CASE Parent(p) = Nowhere /\ ParentDir \subseteq made
      <3>1. Release(p) /\ UNCHANGED <<tree, moves>>
        BY <1>5, <2>2 DEF PinParent
      <3> QED BY <3>1, ReleaseKeeps, <1>s, <1>q
    <2>3. CASE Parent(p) = Nowhere /\ ~(ParentDir \subseteq made)
      <3>1. PICK d \in ParentDir \ made :
               /\ parentAt' = [parentAt EXCEPT ![call[p].name] = d]
               /\ made' = made \cup {d}
               /\ call' = [call EXCEPT ![p].at = "mkroot", ![p].parent = d]
               /\ UNCHANGED <<rootIn, holds>>
        BY <1>5, <2>3 DEF PinParent
      <3> DEFINE c == [call[p] EXCEPT !.at = "mkroot", !.parent = d]
      <3>2. call' = [call EXCEPT ![p] = c] /\ call[p].at = "parent" /\ UNCHANGED moves
        BY <1>5, <3>1, <1>t DEF PinParent, At
      <3>3. c \in Calls /\ c.at = "mkroot" /\ c.name = call[p].name
        BY <1>c DEF Calls, Steps
      <3>4. Tree
        BY <3>1, <3>2, <1>t, <1>c DEF Calls
      <3> HIDE DEF c
      <3>5. Own
        BY <3>1, <3>2, <3>3, GoingOnKeeps
      <3> QED BY <3>4, <3>5, <1>q
    <2> QED BY <2>1, <2>2, <2>3
  <1>6. ASSUME NEW p \in Process, MakeRoot(p) PROVE IInv'
    <2>1. Tree
      <3>1. CASE UNCHANGED tree
        BY <3>1, <1>6, <1>s DEF MakeRoot
      <3>2. CASE Parent(p) # Nowhere /\ \E r \in RootDir \ made :
                     /\ rootIn' = [rootIn EXCEPT ![Parent(p)] = r]
                     /\ made' = made \cup {r}
                     /\ UNCHANGED parentAt
        BY <3>2, <1>6, <1>t, <1>c DEF MakeRoot
      <3> QED BY <1>6, <3>1, <3>2 DEF MakeRoot
    <2>2. CASE Go(p, "guard") /\ UNCHANGED holds
      <3> DEFINE c == [call[p] EXCEPT !.at = "guard"]
      <3>1. call' = [call EXCEPT ![p] = c] /\ UNCHANGED holds /\ call[p].at = "mkroot"
        BY <1>6, <2>2, <1>t DEF MakeRoot, At, Go
      <3>2. c \in Calls /\ c.at = "guard" /\ c.name = call[p].name
        BY <1>c DEF Calls, Steps
      <3> HIDE DEF c
      <3>3. Own
        BY <3>1, <3>2, GoingOnKeeps
      <3> QED BY <2>1, <3>3, <1>q
    <2>3. CASE Release(p)
      BY <2>1, <2>3, ReleaseKeeps, <1>q
    <2> QED BY <1>6, <2>2, <2>3 DEF MakeRoot
  <1>7. ASSUME NEW p \in Process, OpenGuard(p) PROVE IInv'
    <2>1. CASE Parent(p) = Nowhere
      <3>1. Release(p) /\ UNCHANGED <<tree, moves>>
        BY <1>7, <2>1 DEF OpenGuard
      <3> QED BY <3>1, ReleaseKeeps, <1>s, <1>q
    <2>2. CASE Parent(p) # Nowhere
      <3> DEFINE c == [call[p] EXCEPT !.at = "path", !.guard = Parent(p)]
      <3>1. /\ call' = [call EXCEPT ![p] = c] /\ UNCHANGED holds
            /\ call[p].at = "guard" /\ UNCHANGED <<tree, moves>>
        BY <1>7, <2>2, <1>t DEF OpenGuard, At
      <3>2. c \in Calls /\ c.at = "path" /\ c.name = call[p].name /\ c.guard # Nowhere
        BY <1>c, <2>2 DEF Calls, Steps
      <3> HIDE DEF c
      <3>3. Own
        BY <3>1, <3>2, GoingOnKeeps
      <3> QED BY <3>1, <3>3, <1>s, <1>q
    <2> QED BY <2>1, <2>2
  <1>8. ASSUME NEW p \in Process, PinRoot(p) PROVE IInv'
    <2>1. CASE Root(p) = Nowhere
      <3>1. Release(p) /\ UNCHANGED <<tree, moves>>
        BY <1>8, <2>1 DEF PinRoot
      <3> QED BY <3>1, ReleaseKeeps, <1>s, <1>q
    <2>2. CASE Root(p) # Nowhere
      <3> DEFINE c == [call[p] EXCEPT !.at = "lock", !.root = Root(p)]
      <3>1. /\ call' = [call EXCEPT ![p] = c] /\ UNCHANGED holds
            /\ call[p].at = "pin" /\ UNCHANGED <<tree, moves>>
        BY <1>8, <2>2, <1>t DEF PinRoot, At
      <3>2. c \in Calls /\ c.at = "lock" /\ c.name = call[p].name /\ c.root # Nowhere
        BY <1>c, <2>2 DEF Calls, Steps
      <3> HIDE DEF c
      <3>3. Own
        BY <3>1, <3>2, GoingOnKeeps
      <3> QED BY <3>1, <3>3, <1>s, <1>q
    <2> QED BY <2>1, <2>2
  <1>9. ASSUME NEW p \in Process, CheckParent(p) \/ CheckRoot(p) PROVE IInv'
    <2>1. UNCHANGED <<tree, moves>>
      BY <1>9 DEF CheckParent, CheckRoot
    <2>2. CASE Release(p)
      BY <2>1, <2>2, ReleaseKeeps, <1>s, <1>q
    <2>3. ASSUME NEW step \in {"checkRoot", "inside"}, Go(p, step), UNCHANGED holds
          PROVE IInv'
      <3> DEFINE c == [call[p] EXCEPT !.at = step]
      <3>1. call' = [call EXCEPT ![p] = c] /\ call[p].at \in {"checkParent", "checkRoot"}
        BY <1>9, <2>3, <1>t DEF CheckParent, CheckRoot, At, Go
      <3>2. /\ c \in Calls /\ c.at = step
            /\ c.name = call[p].name /\ c.root = call[p].root
        BY <1>c DEF Calls, Steps
      <3> HIDE DEF c
      <3>3. Own
        BY <2>3, <3>1, <3>2, GoingOnKeeps
      <3> QED BY <2>1, <3>3, <1>s, <1>q
    <2> QED BY <1>9, <2>2, <2>3 DEF CheckParent, CheckRoot
  <1>10. ASSUME NEW p \in Process, End(p) PROVE IInv'
    <2>1. Release(p) /\ UNCHANGED <<tree, moves>>
      BY <1>10 DEF End
    <2> QED BY <2>1, ReleaseKeeps, <1>s, <1>q
  <1>11. CASE Move
    <2>1. Tree
      BY <1>11, <1>t DEF Move
    <2>2. UNCHANGED <<call, holds>>
      BY <1>11 DEF Move
    <2>3. Own
      BY <2>2, <1>t DEF IInv, LockInv, OneHolder, GuardHeld, RootHeld, Opened
    <2> QED BY <2>1, <2>3, <1>q
  <1>12. CASE UNCHANGED vars
    BY <1>12 DEF vars, IInv, TypeOK, LockInv, OneHolder, GuardHeld, RootHeld, Opened
  <1> QED
    BY <1>1, <1>2, <1>3, <1>4, <1>5, <1>6, <1>7, <1>8, <1>9, <1>10, <1>11, <1>12
       DEF Next, Step

-----------------------------------------------------------------------------
\* Who is past its checks has the namespace guard of its path and the
\* publication lock of its root: exclusive_recovery_lock's two promises hold
\* because each of them has one holder.
LEMMA Exclusion == IInv => OnePerPath /\ OnePerRoot
  <1> SUFFICES ASSUME IInv, NEW p \in Process, NEW q \in Process,
                      p # q, Inside(p), Inside(q)
               PROVE  call[p].name # call[q].name /\ call[p].root # call[q].root
    BY DEF OnePerPath, OnePerRoot
  <1>1. /\ NamespaceGuard(call[p].name) \in holds[p]
        /\ NamespaceGuard(call[q].name) \in holds[q]
    BY DEF IInv, LockInv, GuardHeld, Inside, At
  <1>2. /\ PublicationLock(call[p].root) \in holds[p]
        /\ PublicationLock(call[q].root) \in holds[q]
    BY DEF IInv, LockInv, RootHeld, Inside, At
  <1>3. holds[p] \cap holds[q] = {}
    BY DEF IInv, LockInv, OneHolder
  <1> QED BY <1>1, <1>2, <1>3

\* No sequence of calls, crashes and moves leaves the invariant.
THEOREM Invariant == Spec => []IInv
  <1> QED BY InitInv, NextInv, PTL DEF Spec

\* Calls, locks and directories stay what their types say: in particular
\* nothing is ever locked that was not opened.
THEOREM TypeCorrect == Spec => []TypeOK
  <1>1. IInv => TypeOK
    BY DEF IInv
  <1> QED BY <1>1, Invariant, PTL

\* Two processes are never in the critical section of exclusive_recovery_lock
\* for one path, whatever directories were exchanged under them.
THEOREM PathExclusion == Spec => []OnePerPath
  <1> QED BY Exclusion, Invariant, PTL

\* Nor for one recovery root that they reached by different paths.
THEOREM RootExclusion == Spec => []OnePerRoot
  <1> QED BY Exclusion, Invariant, PTL
=============================================================================
