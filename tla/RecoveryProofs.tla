--------------------------- MODULE RecoveryProofs ---------------------------
(***************************************************************************)
(* The pointer of the recovery store always selects a whole generation,    *)
(* and the store implements LastKnownGood, for every set of contents and   *)
(* manifests, every bound on generation numbers and any number of deaths.  *)
(*                                                                         *)
(* CurrentResolves alone is not inductive.  That the pointer may move to   *)
(* what the holder of the lock has built rests on what each step of a      *)
(* publication has already put on disk (PublishInv); that a cleanup leaves *)
(* the current generation alone rests on what it has doomed (CleanInv) and *)
(* on every whole generation having its object (RetainedRestorable).       *)
(***************************************************************************)
EXTENDS Recovery, TLAPS

PublishInv ==
    /\ holder.at \in Publishes => holder.ref \in Reference
    /\ holder.at \in {"object", "clone"} =>
          \A m \in DOMAIN generations : m < holder.ref.generation
    /\ holder.at \in {"clone", "sidecar", "pointer"} =>
          Has(objects, holder.ref.id, holder.ref)
    /\ holder.at \in {"sidecar", "pointer"} =>
          /\ Has(generations, holder.ref.generation, holder.ref)
          /\ \A p \in pointer : p.generation < holder.ref.generation
    /\ holder.at = "pointer" /\ holder.ref.sidecar =>
          Has(sidecars, holder.ref.generation, holder.ref)

CleanInv ==
    /\ holder.at \in {"generation", "pair"} =>
          /\ holder.doomed \subseteq Generation
          /\ \A p \in pointer : p.generation \notin holder.doomed
    /\ holder.at = "generation" => holder.doomed \subseteq DOMAIN generations
    /\ holder.at = "pair" =>
          \A n \in holder.doomed : n \in DOMAIN generations \/ First(n)

IInv == TypeOK /\ CurrentResolves /\ RetainedRestorable /\ PublishInv /\ CleanInv

-----------------------------------------------------------------------------
\* Tearing a directory keeps its content and every other one.
LEMMA TornKeeps ==
    ASSUME NEW dirs, NEW n \in DOMAIN dirs, dirs[n] \in Directory
    PROVE  /\ DOMAIN Torn(dirs, n) = DOMAIN dirs
           /\ Torn(dirs, n)[n] \in Directory
           /\ Torn(dirs, n)[n].id = dirs[n].id
           /\ ~Torn(dirs, n)[n].whole
           /\ \A m \in DOMAIN dirs \ {n} : Torn(dirs, n)[m] = dirs[m]
BY DEF Torn, Directory

-----------------------------------------------------------------------------
LEMMA InitInv == Init => IInv
<1> SUFFICES ASSUME Init PROVE IInv
    OBVIOUS
<1>1. DOMAIN Empty = {}
    BY DEF Empty
<1>2. TypeOK
    BY <1>1 DEF Init, TypeOK, DiskType, HolderType
<1>3. holder.at = "free"
    BY DEF Init, Free
<1>4. PublishInv /\ CleanInv
    BY <1>3 DEF PublishInv, CleanInv, Publishes
<1>5. CurrentResolves /\ RetainedRestorable
    BY <1>1 DEF Init, CurrentResolves, RetainedRestorable
<1> QED
    BY <1>2, <1>4, <1>5 DEF IInv

\* A step that leaves the disk alone keeps what is said of the disk.
LEMMA DiskUnchanged ==
    ASSUME IInv, UNCHANGED <<pointer, objects, generations, sidecars>>
    PROVE  CurrentResolves' /\ RetainedRestorable'
BY DEF IInv, CurrentResolves, RetainedRestorable, Resolves, Has

\* What the holder record says of itself, by construction.
LEMMA Holders ==
    /\ Free.at = "free"
    /\ \A at, ref : Publishing(at, ref).at = at /\ Publishing(at, ref).ref = ref
    /\ \A at, doomed : Cleaning(at, doomed).at = at /\ Cleaning(at, doomed).doomed = doomed
BY DEF Free, Publishing, Cleaning

\* Releasing the lock leaves nothing to prove of the holder.
LEMMA Released ==
    ASSUME holder' = Free
    PROVE  HolderType' /\ PublishInv' /\ CleanInv'
BY DEF HolderType, PublishInv, CleanInv, Publishes, Free

LEMMA WholeType ==
    ASSUME NEW p \in Reference
    PROVE  /\ Whole(p) \in Directory /\ Whole(p).id = p.id /\ Whole(p).stamp = p.stamp
           /\ Whole(p).whole /\ Whole(Whole(p)) = Whole(p)
BY DEF Whole, Reference, Directory

-----------------------------------------------------------------------------
\* One lemma per operation: each of its steps preserves the invariant.

LEMMA BeginPublishStep ==
    ASSUME IInv, NEW c \in Checkpoint, NEW sidecar \in BOOLEAN, BeginPublish(c, sidecar)
    PROVE  IInv'
<1>1. PICK n \in Generation :
         /\ NextNumber(n)
         /\ holder' = Publishing("object",
               [generation |-> n, id |-> c.id, stamp |-> c.stamp, sidecar |-> sidecar])
    BY DEF BeginPublish
<1>2. /\ holder'.at = "object" /\ holder'.ref \in Reference
      /\ holder'.ref.generation = n
      /\ holder' = Publishing(holder'.at, holder'.ref)
    BY <1>1, Holders DEF Checkpoint, Reference
<1>3. \A m \in DOMAIN generations : m < n
    BY <1>1 DEF NextNumber
<1>4. UNCHANGED <<disk, faults>>
    BY DEF BeginPublish
<1>5. TypeOK'
    BY <1>2, <1>4 DEF IInv, TypeOK, DiskType, HolderType, Publishes, disk
<1>6. PublishInv' /\ CleanInv'
    BY <1>2, <1>3, <1>4 DEF PublishInv, CleanInv, disk
<1> QED
    BY <1>4, <1>5, <1>6, DiskUnchanged DEF IInv, disk

LEMMA PublishObjectStep ==
    ASSUME IInv, PublishObject
    PROVE  IInv'
<1> DEFINE ref == Canonical(holder.ref)
<1>1. holder.at = "object" /\ holder.ref \in Reference
    BY DEF PublishObject, IInv, PublishInv, Publishes
<1>2. ref \in Reference /\ ref.id = holder.ref.id /\ ref.generation = holder.ref.generation
    BY <1>1 DEF IInv, TypeOK, DiskType, Canonical, Reference, Directory
<1>3. \A m \in DOMAIN generations : m < ref.generation
    BY <1>1, <1>2 DEF IInv, PublishInv
<1>4. UNCHANGED <<pointer, generations, sidecars, litter, faults>>
    BY DEF PublishObject
<1>5. CASE ref.id \in DOMAIN objects /\ ~objects[ref.id].whole
    <2>1. holder' = Free /\ UNCHANGED objects
        BY <1>5 DEF PublishObject
    <2> QED
        BY <2>1, <1>4, DiskUnchanged, Released DEF IInv, TypeOK, DiskType
<1>6. CASE ref.id \in DOMAIN objects /\ objects[ref.id].whole
    <2>1. holder' = Publishing("clone", ref) /\ UNCHANGED objects
        BY <1>6 DEF PublishObject
    <2>2. objects[ref.id] = Whole(ref)
        BY <1>1, <1>2, <1>6 DEF IInv, TypeOK, DiskType, Canonical, Whole, Directory, Reference
    <2>3. holder'.at = "clone" /\ holder'.ref = ref
        BY <2>1, Holders
    <2>4. TypeOK'
        BY <2>1, <2>3, <1>2, <1>4 DEF IInv, TypeOK, DiskType, HolderType, Publishes
    <2>5. PublishInv' /\ CleanInv'
        BY <2>1, <2>2, <2>3, <1>2, <1>3, <1>4, <1>6 DEF PublishInv, CleanInv, Has
    <2> QED
        BY <2>1, <2>4, <2>5, <1>4, DiskUnchanged DEF IInv
<1>7. CASE ref.id \notin DOMAIN objects
    <2>1. objects' = Plus(objects, ref.id, Whole(ref)) /\ holder' = Publishing("clone", ref)
        BY <1>7 DEF PublishObject
    <2>2. holder'.at = "clone" /\ holder'.ref = ref
        BY <2>1, Holders
    <2>3. /\ DOMAIN objects' = DOMAIN objects \cup {ref.id}
          /\ objects'[ref.id] = Whole(ref)
          /\ \A c \in DOMAIN objects : objects'[c] = objects[c]
        BY <2>1, <1>7 DEF Plus
    <2>4. DiskType'
        BY <2>3, <1>2, <1>4, WholeType DEF IInv, TypeOK, DiskType, Reference
    <2>5. TypeOK'
        BY <2>1, <2>2, <2>4, <1>2, <1>4 DEF IInv, TypeOK, HolderType, Publishes
    <2>6. PublishInv' /\ CleanInv'
        BY <2>2, <2>3, <1>2, <1>3, <1>4 DEF PublishInv, CleanInv, Has
    <2>7. CurrentResolves'
        BY <2>3, <1>4 DEF IInv, CurrentResolves, Resolves, Has
    <2>8. RetainedRestorable'
        BY <2>3, <1>4 DEF IInv, RetainedRestorable, Has
    <2> QED
        BY <2>5, <2>6, <2>7, <2>8 DEF IInv
<1> QED
    BY <1>5, <1>6, <1>7

LEMMA CloneStep ==
    ASSUME IInv, Clone
    PROVE  IInv'
<1> DEFINE ref == holder.ref
<1>1. /\ holder.at = "clone" /\ ref \in Reference /\ Has(objects, ref.id, ref)
      /\ \A m \in DOMAIN generations : m < ref.generation
    BY DEF Clone, IInv, PublishInv, Publishes
<1>2. ref.generation \in Nat /\ ref.generation \in Generation
    BY <1>1 DEF Reference, Generation
<1>3. ref.generation \notin DOMAIN generations
    BY <1>1, <1>2
<1>4. /\ generations' = Plus(generations, ref.generation, Whole(ref))
      /\ holder' = Publishing(IF ref.sidecar THEN "sidecar" ELSE "pointer", ref)
      /\ UNCHANGED <<pointer, objects, sidecars, litter, faults>>
    BY <1>3 DEF Clone
<1>5. /\ DOMAIN generations' = DOMAIN generations \cup {ref.generation}
      /\ generations'[ref.generation] = Whole(ref)
      /\ \A m \in DOMAIN generations : generations'[m] = generations[m]
    BY <1>3, <1>4 DEF Plus
<1>6. /\ holder'.at = IF ref.sidecar THEN "sidecar" ELSE "pointer"
      /\ holder'.ref = ref
    BY <1>4, Holders
<1>7. DiskType'
    BY <1>1, <1>2, <1>4, <1>5, WholeType DEF IInv, TypeOK, DiskType
<1>8. TypeOK'
    BY <1>1, <1>4, <1>6, <1>7 DEF IInv, TypeOK, HolderType, Publishes
<1>9. CurrentResolves'
    BY <1>4, <1>5 DEF IInv, CurrentResolves, Resolves, Has
<1>10. RetainedRestorable'
    BY <1>1, <1>4, <1>5, WholeType DEF IInv, RetainedRestorable, Has
<1>11. \A p \in pointer : p.generation < ref.generation
    BY <1>1 DEF IInv, CurrentResolves, Resolves, Has
<1>12. PublishInv' /\ CleanInv'
    BY <1>1, <1>4, <1>5, <1>6, <1>11 DEF PublishInv, CleanInv, Has
<1> QED
    BY <1>8, <1>9, <1>10, <1>12 DEF IInv

LEMMA PublishSidecarStep ==
    ASSUME IInv, PublishSidecar
    PROVE  IInv'
<1> DEFINE ref == holder.ref
<1>1. /\ holder.at = "sidecar" /\ ref \in Reference
      /\ Has(objects, ref.id, ref) /\ Has(generations, ref.generation, ref)
      /\ \A p \in pointer : p.generation < ref.generation
    BY DEF PublishSidecar, IInv, PublishInv, Publishes
<1>2. UNCHANGED <<pointer, objects, generations, litter, faults>>
    BY DEF PublishSidecar
<1>3. CASE ~Unused(ref.generation)
    <2>1. holder' = Free /\ UNCHANGED sidecars
        BY <1>3 DEF PublishSidecar, Release
    <2> QED
        BY <2>1, <1>2, DiskUnchanged, Released DEF IInv, TypeOK, DiskType
<1>4. CASE Unused(ref.generation)
    <2>1. /\ sidecars' = Plus(sidecars, ref.generation, Whole(ref))
          /\ holder' = Publishing("pointer", ref)
        BY <1>4 DEF PublishSidecar
    <2>2. /\ DOMAIN sidecars' = DOMAIN sidecars \cup {ref.generation}
          /\ sidecars'[ref.generation] = Whole(ref)
          /\ \A m \in DOMAIN sidecars : sidecars'[m] = sidecars[m]
        BY <2>1, <1>4 DEF Unused, Plus
    <2>3. holder'.at = "pointer" /\ holder'.ref = ref
        BY <2>1, Holders
    <2>4. DiskType'
        BY <2>2, <1>1, <1>2, WholeType DEF IInv, TypeOK, DiskType, Reference
    <2>5. TypeOK'
        BY <2>1, <2>3, <2>4, <1>1, <1>2 DEF IInv, TypeOK, HolderType, Publishes
    <2>6. CurrentResolves'
        BY <2>2, <1>2 DEF IInv, CurrentResolves, Resolves, Has
    <2>7. RetainedRestorable'
        BY <1>2 DEF IInv, RetainedRestorable, Has
    <2>8. PublishInv' /\ CleanInv'
        BY <2>2, <2>3, <1>1, <1>2 DEF PublishInv, CleanInv, Has
    <2> QED
        BY <2>5, <2>6, <2>7, <2>8 DEF IInv
<1> QED
    BY <1>3, <1>4

LEMMA MovePointerStep ==
    ASSUME IInv, MovePointer
    PROVE  IInv'
<1> DEFINE ref == holder.ref
<1>1. ref \in Reference /\ Resolves(ref)
    BY DEF MovePointer, IInv, PublishInv, Publishes, Resolves
<1>2. pointer' = {ref} /\ holder' = Free /\ UNCHANGED <<objects, generations, sidecars, litter, faults>>
    BY DEF MovePointer, Release
<1>3. DiskType'
    BY <1>1, <1>2 DEF IInv, TypeOK, DiskType
<1>4. TypeOK'
    BY <1>2, <1>3, Released DEF IInv, TypeOK
<1>5. CurrentResolves' /\ RetainedRestorable'
    BY <1>1, <1>2 DEF IInv, CurrentResolves, RetainedRestorable, Resolves, Has
<1> QED
    BY <1>2, <1>4, <1>5, Released DEF IInv

LEMMA BeginCleanupStep ==
    ASSUME IInv, NEW keep \in Keep, BeginCleanup(keep)
    PROVE  IInv'
<1> DEFINE doomed == Doomed(keep)
<1>1. /\ doomed \subseteq DOMAIN generations
      /\ \A p \in pointer : p.generation \notin doomed
    BY DEF Doomed
<1>2. doomed \subseteq Generation
    BY <1>1 DEF IInv, TypeOK, DiskType
<1> HIDE DEF doomed
<1>3. /\ holder'.at \in {"generation", "orphans"} /\ holder'.doomed = doomed
      /\ holder' = Cleaning(holder'.at, holder'.doomed)
      /\ UNCHANGED <<pointer, objects, generations, sidecars, litter, faults>>
    BY Holders DEF BeginCleanup, Doom, disk, doomed
<1>4. TypeOK'
    BY <1>2, <1>3 DEF IInv, TypeOK, DiskType, HolderType, Cleans
<1>5. PublishInv' /\ CleanInv'
    BY <1>1, <1>2, <1>3 DEF PublishInv, CleanInv, Publishes
<1> QED
    BY <1>3, <1>4, <1>5, DiskUnchanged DEF IInv

LEMMA RemoveGenerationStep ==
    ASSUME IInv, NEW n \in Generation, RemoveGeneration(n)
    PROVE  IInv'
<1>1. /\ holder.at = "generation" /\ First(n) /\ n \in holder.doomed
      /\ holder.doomed \subseteq DOMAIN generations /\ holder.doomed \subseteq Generation
      /\ \A p \in pointer : p.generation \notin holder.doomed
    BY DEF RemoveGeneration, First, IInv, CleanInv
<1>2. n \in DOMAIN generations /\ generations[n] \in Directory
    BY <1>1 DEF IInv, TypeOK, DiskType
<1>3. UNCHANGED <<pointer, objects, sidecars, litter, faults>>
    BY DEF RemoveGeneration
<1>4. CASE generations[n].whole
    <2>1. generations' = Torn(generations, n) /\ UNCHANGED holder
        BY <1>4 DEF RemoveGeneration
    <2>2. /\ DOMAIN generations' = DOMAIN generations
          /\ generations'[n] \in Directory /\ ~generations'[n].whole
          /\ \A m \in DOMAIN generations \ {n} : generations'[m] = generations[m]
        BY <2>1, <1>2, TornKeeps
    <2>3. TypeOK'
        BY <2>1, <2>2, <1>3 DEF IInv, TypeOK, DiskType, HolderType
    <2>4. CurrentResolves'
        BY <2>2, <1>1, <1>3 DEF IInv, CurrentResolves, Resolves, Has
    <2>5. RetainedRestorable'
        BY <2>2, <1>3 DEF IInv, RetainedRestorable, Has
    <2>6. PublishInv' /\ CleanInv'
        BY <2>1, <2>2, <1>1, <1>3 DEF IInv, PublishInv, CleanInv, Publishes
    <2> QED
        BY <2>3, <2>4, <2>5, <2>6 DEF IInv
<1>5. CASE ~generations[n].whole
    <2>1. /\ generations' = Minus(generations, n)
          /\ holder' = Cleaning("pair", holder.doomed)
        BY <1>5 DEF RemoveGeneration
    <2>2. /\ DOMAIN generations' = DOMAIN generations \ {n}
          /\ \A m \in DOMAIN generations \ {n} : generations'[m] = generations[m]
        BY <2>1 DEF Minus
    <2>3. holder'.at = "pair" /\ holder'.doomed = holder.doomed
        BY <2>1, Holders
    <2>4. TypeOK'
        BY <2>1, <2>2, <2>3, <1>1, <1>3 DEF IInv, TypeOK, DiskType, HolderType, Cleans
    <2>5. CurrentResolves'
        BY <2>2, <1>1, <1>3 DEF IInv, CurrentResolves, Resolves, Has
    <2>6. RetainedRestorable'
        BY <2>2, <1>3 DEF IInv, RetainedRestorable, Has
    <2>7. \A m \in holder'.doomed : m \in DOMAIN generations' \/ First(m)'
        BY <2>2, <2>3, <1>1 DEF First
    <2>8. PublishInv' /\ CleanInv'
        BY <2>3, <2>7, <1>1, <1>3 DEF PublishInv, CleanInv, Publishes
    <2> QED
        BY <2>4, <2>5, <2>6, <2>8 DEF IInv
<1> QED
    BY <1>4, <1>5

LEMMA RemovePairStep ==
    ASSUME IInv, NEW n \in Generation, RemovePair(n)
    PROVE  IInv'
<1>1. /\ holder.at = "pair" /\ First(n) /\ n \in holder.doomed
      /\ holder.doomed \subseteq Generation
      /\ \A m \in holder.doomed : m \in DOMAIN generations \/ First(m)
      /\ \A p \in pointer : p.generation \notin holder.doomed
    BY DEF RemovePair, First, IInv, CleanInv
<1>2. UNCHANGED <<pointer, objects, generations, litter, faults>>
    BY DEF RemovePair
<1>3. RetainedRestorable'
    BY <1>2 DEF IInv, RetainedRestorable, Has
<1>4. CASE n \in DOMAIN sidecars /\ sidecars[n].whole
    <2>1. sidecars' = Torn(sidecars, n) /\ UNCHANGED holder
        BY <1>4 DEF RemovePair
    <2>0. sidecars[n] \in Directory
        BY <1>4 DEF IInv, TypeOK, DiskType
    <2>2. /\ DOMAIN sidecars' = DOMAIN sidecars /\ sidecars'[n] \in Directory
          /\ \A m \in DOMAIN sidecars \ {n} : sidecars'[m] = sidecars[m]
        BY <2>1, <2>0, <1>4, TornKeeps
    <2>3. TypeOK'
        BY <2>1, <2>2, <1>2 DEF IInv, TypeOK, DiskType, HolderType
    <2>4. CurrentResolves'
        BY <2>2, <1>1, <1>2 DEF IInv, CurrentResolves, Resolves, Has
    <2>5. PublishInv' /\ CleanInv'
        BY <2>1, <1>1, <1>2 DEF IInv, PublishInv, CleanInv, Publishes, First
    <2> QED
        BY <2>3, <2>4, <2>5, <1>3 DEF IInv
<1>5. CASE ~(n \in DOMAIN sidecars /\ sidecars[n].whole)
    <2>1. sidecars' = Minus(sidecars, n) /\ holder' = Doom(holder.doomed \ {n})
        BY <1>5 DEF RemovePair
    <2>2. /\ DOMAIN sidecars' = DOMAIN sidecars \ {n}
          /\ \A m \in DOMAIN sidecars \ {n} : sidecars'[m] = sidecars[m]
        BY <2>1 DEF Minus
    <2>3. /\ holder'.at \in {"generation", "orphans"} /\ holder'.doomed = holder.doomed \ {n}
          /\ holder' = Cleaning(holder'.at, holder'.doomed)
        BY <2>1, Holders DEF Doom
    <2>4. holder'.doomed \subseteq DOMAIN generations
        BY <2>3, <1>1 DEF First, Generation
    <2>5. TypeOK'
        BY <2>2, <2>3, <1>1, <1>2 DEF IInv, TypeOK, DiskType, HolderType, Cleans
    <2>6. CurrentResolves'
        BY <2>2, <1>1, <1>2 DEF IInv, CurrentResolves, Resolves, Has
    <2>7. PublishInv' /\ CleanInv'
        BY <2>3, <2>4, <1>1, <1>2 DEF PublishInv, CleanInv, Publishes
    <2> QED
        BY <2>5, <2>6, <2>7, <1>3 DEF IInv
<1> QED
    BY <1>4, <1>5

LEMMA RemoveOrphanStep ==
    ASSUME IInv, NEW n \in Generation, RemoveOrphan(n)
    PROVE  IInv'
<1>1. /\ holder.at = "orphans" /\ n \in DOMAIN sidecars /\ n \notin DOMAIN generations
      /\ UNCHANGED <<pointer, objects, generations, litter, holder, faults>>
    BY DEF RemoveOrphan
<1>2. sidecars' = Torn(sidecars, n) \/ sidecars' = Minus(sidecars, n)
    BY DEF RemoveOrphan
<1>3. /\ DOMAIN sidecars' \subseteq DOMAIN sidecars
      /\ \A m \in DOMAIN sidecars' : sidecars'[m] \in Directory
      /\ \A m \in DOMAIN sidecars \ {n} : m \in DOMAIN sidecars' /\ sidecars'[m] = sidecars[m]
    <2>1. \A m \in DOMAIN sidecars : sidecars[m] \in Directory
        BY DEF IInv, TypeOK, DiskType
    <2>2. CASE sidecars' = Torn(sidecars, n)
        BY <2>1, <2>2, <1>1, TornKeeps
    <2>3. CASE sidecars' = Minus(sidecars, n)
        BY <2>1, <2>3, <1>1 DEF Minus
    <2> QED
        BY <1>2, <2>2, <2>3
<1>4. TypeOK'
    BY <1>1, <1>3 DEF IInv, TypeOK, DiskType, HolderType
<1>5. CurrentResolves' /\ RetainedRestorable'
    BY <1>1, <1>3 DEF IInv, CurrentResolves, RetainedRestorable, Resolves, Has
<1>6. PublishInv' /\ CleanInv'
    BY <1>1 DEF IInv, PublishInv, CleanInv, Publishes
<1> QED
    BY <1>4, <1>5, <1>6 DEF IInv

LEMMA RemoveObjectStep ==
    ASSUME IInv, NEW c \in Content, RemoveObject(c)
    PROVE  IInv'
<1>1. /\ holder.at = "objects" /\ c \in DOMAIN objects /\ c \notin Retained
      /\ UNCHANGED <<pointer, generations, sidecars, litter, holder, faults>>
    BY DEF RemoveObject
<1>2. objects' = Torn(objects, c) \/ objects' = Minus(objects, c)
    BY DEF RemoveObject
<1>3. /\ DOMAIN objects' \subseteq DOMAIN objects
      /\ \A m \in DOMAIN objects' : objects'[m] \in Directory /\ objects'[m].id = m
      /\ \A m \in DOMAIN objects \ {c} : m \in DOMAIN objects' /\ objects'[m] = objects[m]
    <2>1. \A m \in DOMAIN objects : objects[m] \in Directory /\ objects[m].id = m
        BY DEF IInv, TypeOK, DiskType
    <2>2. CASE objects' = Torn(objects, c)
        BY <2>1, <2>2, <1>1, TornKeeps
    <2>3. CASE objects' = Minus(objects, c)
        BY <2>1, <2>3, <1>1 DEF Minus
    <2> QED
        BY <1>2, <2>2, <2>3
<1>4. TypeOK'
    BY <1>1, <1>3 DEF IInv, TypeOK, DiskType, HolderType
<1>5. RetainedRestorable'
    BY <1>1, <1>3 DEF IInv, RetainedRestorable, Retained, Has
<1>6. \A p \in pointer : p.id \in Retained
    <2> SUFFICES ASSUME NEW p \in pointer PROVE p.id \in Retained
        OBVIOUS
    <2>1. p.generation \in DOMAIN generations /\ generations[p.generation] = Whole(p)
        BY DEF IInv, CurrentResolves, Resolves, Has
    <2> QED
        BY <2>1 DEF Retained, Whole
<1>7. CurrentResolves'
    BY <1>1, <1>3, <1>6 DEF IInv, CurrentResolves, Resolves, Has
<1>8. PublishInv' /\ CleanInv'
    BY <1>1 DEF IInv, PublishInv, CleanInv, Publishes
<1> QED
    BY <1>4, <1>5, <1>7, <1>8 DEF IInv

\* The steps that read, release the lock or die change nothing that matters.
LEMMA ReleaseStep ==
    ASSUME IInv, RefuseLitter \/ VerifyRetained \/ EndCleanup \/ Stop
    PROVE  IInv'
<1>1. /\ UNCHANGED <<pointer, objects, generations, sidecars>>
      /\ litter' \subseteq {"checkpoint", "clone", "sidecar", "temp"} /\ faults' \in Nat
    <2>1. litter \subseteq {"checkpoint", "clone", "sidecar", "temp"} /\ faults \in Nat
        BY DEF IInv, TypeOK
    <2>2. CASE RefuseLitter \/ VerifyRetained \/ EndCleanup
        BY <2>1, <2>2 DEF RefuseLitter, VerifyRetained, EndCleanup, disk
    <2>3. CASE Stop
        <3>1. UNCHANGED <<pointer, objects, generations, sidecars>> /\ faults' = faults + 1
            BY <2>3 DEF Stop
        <3>2. UNCHANGED litter \/ \E place \in Staged : litter' = litter \cup {place}
            BY <2>3, Zenon DEF Stop
        <3>3. Staged \subseteq {"checkpoint", "clone", "sidecar", "temp"}
            BY DEF Staged
        <3>4. litter' \subseteq {"checkpoint", "clone", "sidecar", "temp"}
            BY <2>1, <3>2, <3>3
        <3> QED
            BY <2>1, <3>1, <3>4
    <2> QED
        BY <2>2, <2>3
<1>2. holder' = Free \/ holder' = Cleaning("objects", {})
    BY DEF RefuseLitter, VerifyRetained, EndCleanup, Stop, Release
<1>3. HolderType' /\ PublishInv' /\ CleanInv'
    <2>1. CASE holder' = Free
        BY <2>1, Released
    <2>2. CASE holder' = Cleaning("objects", {})
        BY <2>2, Holders DEF HolderType, PublishInv, CleanInv, Publishes, Cleans
    <2> QED
        BY <1>2, <2>1, <2>2
<1>4. TypeOK'
    BY <1>1, <1>3 DEF IInv, TypeOK, DiskType
<1> QED
    BY <1>1, <1>3, <1>4, DiskUnchanged DEF IInv

LEMMA StepInv == IInv /\ [Next]_vars => IInv'
<1> SUFFICES ASSUME IInv, [Next]_vars PROVE IInv'
    OBVIOUS
<1>1. CASE UNCHANGED vars
    <2>1. UNCHANGED <<pointer, objects, generations, sidecars, litter, holder, faults>>
        BY <1>1 DEF vars
    <2>2. TypeOK' /\ PublishInv' /\ CleanInv'
        BY <2>1 DEF IInv, TypeOK, DiskType, HolderType, PublishInv, CleanInv, First, Has
    <2> QED
        BY <2>1, <2>2, DiskUnchanged DEF IInv
<1>2. CASE \E c \in Checkpoint, sidecar \in BOOLEAN : BeginPublish(c, sidecar)
    BY <1>2, BeginPublishStep
<1>3. CASE \E keep \in Keep : BeginCleanup(keep)
    BY <1>3, BeginCleanupStep
<1>4. CASE PublishObject \/ Clone \/ PublishSidecar \/ MovePointer
    BY <1>4, PublishObjectStep, CloneStep, PublishSidecarStep, MovePointerStep
<1>5. CASE \E n \in Generation : RemoveGeneration(n) \/ RemovePair(n) \/ RemoveOrphan(n)
    BY <1>5, RemoveGenerationStep, RemovePairStep, RemoveOrphanStep
<1>6. CASE \E c \in Content : RemoveObject(c)
    BY <1>6, RemoveObjectStep
<1>7. CASE RefuseLitter \/ VerifyRetained \/ EndCleanup \/ Stop
    BY <1>7, ReleaseStep
<1> QED
    BY <1>1, <1>2, <1>3, <1>4, <1>5, <1>6, <1>7 DEF Next, Continue

\* The strengthened invariant holds of every behaviour.
THEOREM Invariant == Spec => []IInv
<1> QED
    BY InitInv, StepInv, PTL DEF Spec

\* The state stays well typed.
THEOREM TypeCorrect == Spec => []TypeOK
<1>1. IInv => TypeOK
    BY DEF IInv
<1> QED
    BY <1>1, Invariant, PTL

\* The pointer on disk selects a restorable generation at every moment.
THEOREM CurrentAlwaysResolves == Spec => []CurrentResolves
<1>1. IInv => CurrentResolves
    BY DEF IInv
<1> QED
    BY <1>1, Invariant, PTL

\* Every generation a cleanup has spared keeps its content object.
THEOREM RetainedStayRestorable == Spec => []RetainedRestorable
<1>1. IInv => RetainedRestorable
    BY DEF IInv
<1> QED
    BY <1>1, Invariant, PTL

-----------------------------------------------------------------------------
\* The refinement: which steps a reader of the store can tell apart.

\* A step that leaves the pointer and the generations alone is a stutter.
LEMMA Invisible ==
    ASSUME UNCHANGED <<pointer, generations>>
    PROVE  UNCHANGED <<KeptNow, CurrentNow>>
BY DEF KeptNow, CurrentNow, AsKept

\* The clone is a new generation above every one that is kept.
LEMMA CloneKeeps ==
    ASSUME IInv, Clone
    PROVE  [Promise!Next]_<<KeptNow, CurrentNow>>
<1> DEFINE ref == holder.ref
           g == Selected(ref)
<1>1. /\ ref \in Reference /\ ref.generation \notin DOMAIN generations
      /\ \A m \in DOMAIN generations : m < ref.generation
    BY DEF Clone, IInv, PublishInv, Publishes, Reference, Generation
<1>2. generations' = Plus(generations, ref.generation, Whole(ref)) /\ UNCHANGED pointer
    BY <1>1 DEF Clone
<1>3. /\ DOMAIN generations' = DOMAIN generations \cup {ref.generation}
      /\ generations'[ref.generation] = Whole(ref)
      /\ \A m \in DOMAIN generations : generations'[m] = generations[m]
    BY <1>1, <1>2 DEF Plus
<1>4. g \in Promise!Kept
    BY <1>1 DEF Selected, Reference, Promise!Kept
<1>5. \A k \in KeptNow : k.generation < g.generation
    BY <1>1 DEF KeptNow, AsKept, Selected
<1>6. KeptNow' = KeptNow \cup {g}
    BY <1>3 DEF KeptNow, AsKept, Selected, Whole
<1>7. UNCHANGED CurrentNow
    BY <1>2 DEF CurrentNow
<1>8. Promise!Complete(g)
    BY <1>5, <1>6, <1>7 DEF Promise!Complete
<1> QED
    BY <1>4, <1>8 DEF Promise!Next

\* A doomed generation is lost to readers when it is torn, not when its last
\* file goes.
LEMMA RemovalDrops ==
    ASSUME IInv, NEW n \in Generation, RemoveGeneration(n)
    PROVE  [Promise!Next]_<<KeptNow, CurrentNow>>
<1>1. /\ n \in DOMAIN generations /\ generations[n] \in Directory
      /\ \A p \in pointer : p.generation # n
      /\ UNCHANGED pointer
    BY DEF RemoveGeneration, First, IInv, CleanInv, TypeOK, DiskType
<1>2. UNCHANGED CurrentNow
    BY <1>1 DEF CurrentNow
<1>3. CASE ~generations[n].whole
    <2>1. generations' = Minus(generations, n)
        BY <1>3 DEF RemoveGeneration
    <2>2. UNCHANGED KeptNow
        BY <2>1, <1>3 DEF KeptNow, AsKept, Minus
    <2> QED
        BY <2>2, <1>2
<1>4. CASE generations[n].whole
    <2> DEFINE g == AsKept(n)
    <2>1. /\ DOMAIN generations' = DOMAIN generations /\ ~generations'[n].whole
          /\ \A m \in DOMAIN generations \ {n} : generations'[m] = generations[m]
        BY <1>1, <1>4, TornKeeps DEF RemoveGeneration
    <2>2. KeptNow' = KeptNow \ {g}
        BY <2>1 DEF KeptNow, AsKept
    <2>3. g \notin CurrentNow
        BY <1>1 DEF CurrentNow, Selected, AsKept
    <2>4. g \in Promise!Kept
        BY <1>1 DEF AsKept, Directory, Promise!Kept
    <2>5. Promise!Drop(g)
        BY <2>2, <2>3, <1>2 DEF Promise!Drop
    <2> QED
        BY <2>4, <2>5 DEF Promise!Next
<1> QED
    BY <1>3, <1>4

\* The pointer moves forward, to a generation that is whole.
LEMMA PointerAdvances ==
    ASSUME IInv, MovePointer
    PROVE  [Promise!Next]_<<KeptNow, CurrentNow>>
<1> DEFINE ref == holder.ref
           g == Selected(ref)
<1>1. /\ ref \in Reference /\ Has(generations, ref.generation, ref)
      /\ \A p \in pointer : p.generation < ref.generation
    BY DEF MovePointer, IInv, PublishInv, Publishes
<1>2. pointer' = {ref} /\ UNCHANGED generations
    BY DEF MovePointer
<1>3. g = AsKept(ref.generation) /\ g \in KeptNow
    BY <1>1 DEF Has, Whole, KeptNow, AsKept, Selected
<1>4. \A c \in CurrentNow : c.generation < g.generation
    BY <1>1 DEF CurrentNow, Selected
<1>5. CurrentNow' = {g} /\ UNCHANGED KeptNow
    BY <1>2 DEF CurrentNow, KeptNow, AsKept
<1>6. g \in Promise!Kept
    BY <1>1 DEF Selected, Reference, Promise!Kept
<1>7. Promise!Advance(g)
    BY <1>3, <1>4, <1>5 DEF Promise!Advance
<1> QED
    BY <1>6, <1>7 DEF Promise!Next

LEMMA StepRefines == IInv /\ [Next]_vars => [Promise!Next]_<<KeptNow, CurrentNow>>
<1> SUFFICES ASSUME IInv, [Next]_vars PROVE [Promise!Next]_<<KeptNow, CurrentNow>>
    OBVIOUS
<1>1. CASE UNCHANGED <<pointer, generations>>
    BY <1>1, Invisible
<1>2. CASE Clone
    BY <1>2, CloneKeeps
<1>3. CASE MovePointer
    BY <1>3, PointerAdvances
<1>4. CASE \E n \in Generation : RemoveGeneration(n)
    BY <1>4, RemovalDrops
<1>5. Clone \/ MovePointer \/ (\E n \in Generation : RemoveGeneration(n))
      \/ UNCHANGED <<pointer, generations>>
    BY DEF Next, Continue, vars, disk, BeginPublish, BeginCleanup, PublishObject,
           PublishSidecar, RemovePair, RemoveOrphan, RefuseLitter, VerifyRetained,
           RemoveObject, EndCleanup, Stop
<1> QED
    BY <1>1, <1>2, <1>3, <1>4, <1>5

LEMMA InitRefines == Init => Promise!Init
<1> SUFFICES ASSUME Init PROVE KeptNow = {} /\ CurrentNow = {}
    BY DEF Promise!Init
<1>1. DOMAIN generations = {} /\ pointer = {}
    BY DEF Init, Empty
<1> QED
    BY <1>1 DEF KeptNow, CurrentNow

\* The recovery store implements the last-known-good promise.
THEOREM Refinement == Spec => ImplementsLastKnownGood
<1> QED
    BY InitRefines, StepRefines, Invariant, PTL DEF Spec, ImplementsLastKnownGood, Promise!Spec
=============================================================================
