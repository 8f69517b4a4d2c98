------------------------------ MODULE Recovery ------------------------------
(***************************************************************************)
(* twelve_six/scale141_recovery.py with the sidecars of                    *)
(* scale141_resume_sidecar.py: a pointer current.json that selects one of  *)
(* the generations a trainer published, and a cleanup that deletes others. *)
(*                                                                         *)
(*   pointer      current.json as a set of at most one reference           *)
(*   objects      checkpoints/<checkpoint_id>                              *)
(*   generations  generations/generation-N                                 *)
(*   sidecars     resume-states/generation-N                               *)
(*   litter       where killed writers left what they had staged           *)
(*   holder       the call that holds exclusive_recovery_lock, at its next *)
(*                step on the file system                                  *)
(*                                                                         *)
(* A directory holds a checkpoint: its checkpoint_id, the rest of its      *)
(* manifest (the stamp: two saves of one content differ in their           *)
(* created_at_utc), and whether all its files are there.  Publication      *)
(* renames a staged directory and the pointer file into place, so neither  *)
(* is ever half written; rmtree passes through a directory that is torn.   *)
(* The kernel releases the lock when its holder dies, at any step.         *)
(*                                                                         *)
(* Fuel: faults counts deaths and failed calls.  LastGeneration is the     *)
(* code's own bound on generation numbers (99999999 there).                *)
(***************************************************************************)
EXTENDS Naturals, FiniteSets

CONSTANTS Content, Stamp, LastGeneration,
          Keep,       \* values of cleanup's keep
          MaxFaults

ASSUME KeepAssumption == Keep \subseteq Nat \ {0}

VARIABLES pointer, objects, generations, sidecars, litter, holder, faults

vars == <<pointer, objects, generations, sidecars, litter, holder, faults>>
disk == <<pointer, objects, generations, sidecars, litter>>

Generation == 1..LastGeneration

Checkpoint == [id: Content, stamp: Stamp]
Directory == [id: Content, stamp: Stamp, whole: BOOLEAN]
Reference == [generation: Generation, id: Content, stamp: Stamp, sidecar: BOOLEAN]

Whole(d) == [id |-> d.id, stamp |-> d.stamp, whole |-> TRUE]

\* A directory's entries: none, one more, one less, one torn.
Empty == [n \in {} |-> n]
Plus(dirs, n, d) == [m \in DOMAIN dirs \cup {n} |-> IF m = n THEN d ELSE dirs[m]]
Minus(dirs, n) == [m \in DOMAIN dirs \ {n} |-> dirs[m]]
Torn(dirs, n) == [dirs EXCEPT ![n].whole = FALSE]

-----------------------------------------------------------------------------
\* What the code reads under the lock.

Has(dirs, n, c) == n \in DOMAIN dirs /\ dirs[n] = Whole(c)

\* resolve_recovery_generation: the object, the ordinal generation and, if the
\* reference names one, the sidecar are whole and are those of the reference.
Resolves(p) ==
    /\ Has(objects, p.id, p)
    /\ Has(generations, p.generation, p)
    /\ p.sidecar => Has(sidecars, p.generation, p)

\* publish refuses to advance over a pointer that does not resolve, cleanup
\* over none at all.
MayAdvance == \A p \in pointer : Resolves(p)

\* existing[-1] + 1.  Faulty forms: the number after the pointer's, and the
\* lowest that is free.
AfterPointer(n) == IF pointer = {} THEN n = 1 ELSE \E p \in pointer : n = p.generation + 1
LowestFree(n) == n \notin DOMAIN generations /\ 1..(n - 1) \subseteq DOMAIN generations
NextNumber(n) ==
    /\ \A m \in DOMAIN generations : m < n
    /\ n = 1 \/ n - 1 \in DOMAIN generations

\* others[-(keep - 1):] are spared beside the current one; the rest goes.
Above(S, n) == Cardinality({m \in S : m > n})
\* The faulty form counts the current one among the newest.
SparesNewest(keep) == {n \in DOMAIN generations : Above(DOMAIN generations, n) >= keep}
Doomed(keep) ==
    LET others == {n \in DOMAIN generations : \A p \in pointer : n # p.generation}
    IN  {n \in others : Above(others, n) >= keep - 1}

\* What cleanup leaves in the object store.  The faulty form forgets to look.
AllObjects == DOMAIN objects
Retained == {generations[n].id : n \in DOMAIN generations}

-----------------------------------------------------------------------------
\* The holder of the lock.

Free == [at |-> "free", doomed |-> {}]
Publishing(at, ref) == [at |-> at, ref |-> ref]
Cleaning(at, doomed) == [at |-> at, doomed |-> doomed]

Publishes == {"object", "clone", "sidecar", "pointer"}
Cleans == {"generation", "pair", "orphans", "objects"}

Release == holder' = Free

Init ==
    /\ pointer = {}
    /\ objects = Empty /\ generations = Empty /\ sidecars = Empty
    /\ litter = {}
    /\ holder = Free
    /\ faults = 0

-----------------------------------------------------------------------------
\* publish_recovery_generation

\* The pointer is verified and the number chosen before save_generation writes
\* the checkpoint to a private staging directory.
BeginPublish(c, sidecar) ==
    /\ holder.at = "free"
    /\ MayAdvance
    /\ \E n \in Generation :
          /\ NextNumber(n)
          /\ holder' = Publishing("object",
                [generation |-> n, id |-> c.id, stamp |-> c.stamp, sidecar |-> sidecar])
    /\ UNCHANGED <<disk, faults>>

\* An object that is already there is canonical: its manifest replaces the one
\* just saved.  The faulty form keeps the new manifest.
StagedManifest(ref) == ref
Canonical(ref) ==
    IF ref.id \in DOMAIN objects THEN [ref EXCEPT !.stamp = objects[ref.id].stamp] ELSE ref

\* A torn object of the same content fails verification.
PublishObject ==
    /\ holder.at = "object"
    /\ LET ref == Canonical(holder.ref)
       IN  IF ref.id \in DOMAIN objects
           THEN /\ holder' = IF objects[ref.id].whole THEN Publishing("clone", ref) ELSE Free
                /\ UNCHANGED objects
           ELSE /\ objects' = Plus(objects, ref.id, Whole(ref))
                /\ holder' = Publishing("clone", ref)
    /\ UNCHANGED <<pointer, generations, sidecars, litter, faults>>

\* A generation of that number must not exist.
Clone ==
    /\ holder.at = "clone"
    /\ LET ref == holder.ref
       IN  IF ref.generation \notin DOMAIN generations
           THEN /\ generations' = Plus(generations, ref.generation, Whole(ref))
                /\ holder' = Publishing(IF ref.sidecar THEN "sidecar" ELSE "pointer", ref)
           ELSE Release /\ UNCHANGED generations
    /\ UNCHANGED <<pointer, objects, sidecars, litter, faults>>

\* The sidecar is renamed into place unless its number is taken.
Unused(n) == n \notin DOMAIN sidecars
PublishSidecar ==
    /\ holder.at = "sidecar"
    /\ LET ref == holder.ref
       IN  IF Unused(ref.generation)
           THEN /\ sidecars' = Plus(sidecars, ref.generation, Whole(ref))
                /\ holder' = Publishing("pointer", ref)
           ELSE Release /\ UNCHANGED sidecars
    /\ UNCHANGED <<pointer, objects, generations, litter, faults>>

\* os.replace.  The faulty form leaves the old pointer beside the new one.
AddPointer ==
    /\ holder.at = "pointer"
    /\ pointer' = pointer \cup {holder.ref}
    /\ Release
    /\ UNCHANGED <<objects, generations, sidecars, litter, faults>>
MovePointer ==
    /\ holder.at = "pointer"
    /\ pointer' = {holder.ref}
    /\ Release
    /\ UNCHANGED <<objects, generations, sidecars, litter, faults>>

-----------------------------------------------------------------------------
\* cleanup_recovery_generations

Doom(doomed) == Cleaning(IF doomed = {} THEN "orphans" ELSE "generation", doomed)

BeginCleanup(keep) ==
    /\ holder.at = "free"
    /\ pointer # {} /\ MayAdvance
    /\ holder' = Doom(Doomed(keep))
    /\ UNCHANGED <<disk, faults>>

\* rmtree of the doomed generations in ascending order, each followed by its
\* sidecar.
First(n) == n \in holder.doomed /\ \A m \in holder.doomed : n <= m

RemoveGeneration(n) ==
    /\ holder.at = "generation" /\ First(n)
    /\ IF generations[n].whole
       THEN generations' = Torn(generations, n) /\ UNCHANGED holder
       ELSE /\ generations' = Minus(generations, n)
            /\ holder' = Cleaning("pair", holder.doomed)
    /\ UNCHANGED <<pointer, objects, sidecars, litter, faults>>

RemovePair(n) ==
    /\ holder.at = "pair" /\ First(n)
    /\ IF n \in DOMAIN sidecars /\ sidecars[n].whole
       THEN sidecars' = Torn(sidecars, n) /\ UNCHANGED holder
       ELSE sidecars' = Minus(sidecars, n) /\ holder' = Doom(holder.doomed \ {n})
    /\ UNCHANGED <<pointer, objects, generations, litter, faults>>

\* cleanup_orphan_resume_sidecars, in the directory's order.  The staging
\* directory of a killed writer is an unknown entry and raises when met.
RemoveOrphan(n) ==
    /\ holder.at = "orphans"
    /\ n \in DOMAIN sidecars \ DOMAIN generations
    /\ sidecars' = IF sidecars[n].whole THEN Torn(sidecars, n) ELSE Minus(sidecars, n)
    /\ UNCHANGED <<pointer, objects, generations, litter, holder, faults>>

RefuseLitter ==
    /\ holder.at = "orphans" /\ "sidecar" \in litter
    /\ Release
    /\ UNCHANGED <<disk, faults>>

\* Every retained generation is verified before any object is deleted.
AllVerify == \A n \in DOMAIN generations : generations[n].whole
VerifyRetained ==
    /\ holder.at = "orphans" /\ "sidecar" \notin litter
    /\ DOMAIN sidecars \subseteq DOMAIN generations
    /\ holder' = IF AllVerify THEN Cleaning("objects", {}) ELSE Free
    /\ UNCHANGED <<disk, faults>>

RemoveObject(c) ==
    /\ holder.at = "objects"
    /\ c \in DOMAIN objects \ Retained
    /\ objects' = IF objects[c].whole THEN Torn(objects, c) ELSE Minus(objects, c)
    /\ UNCHANGED <<pointer, generations, sidecars, litter, holder, faults>>

EndCleanup ==
    /\ holder.at = "objects"
    /\ DOMAIN objects \subseteq Retained
    /\ Release
    /\ UNCHANGED <<disk, faults>>

-----------------------------------------------------------------------------
\* What a publication may have staged since its last step: .checkpoint-stage-*
\* in the root, until the clone is begun; .generation-N.clone-* in generations,
\* until the step after it; .generation-N.tmp-* in resume-states; .current.*.tmp
\* in the root.
Staged ==
    CASE holder.at = "object" -> {"checkpoint"}
      [] holder.at = "clone" -> {"checkpoint", "clone"}
      [] holder.at = "sidecar" ->
             {"clone"} \cup {p \in {"sidecar"} : Unused(holder.ref.generation)}
      [] holder.at = "pointer" -> {"temp"} \cup {p \in {"clone"} : ~holder.ref.sidecar}
      [] OTHER -> {}

\* The call dies or raises at any step; if it is killed, what it had staged
\* stays.  Nothing removes it, and only in resume-states does a later call
\* trip over it.
Stop ==
    /\ holder.at # "free"
    /\ faults < MaxFaults /\ faults' = faults + 1
    /\ Release
    /\ UNCHANGED litter \/ \E place \in Staged : litter' = litter \cup {place}
    /\ UNCHANGED <<pointer, objects, generations, sidecars>>

Continue ==
    \/ PublishObject \/ Clone \/ PublishSidecar \/ MovePointer
    \/ \E n \in Generation : RemoveGeneration(n) \/ RemovePair(n) \/ RemoveOrphan(n)
    \/ RefuseLitter \/ VerifyRetained
    \/ \E c \in Content : RemoveObject(c)
    \/ EndCleanup

Next ==
    \/ \E c \in Checkpoint, sidecar \in BOOLEAN : BeginPublish(c, sidecar)
    \/ \E keep \in Keep : BeginCleanup(keep)
    \/ Continue
    \/ Stop

Spec == Init /\ [][Next]_vars

\* The call that holds the lock goes on.  Nobody is bound to publish or clean up.
FairSpec == Spec /\ WF_vars(Continue)

-----------------------------------------------------------------------------
\* Properties.

DiskType ==
    /\ pointer \subseteq Reference /\ \A p, q \in pointer : p = q
    /\ DOMAIN objects \subseteq Content
    /\ \A c \in DOMAIN objects : objects[c] \in Directory /\ objects[c].id = c
    /\ DOMAIN generations \subseteq Generation
    /\ \A n \in DOMAIN generations : generations[n] \in Directory
    /\ DOMAIN sidecars \subseteq Generation
    /\ \A n \in DOMAIN sidecars : sidecars[n] \in Directory

HolderType ==
    \/ holder = Free
    \/ /\ holder.at \in Publishes /\ holder.ref \in Reference
       /\ holder = Publishing(holder.at, holder.ref)
    \/ /\ holder.at \in Cleans /\ holder.doomed \subseteq Generation
       /\ holder = Cleaning(holder.at, holder.doomed)

TypeOK ==
    /\ DiskType /\ HolderType
    /\ litter \subseteq {"checkpoint", "clone", "sidecar", "temp"}
    /\ faults \in Nat

\* At every moment, inside any publication or cleanup and after any death, the
\* pointer on disk selects a generation a reader can restore: its object, its
\* ordinal copy and its sidecar are whole and are the ones it was made of.
CurrentResolves == \A p \in pointer : Resolves(p)

\* Not only the current generation: every whole one a cleanup has spared still
\* has its content object, with the same manifest.
RetainedRestorable ==
    \A n \in DOMAIN generations :
        generations[n].whole => Has(objects, generations[n].id, generations[n])

\* The refinement mapping: what is kept is what verifies.
AsKept(n) == [generation |-> n, id |-> generations[n].id, stamp |-> generations[n].stamp]
Selected(p) == [generation |-> p.generation, id |-> p.id, stamp |-> p.stamp]

KeptNow == {AsKept(n) : n \in {m \in DOMAIN generations : generations[m].whole}}
CurrentNow == {Selected(p) : p \in pointer}

Promise == INSTANCE LastKnownGood WITH kept <- KeptNow, current <- CurrentNow

\* "Never advance over an invalid last-known-good pointer": the store is one
\* whose choice moves forward only, to a whole generation, and never loses it.
ImplementsLastKnownGood == Promise!Spec

\* A trainer that retries one content, whoever else publishes or cleans up or
\* does not, is not stopped for good by what deaths left behind: the store takes
\* generations until their numbers run out.  The exception is a content whose
\* object a cleanup tore before it died: every publication of it fails to verify
\* that object until a cleanup has removed it (GarbageGoes says when one does).
BeginPublishOf(c) ==
    \E stamp \in Stamp, sidecar \in BOOLEAN : BeginPublish([id |-> c, stamp |-> stamp], sidecar)
Wedged(c) == c \in DOMAIN objects /\ ~objects[c].whole
PublishingGoesOn ==
    \A c \in Content :
        SF_vars(BeginPublishOf(c)) => <>(LastGeneration \in DOMAIN generations) \/ <>[]Wedged(c)

\* Superseded and orphaned objects, ordinal copies and installed sidecars, torn
\* ones too, are gone again and again if cleanup(keep=1) is called again and
\* again, unless a writer was killed with its sidecar staged: what that one
\* left makes every cleanup refuse before it looks at the objects.  The staged
\* checkpoints, clones and pointers of killed writers (litter) are not part of
\* this: no cleanup removes them.
Tidy ==
    /\ DOMAIN generations = {p.generation : p \in pointer}
    /\ DOMAIN sidecars \subseteq DOMAIN generations
    /\ DOMAIN objects = {p.id : p \in pointer}
GarbageGoes == []<><<BeginCleanup(1)>>_vars => []<>(Tidy \/ "sidecar" \in litter)
=============================================================================
