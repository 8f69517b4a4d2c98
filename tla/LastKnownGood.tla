---------------------------- MODULE LastKnownGood ----------------------------
(***************************************************************************)
(* What the recovery store of scale141_recovery.py promises its readers:   *)
(* whole generations are kept, one of them is current, the current one is  *)
(* never dropped, and the choice only moves forward, to a generation that  *)
(* is already whole.                                                       *)
(***************************************************************************)
EXTENDS Naturals

CONSTANT Generation, Content, Stamp

VARIABLES kept,      \* restorable generations, each with its content
          current    \* the one a resolve answers, as a set of at most one

Kept == [generation: Generation, id: Content, stamp: Stamp]

Init == kept = {} /\ current = {}

\* A whole generation appears, above every one that is kept.
Complete(g) ==
    /\ \A k \in kept : k.generation < g.generation
    /\ kept' = kept \cup {g}
    /\ UNCHANGED current

Drop(g) ==
    /\ g \notin current
    /\ kept' = kept \ {g}
    /\ UNCHANGED current

Advance(g) ==
    /\ g \in kept
    /\ \A c \in current : c.generation < g.generation
    /\ current' = {g}
    /\ UNCHANGED kept

Next == \E g \in Kept : Complete(g) \/ Drop(g) \/ Advance(g)

Spec == Init /\ [][Next]_<<kept, current>>
=============================================================================
