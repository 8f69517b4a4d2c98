----------------------------- MODULE RunSelection -----------------------------
(***************************************************************************)
(* What the current-run pointer promises of its history: it selects one    *)
(* run of one launch manifest at a time; a generation is one selection,    *)
(* from its activation to its retirement; while it lasts the pointer only  *)
(* follows the lease forward; and the next one begins after it is retired. *)
(***************************************************************************)
EXTENDS Naturals, Sequences

CONSTANTS Manifest, Run

VARIABLE history   \* the pointer states on record, oldest first

First(new) ==
    /\ new.manifest \in Manifest /\ new.run \in Run
    /\ new.status = "ACTIVE" /\ new.generation = 1

SameRun(old, new) ==
    new.generation = old.generation /\ new.manifest = old.manifest /\ new.run = old.run

Refreshes(old, new) ==
    /\ old.status = "ACTIVE" /\ new.status = "ACTIVE"
    /\ SameRun(old, new) /\ old.tip < new.tip

Retires(old, new) == old.status = "ACTIVE" /\ new = [old EXCEPT !.status = "RETIRED"]

Reselects(old, new) ==
    /\ old.status = "RETIRED" /\ new.status = "ACTIVE"
    /\ new.generation = old.generation + 1
    /\ new.manifest \in Manifest /\ new.run \in Run

Init == history = << >>

Grow ==
    /\ Len(history') = Len(history) + 1
    /\ \A i \in 1..Len(history) : history'[i] = history[i]
    /\ LET new == history'[Len(history')] IN
         IF history = << >> THEN First(new)
         ELSE LET old == history[Len(history)] IN
              Refreshes(old, new) \/ Retires(old, new) \/ Reselects(old, new)

Spec == Init /\ [][Grow]_history
=============================================================================
