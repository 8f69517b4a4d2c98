------------------------------ MODULE LeaseChain ------------------------------
(***************************************************************************)
(* What the TRAINING_RUN lease of docs/R01_LEARNED20M_TRAINING_LEASE.md    *)
(* and docs/C01_LEARNED20M_GLOBAL_GIT_REF_LEASE.md promises of its record: *)
(* one run ever holds it; a running lease is extended, one renewal number  *)
(* at a time, at an instant after its last renewal and before its expiry;  *)
(* a terminal record is the last, and says COMPLETED only of a lease that  *)
(* had not expired.                                                        *)
(***************************************************************************)
EXTENDS Naturals, Sequences

CONSTANTS Run, Terminal

VARIABLE chain   \* the leases on record, oldest first

Fresh(new) ==
    /\ new.run \in Run /\ new.status = "RUNNING" /\ new.sequence = 0
    /\ new.renewed < new.expires

SameGrant(old, new) == new.run = old.run /\ new.acquired = old.acquired

Extends(old, new) ==
    /\ new.status = "RUNNING"
    /\ new.sequence = old.sequence + 1
    /\ old.renewed < new.renewed /\ new.renewed < old.expires
    /\ new.renewed < new.expires

Ends(old, new) ==
    /\ new.status \in Terminal
    /\ new.sequence = old.sequence
    /\ new.renewed = old.renewed /\ new.expires = old.expires
    /\ old.renewed <= new.ended
    /\ new.status = "COMPLETED" => new.ended < old.expires

Follows(old, new) ==
    /\ old.status = "RUNNING"
    /\ SameGrant(old, new)
    /\ Extends(old, new) \/ Ends(old, new)

Init == chain = << >>

Grow ==
    /\ Len(chain') = Len(chain) + 1
    /\ \A i \in 1..Len(chain) : chain'[i] = chain[i]
    /\ IF chain = << >> THEN Fresh(chain'[1])
       ELSE Follows(chain[Len(chain)], chain'[Len(chain')])

Spec == Init /\ [][Grow]_chain
=============================================================================
