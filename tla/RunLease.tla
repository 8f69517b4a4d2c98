------------------------------- MODULE RunLease -------------------------------
(***************************************************************************)
(* What learned20m_current_run_authority.py can see of the TRAINING_RUN    *)
(* leases: each launch manifest has a lease ref of its own, whose commits  *)
(* say which run holds it and whether it is still running.  LeaseChain is  *)
(* an implementation of this for one manifest.                             *)
(***************************************************************************)
EXTENDS Naturals, Sequences

CONSTANTS Manifest, Run

VARIABLE record   \* per manifest, the leases behind its ref, oldest first

Lease == [run: Run, running: BOOLEAN]

Running(m) == record[m] # << >> /\ record[m][Len(record[m])].running

\* The lease of m at commit tip was a running one of run r.
Held(m, tip, r) ==
    /\ tip \in 1..Len(record[m])
    /\ record[m][tip] = [run |-> r, running |-> TRUE]

Init == record = [m \in Manifest |-> << >>]

Add(m, lease) == record' = [record EXCEPT ![m] = Append(@, lease)]

Acquire(m, r) == record[m] = << >> /\ Add(m, [run |-> r, running |-> TRUE])

\* A renewal, or the end of the run.
Follow(m, running) ==
    /\ Running(m)
    /\ Add(m, [run |-> record[m][Len(record[m])].run, running |-> running])

Next ==
    \E m \in Manifest :
        \/ \E r \in Run : Acquire(m, r)
        \/ \E running \in BOOLEAN : Follow(m, running)

Spec == Init /\ [][Next]_record
=============================================================================
