------------------------------ MODULE CurrentRun ------------------------------
(***************************************************************************)
(* twelve_six/learned20m_current_run_authority.py: the one git ref that    *)
(* selects the current run, over the refs of the global leases (RunLease). *)
(* Clients activate a run that holds its lease, refresh the selection      *)
(* after a renewal, retire it, and inspect whether it is active.  Every    *)
(* one of these reads two refs at two instants.                            *)
(*                                                                         *)
(*   record    the leases, which their runners move on at any time         *)
(*   pointers  the commits behind the pointer's ref, oldest first          *)
(*   wire      pushes whose client has gone but which may still land       *)
(*   call[c]   c's operation: its next step, the commit it reads for or    *)
(*             has made, the pointer its inspection saw, and its result    *)
(*                                                                         *)
(* A commit carries a nonce, so no two are equal; its parent is the length *)
(* of the history it was made on, and its tip the lease commit it binds.   *)
(* The history variable held says, for an inspection, whether the lease    *)
(* was as the pointer has it when the pointer was read.                    *)
(*                                                                         *)
(* Expiry is left to each step: an operation given an instant at which the *)
(* lease it reads has expired is refused, which changes nothing, and an    *)
(* inspection then says inactive.                                          *)
(*                                                                         *)
(* Fuel: faults counts git commands that fail, time out or die with their  *)
(* client, calls[c] the commits c has made, MaxTip bounds a lease's record.*)
(***************************************************************************)
EXTENDS Naturals, Sequences

CONSTANTS Client, Manifest, Run, MaxTip, MaxCalls, MaxFaults

ASSUME BoundsAssumption == MaxTip \in Nat /\ MaxCalls \in Nat /\ MaxFaults \in Nat

VARIABLES record, pointers, wire, call, calls, faults

vars == <<record, pointers, wire, call, calls, faults>>

Leases == INSTANCE RunLease

Results == {"none", "verified", "unverified", "unknown", "timed_out", "rejected",
            "active", "inactive"}
Steps == {"idle", "pointer", "lease", "push", "accepted", "failed", "inspect", "bind"}

Commit == [author: Client, nonce: Nat, parent: Nat, status: {"ACTIVE", "RETIRED"},
           generation: Nat, manifest: Manifest, tip: Nat, run: Run]
Call == [at: Steps, commit: Commit \cup {<< >>}, seen: Nat, held: BOOLEAN, result: Results]

\* No commit: none made yet, or an inspection.
NoCommit == << >>

-----------------------------------------------------------------------------
\* The remote: the pointer's ref and its tip.

Tip == pointers[Len(pointers)]
IsTip(p) == pointers # << >> /\ Tip = p
Active == pointers # << >> /\ Tip.status = "ACTIVE"

\* A push without force is taken when it makes the ref or moves it to a child
\* of its tip.  A faulty remote takes any push.
Forced(p) == TRUE
Lands(p) == p.parent = Len(pointers)

\* A commit without its authorship: the pointer state it holds.
Selected(p) ==
    [status |-> p.status, generation |-> p.generation,
     manifest |-> p.manifest, tip |-> p.tip, run |-> p.run]

\* A faulty remote keeps no parent.
Orphan(p) == pointers' = Append(pointers, Selected(p))
Landed(p) == pointers' = Append(pointers, p)

\* The lease the pointer p binds is still the tip of its ref, and running.  A
\* faulty inspection is content with any running lease of the run.
Holds(p) == p.tip = Len(record[p.manifest]) /\ Leases!Held(p.manifest, p.tip, p.run)
AnyTip(p) == Leases!Running(p.manifest)
Bound(p) == Holds(p)

-----------------------------------------------------------------------------
Init ==
    /\ Leases!Init /\ pointers = << >> /\ wire = {}
    /\ call = [c \in Client |->
         [at |-> "idle", commit |-> NoCommit, seen |-> 0, held |-> FALSE, result |-> "none"]]
    /\ calls = [c \in Client |-> 0]
    /\ faults = 0

At(c, step) == call[c].at = step
Go(c, step) == call' = [call EXCEPT ![c].at = step]
Tell(c, result) == call' = [call EXCEPT ![c].at = "idle", ![c].result = result]
Begin(c, step, commit) ==
    /\ At(c, "idle")
    /\ call' = [call EXCEPT ![c] = [at |-> step, commit |-> commit,
          seen |-> 0, held |-> FALSE, result |-> "none"]]
Fault == faults < MaxFaults /\ faults' = faults + 1

\* A runner acquires, renews or ends its lease.
LeaseMoves ==
    /\ Leases!Next
    /\ \A m \in Manifest : Len(record'[m]) <= MaxTip
    /\ UNCHANGED <<pointers, wire, call, calls, faults>>

\* The pointer state written on parent: manifest m, bound to the lease's tip.
Pointer(c, parent, generation, m) ==
    [author |-> c, nonce |-> calls[c] + 1, parent |-> parent, status |-> "ACTIVE",
     generation |-> generation, manifest |-> m, tip |-> Len(record[m]),
     run |-> record[m][Len(record[m])].run]

\* activate_current_run_authority reads the lease, which must be running ...
\* A faulty one binds a lease that has ended.
Acquired(m) == record[m] # << >>
MayBind(m) == Leases!Running(m)

ActivateLease(c, m) ==
    /\ calls[c] < MaxCalls
    /\ MayBind(m)
    /\ calls' = [calls EXCEPT ![c] = @ + 1]
    /\ Begin(c, "pointer", Pointer(c, Len(pointers), 1, m))
    /\ UNCHANGED <<record, pointers, wire, faults>>

\* ... and then the pointer, which must be the one the caller expected when it
\* called and must not be active.  A faulty one takes the pointer it finds.
AnyPointer(c) == TRUE
Expected(c) == call[c].commit.parent = Len(pointers)

ActivatePointer(c) ==
    /\ At(c, "pointer")
    /\ Expected(c) /\ ~Active
    /\ call' = [call EXCEPT ![c].at = "push",
          ![c].commit.parent = Len(pointers),
          ![c].commit.generation = IF pointers = << >> THEN 1 ELSE Tip.generation + 1]
    /\ UNCHANGED <<record, pointers, wire, calls, faults>>

\* refresh_current_run_authority reads the pointer, then the lease, which must
\* be running and no longer the commit the pointer binds.
RefreshPointer(c) ==
    /\ calls[c] < MaxCalls
    /\ Active
    /\ calls' = [calls EXCEPT ![c] = @ + 1]
    /\ Begin(c, "lease",
          [Tip EXCEPT !.author = c, !.nonce = calls[c] + 1, !.parent = Len(pointers)])
    /\ UNCHANGED <<record, pointers, wire, faults>>

Renewed(p) ==
    /\ Leases!Running(p.manifest)
    /\ Len(record[p.manifest]) # p.tip
    /\ record[p.manifest][Len(record[p.manifest])].run = p.run

RefreshLease(c) ==
    /\ At(c, "lease")
    /\ Renewed(call[c].commit)
    /\ call' = [call EXCEPT ![c].at = "push", ![c].commit.tip = Len(record[call[c].commit.manifest])]
    /\ UNCHANGED <<record, pointers, wire, calls, faults>>

\* What the second read finds refuses the call.
Refused(c) ==
    /\ \/ At(c, "pointer") /\ ~(Expected(c) /\ ~Active)
       \/ At(c, "lease") /\ ~Renewed(call[c].commit)
    /\ Tell(c, "none")
    /\ UNCHANGED <<record, pointers, wire, calls, faults>>

\* retire_current_run_authority asks nothing of the lease.
Retire(c) ==
    /\ calls[c] < MaxCalls
    /\ Active
    /\ calls' = [calls EXCEPT ![c] = @ + 1]
    /\ Begin(c, "push", [Tip EXCEPT !.author = c, !.nonce = calls[c] + 1,
          !.parent = Len(pointers), !.status = "RETIRED"])
    /\ UNCHANGED <<record, pointers, wire, faults>>

-----------------------------------------------------------------------------
\* The push, and the look at the ref that follows it.

\* git push exits with zero, or without: refused, or not reached, or done
\* with its answer lost.
PushAccepted(c) ==
    /\ At(c, "push") /\ Lands(call[c].commit)
    /\ Landed(call[c].commit)
    /\ Go(c, "accepted")
    /\ UNCHANGED <<record, wire, calls, faults>>

PushRefused(c) ==
    /\ At(c, "push") /\ ~Lands(call[c].commit)
    /\ Go(c, "failed")
    /\ UNCHANGED <<record, pointers, wire, calls, faults>>

PushFailed(c) ==
    /\ At(c, "push") /\ Fault
    /\ \/ UNCHANGED pointers
       \/ Lands(call[c].commit) /\ Landed(call[c].commit)
    /\ Go(c, "failed")
    /\ UNCHANGED <<record, wire, calls>>

\* The push is killed after 60 seconds, which raises past every handler, or the
\* client dies.  The remote may have the commit, get it later, or never.
PushAbandoned(c) ==
    /\ At(c, "push") /\ Fault
    /\ \E result \in {"timed_out", "none"} : Tell(c, result)
    /\ \/ UNCHANGED <<pointers, wire>>
       \/ Lands(call[c].commit) /\ Landed(call[c].commit) /\ UNCHANGED wire
       \/ wire' = wire \cup {call[c].commit} /\ UNCHANGED pointers
    /\ UNCHANGED <<record, calls>>

\* The probe finds the commit at the remote's tip.
Observed(p) == IsTip(p)

Probe(c) ==
    /\ call[c].at \in {"accepted", "failed"}
    /\ \/ Observed(call[c].commit) /\ Go(c, "inspect")
       \/ /\ ~Observed(call[c].commit)
          /\ Tell(c, IF At(c, "accepted") THEN "unverified" ELSE "rejected")
    /\ UNCHANGED <<record, pointers, wire, calls, faults>>

-----------------------------------------------------------------------------
\* inspect_current_run_authority: on its own, and to verify a write.

Inspect(c) == Begin(c, "inspect", NoCommit) /\ UNCHANGED <<record, pointers, wire, calls, faults>>

\* The result of an inspection that saw pointer number seen and found the
\* selection active or not.
Verdict(c, seen, active) ==
    LET p == call[c].commit IN
    IF p = NoCommit THEN (IF active THEN "active" ELSE "inactive")
    ELSE IF pointers[seen] = p /\ active = (p.status = "ACTIVE") THEN "verified"
    ELSE "unverified"

ReadPointer(c) ==
    /\ At(c, "inspect")
    /\ pointers # << >> \/ call[c].commit = NoCommit
    /\ call' = [call EXCEPT ![c].seen = Len(pointers),
          ![c].held = Active /\ Holds(Tip),
          ![c].at = IF Active THEN "bind" ELSE "idle",
          ![c].result = IF Active THEN "none" ELSE Verdict(c, Len(pointers), FALSE)]
    /\ UNCHANGED <<record, pointers, wire, calls, faults>>

\* The lease is read after the pointer; it may also be found expired.
ReadLease(c) ==
    /\ At(c, "bind")
    /\ \E active \in BOOLEAN :
          /\ active => Bound(pointers[call[c].seen])
          /\ Tell(c, Verdict(c, call[c].seen, active))
    /\ UNCHANGED <<record, pointers, wire, calls, faults>>

\* A read that fails ends the call; so does the death of the client.
ReadFailed(c) ==
    /\ Fault
    /\ \/ At(c, "failed") /\ Tell(c, "unknown")
       \/ At(c, "accepted") /\ Tell(c, "unverified")
       \/ /\ call[c].at \in {"inspect", "bind"}
          /\ Tell(c, IF call[c].commit = NoCommit THEN "inactive" ELSE "unverified")
       \/ call[c].at \notin {"idle", "push"} /\ Tell(c, "none")
    /\ UNCHANGED <<record, pointers, wire, calls>>

\* A push whose client is gone reaches the remote.
Arrive(p) ==
    /\ wire' = wire \ {p}
    /\ IF Lands(p) THEN Landed(p) ELSE UNCHANGED pointers
    /\ UNCHANGED <<record, call, calls, faults>>

Next ==
    \/ LeaseMoves
    \/ \E c \in Client :
          \/ \E m \in Manifest : ActivateLease(c, m)
          \/ ActivatePointer(c) \/ RefreshPointer(c) \/ RefreshLease(c) \/ Refused(c)
          \/ Retire(c)
          \/ PushAccepted(c) \/ PushRefused(c) \/ PushFailed(c) \/ PushAbandoned(c)
          \/ Probe(c) \/ Inspect(c) \/ ReadPointer(c) \/ ReadLease(c) \/ ReadFailed(c)
    \/ \E p \in wire : Arrive(p)

Spec == Init /\ [][Next]_vars

-----------------------------------------------------------------------------
\* Properties.

TypeOK ==
    /\ record \in [Manifest -> Seq(Leases!Lease)]
    /\ pointers \in Seq(Commit) /\ wire \subseteq Commit
    /\ call \in [Client -> Call]
    /\ calls \in [Client -> Nat] /\ faults \in Nat

Selections == [i \in 1..Len(pointers) |-> Selected(pointers[i])]
Selection == INSTANCE RunSelection WITH history <- Selections

\* Whatever clients race and however late a push arrives, the pointer's history
\* is one lawful sequence of selections (activate, refresh and retire all push
\* a child of the tip they read).
ImplementsRunSelection == Selection!Spec

\* An inspection that says active is true of one instant, though it reads the
\* pointer and the lease at two: when it read the pointer, the selected run held
\* the lease that the pointer binds.
ActiveWasHeld == \A c \in Client : call[c].result = "active" => call[c].held

\* Every selection on record, and every one on its way, binds a lease its run
\* held: no lease that has ended is ever bound by an activation or a refresh.
BoundLeaseWasHeld ==
    \A p \in {pointers[i] : i \in 1..Len(pointers)} \cup wire :
        Leases!Held(p.manifest, p.tip, p.run)

\* The pointer never goes back to an older lease of a manifest, across
\* retirements too: activation reads the lease before the pointer, and only
\* the caller's expected tip keeps an old reading from being written.
LeaseNeverGoesBack ==
    \A i, j \in 1..Len(pointers) :
        i < j /\ pointers[i].manifest = pointers[j].manifest =>
            pointers[i].tip <= pointers[j].tip
=============================================================================
