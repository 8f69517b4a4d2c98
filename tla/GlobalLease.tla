----------------------------- MODULE GlobalLease -----------------------------
(***************************************************************************)
(* twelve_six/learned20m_global_training_lease.py over the lease rules of  *)
(* learned20m_training_lease.py: runners that acquire, renew and terminate *)
(* one TRAINING_RUN lease kept as commits behind a git ref, by non-force   *)
(* pushes of a child of the tip they read.                                 *)
(*                                                                         *)
(*   lineage   the commits behind the remote ref, oldest first             *)
(*   wire      pushes whose client has gone but which may still land       *)
(*   call[r]   r's operation: its next git command, the commit it made     *)
(*             and, once it returned, the result it was told               *)
(*                                                                         *)
(* A commit carries its author's nonce, so no two are equal; its parent is *)
(* the length of the lineage it was made on.  Any runner may renew or      *)
(* terminate: the code asks for the expected tip, not for the holder.  An  *)
(* operation that changes nothing (a tip that is not the expected one, a   *)
(* lease refused by the rules, a read that fails) is not a step.           *)
(*                                                                         *)
(* An instant is an input: an operation is given now or reads the clock of *)
(* its host, and the clocks of two hosts need not agree.                   *)
(*                                                                         *)
(* Fuel: faults counts git commands that fail, time out or die with their  *)
(* runner, calls[r] the commits r has made.  MaxTime bounds the instants.  *)
(***************************************************************************)
EXTENDS Naturals, Sequences

CONSTANTS Runner,
          TTL,          \* ttl_seconds offered
          MaxTime, MaxCalls, MaxFaults

Instant == 0..MaxTime

ASSUME TTLAssumption == TTL \subseteq Nat \ {0}
ASSUME TimeAssumption == MaxTime \in Nat

VARIABLES lineage, wire, call, calls, faults

vars == <<lineage, wire, call, calls, faults>>

Terminal == {"COMPLETED", "FAILED", "ABORTED"}
Results == {"none", "verified", "unverified", "unknown", "timed_out", "rejected"}

Lease == [run: Runner, status: {"RUNNING"} \cup Terminal, sequence: Nat,
          acquired: Nat, renewed: Nat, expires: Nat, ended: Nat]
Commit == [author: Runner, nonce: Nat, parent: Nat, lease: Lease]

\* Before its first commit a runner has none; Blank stands for it.
Blank(r) == [author |-> r, nonce |-> 0, parent |-> 0, lease |->
    [run |-> r, status |-> "RUNNING", sequence |-> 0,
     acquired |-> 0, renewed |-> 0, expires |-> 0, ended |-> 0]]

-----------------------------------------------------------------------------
\* learned20m_training_lease

\* build_training_run_lease at instant t.
Built(r, ttl, t) ==
    [run |-> r, status |-> "RUNNING", sequence |-> 0,
     acquired |-> t, renewed |-> t, expires |-> t + ttl, ended |-> 0]

\* validate_training_run_lease and, of a valid lease, assess_training_run_lease.
Valid(l) ==
    /\ l.acquired <= l.renewed /\ l.renewed < l.expires
    /\ l.status \in Terminal => l.renewed <= l.ended
InForce(l, now) == l.status = "RUNNING" /\ l.renewed <= now /\ now < l.expires

\* renew_training_run_lease and terminate_training_run_lease.
MayRenew(l, now) == l.status = "RUNNING" /\ l.renewed < now /\ now < l.expires
Renewed(l, ttl, now) ==
    [l EXCEPT !.renewed = now, !.expires = now + ttl, !.sequence = l.sequence + 1]

MayTerminate(l, status, now) ==
    /\ l.status = "RUNNING" /\ l.renewed <= now
    /\ status = "COMPLETED" => now < l.expires
Terminated(l, status, now) == [l EXCEPT !.status = status, !.ended = now]

\* validate_lease_transition
ValidTransition(old, new) ==
    /\ Valid(old) /\ Valid(new)
    /\ old.status = "RUNNING"
    /\ new.run = old.run /\ new.acquired = old.acquired
    /\ \/ /\ new.status = "RUNNING" /\ new.sequence = old.sequence + 1
          /\ old.renewed < new.renewed /\ new.renewed < old.expires
       \/ /\ new.status \in Terminal
          /\ new.sequence = old.sequence /\ new.renewed = old.renewed /\ new.expires = old.expires
          /\ new.status = "COMPLETED" => new.ended < old.expires

-----------------------------------------------------------------------------
\* The remote.

Tip == lineage[Len(lineage)]
IsTip(c) == lineage # << >> /\ Tip = c

\* A push without force is taken when it makes the ref (no ref yet) or moves
\* it to a child of its tip.  A faulty remote takes any push.
Forced(c) == TRUE
Lands(c) == c.parent = Len(lineage)

\* After a push that failed: the tip is this very commit.  A faulty client
\* does not look, or takes any tip for its own.
NeverTip(c) == FALSE
AnyTip(c) == lineage # << >>
Observed(c) == IsTip(c)

\* A faulty remote moves the ref to the lease and not to its commit.
BareLease(c) == lineage' = Append(lineage, c.lease)
Landed(c) == lineage' = Append(lineage, c)

-----------------------------------------------------------------------------
Init ==
    /\ lineage = << >> /\ wire = {}
    /\ call = [r \in Runner |-> [at |-> "idle", commit |-> Blank(r), result |-> "none"]]
    /\ calls = [r \in Runner |-> 0]
    /\ faults = 0

At(r, step) == call[r].at = step

\* r has written a commit of lease l, child of the tip it read, and will push it.
Child(r, l) == [author |-> r, nonce |-> calls[r] + 1, parent |-> Len(lineage), lease |-> l]

Write(r, l) ==
    /\ At(r, "idle") /\ calls[r] < MaxCalls
    /\ calls' = [calls EXCEPT ![r] = @ + 1]
    /\ call' = [call EXCEPT ![r] =
          [at |-> "push", result |-> "none", commit |-> Child(r, l)]]
    /\ UNCHANGED <<lineage, wire, faults>>

\* The lease was built at t and is offered now.  A ref that exists is never
\* acquired, whatever state its lease is in.
Acquire(r, ttl, t, now) ==
    /\ Valid(Built(r, ttl, t)) /\ InForce(Built(r, ttl, t), now)
    /\ lineage = << >>
    /\ Write(r, Built(r, ttl, t))

\* The tip is read before the instant is; if it moves in between, the commit
\* is of a stale tip and the push is refused, as when it moves after.
Renew(r, ttl, now) ==
    /\ lineage # << >>
    /\ MayRenew(Tip.lease, now)
    /\ ValidTransition(Tip.lease, Renewed(Tip.lease, ttl, now))
    /\ Write(r, Renewed(Tip.lease, ttl, now))

Terminate(r, status, now) ==
    /\ lineage # << >>
    /\ MayTerminate(Tip.lease, status, now)
    /\ ValidTransition(Tip.lease, Terminated(Tip.lease, status, now))
    /\ Write(r, Terminated(Tip.lease, status, now))

-----------------------------------------------------------------------------
Go(r, step) == call' = [call EXCEPT ![r].at = step]
Tell(r, result) ==
    call' = [call EXCEPT ![r] = [at |-> "idle", commit |-> @.commit, result |-> result]]
Fault == faults < MaxFaults /\ faults' = faults + 1

\* git push exits with zero, or without: refused, or not reached, or done
\* with its answer lost.
PushAccepted(r) ==
    /\ At(r, "push") /\ Lands(call[r].commit)
    /\ Landed(call[r].commit)
    /\ Go(r, "verify")
    /\ UNCHANGED <<wire, calls, faults>>

PushRefused(r) ==
    /\ At(r, "push") /\ ~Lands(call[r].commit)
    /\ Go(r, "probe")
    /\ UNCHANGED <<lineage, wire, calls, faults>>

PushFailed(r) ==
    /\ At(r, "push") /\ Fault
    /\ \/ UNCHANGED lineage
       \/ Lands(call[r].commit) /\ Landed(call[r].commit)
    /\ Go(r, "probe")
    /\ UNCHANGED <<wire, calls>>

\* subprocess.run kills a push after 60 seconds and raises past the probe; or
\* the runner dies.  The remote may have the commit, get it later, or never.
PushAbandoned(r) ==
    /\ At(r, "push") /\ Fault
    /\ \E result \in {"timed_out", "none"} : Tell(r, result)
    /\ \/ UNCHANGED <<lineage, wire>>
       \/ Lands(call[r].commit) /\ Landed(call[r].commit) /\ UNCHANGED wire
       \/ wire' = wire \cup {call[r].commit} /\ UNCHANGED lineage
    /\ UNCHANGED calls

\* After a push that failed: ls-remote.
Probe(r) ==
    /\ At(r, "probe")
    /\ IF Observed(call[r].commit) THEN Go(r, "verify") ELSE Tell(r, "rejected")
    /\ UNCHANGED <<lineage, wire, calls, faults>>

\* The tip and the state are read again.  Every later read sees the commit as
\* the tip or a later one, so one step stands for both reads.
Verify(r) ==
    /\ At(r, "verify")
    /\ Tell(r, IF IsTip(call[r].commit) THEN "verified" ELSE "unverified")
    /\ UNCHANGED <<lineage, wire, calls, faults>>

\* A read that fails ends the call; so does the death of the runner.
ReadFailed(r) ==
    /\ Fault
    /\ \/ At(r, "probe") /\ Tell(r, "unknown")
       \/ At(r, "verify") /\ Tell(r, "unverified")
       \/ call[r].at \in {"probe", "verify"} /\ Tell(r, "none")
    /\ UNCHANGED <<lineage, wire, calls>>

\* A push whose client is gone reaches the remote.
Arrive(c) ==
    /\ wire' = wire \ {c}
    /\ IF Lands(c) THEN Landed(c) ELSE UNCHANGED lineage
    /\ UNCHANGED <<call, calls, faults>>

Next ==
    \/ \E r \in Runner :
          \/ \E ttl \in TTL, t \in Instant, now \in Instant : Acquire(r, ttl, t, now)
          \/ \E ttl \in TTL, now \in Instant : Renew(r, ttl, now)
          \/ \E status \in Terminal, now \in Instant : Terminate(r, status, now)
          \/ PushAccepted(r) \/ PushRefused(r) \/ PushFailed(r) \/ PushAbandoned(r)
          \/ Probe(r) \/ Verify(r) \/ ReadFailed(r)
    \/ \E c \in wire : Arrive(c)

Spec == Init /\ [][Next]_vars

-----------------------------------------------------------------------------
\* Properties.

TypeOK ==
    /\ lineage \in Seq(Commit) /\ wire \subseteq Commit
    /\ call \in [Runner -> [at: {"idle", "push", "probe", "verify"}, commit: Commit, result: Results]]
    /\ calls \in [Runner -> Nat] /\ faults \in Nat

OnRecord(c) == \E i \in 1..Len(lineage) : lineage[i] = c

Leases == [i \in 1..Len(lineage) |-> lineage[i].lease]
Chain == INSTANCE LeaseChain WITH Run <- Runner, chain <- Leases

\* "Existing active, expired, or terminal lineage is never silently replaced by
\* a fresh run": whatever runners race, and however late a push arrives, the
\* record is one chain of one run that follows the lease rules.
ImplementsLeaseChain == Chain!Spec

\* All the current-run authority sees of the record: who held the lease at each
\* commit, and whether the lease was running.
LeaseSeen(l) == [run |-> l.run, running |-> l.status = "RUNNING"]
LeasesSeen == [i \in 1..Len(lineage) |-> LeaseSeen(lineage[i].lease)]
RecordSeen == [m \in {"manifest"} |-> LeasesSeen]
Seen == INSTANCE RunLease WITH Manifest <- {"manifest"}, Run <- Runner, record <- RecordSeen

\* What CurrentRun takes for granted of a lease ref (RunLease) is true of this
\* one: one run, and nothing after the commit that ended it.
ImplementsRunLease == Seen!Spec

\* A runner that is told its write was committed, verified or not, wrote it:
\* no two runners are both told they acquired the lease.
CommittedIsWritten ==
    \A r \in Runner :
        call[r].result \in {"verified", "unverified"} => OnRecord(call[r].commit)

\* A runner whose commit is the tip is never told that it was rejected; one that
\* was told so and wrote after all has been overtaken by a later writer.
RejectedOnlyIfOvertaken ==
    \A r \in Runner : call[r].result = "rejected" => ~IsTip(call[r].commit)

\* "A successful remote mutation [...] is reported as committed-but-unverified,
\* never as a clean pre-write failure": a result with committed=false and
\* remote_write_outcome_unknown=false means that nothing was written.
CleanFailureMeansNoWrite ==
    \A r \in Runner :
        call[r].result \in {"timed_out", "rejected"} => ~OnRecord(call[r].commit)
=============================================================================
