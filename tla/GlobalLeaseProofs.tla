-------------------------- MODULE GlobalLeaseProofs --------------------------
(***************************************************************************)
(* The record of the global lease is one chain of one run, for every set   *)
(* of runners, every ttl, any number of operations, lost answers, deaths   *)
(* and late pushes; a runner told that its write was committed wrote it,   *)
(* and one told that it was refused is not the tip.                        *)
(*                                                                         *)
(* What lands was decided when its commit was made, so the invariant is    *)
(* about the commits still on their way: each is a lawful child of the     *)
(* entry it names, whatever has landed since (OnTheWay).  Entries are      *)
(* never replaced, so it stays one.  That a refused commit cannot become   *)
(* the tip later rests on no two commits being equal (Authored).           *)
(***************************************************************************)
EXTENDS GlobalLease, SequenceTheorems, TLAPS

\* c may follow the entry of record it names.
Lawful(record, c) ==
    /\ c \in Commit
    /\ c.parent \in 0..Len(record)
    /\ c.parent = 0 => Chain!Fresh(c.lease)
    /\ c.parent > 0 => Chain!Follows(record[c.parent].lease, c.lease)

OnTheWay ==
    /\ \A c \in wire : Lawful(lineage, c)
    /\ \A r \in Runner : At(r, "push") => Lawful(lineage, call[r].commit)

Recorded ==
    \A r \in Runner :
        /\ ~At(r, "idle") => call[r].result = "none"
        /\ At(r, "verify") => OnRecord(call[r].commit)

Authored ==
    /\ \A r \in Runner : call[r].commit.author = r /\ call[r].commit.nonce = calls[r]
    /\ \A c \in wire : c.nonce <= calls[c.author]
    /\ \A r \in Runner : call[r].commit \in wire =>
          At(r, "idle") /\ call[r].result \in {"none", "timed_out"}

IInv ==
    /\ TypeOK /\ OnTheWay /\ Recorded /\ Authored
    /\ CommittedIsWritten /\ RejectedOnlyIfOvertaken

\* The two things a step may do to the record.
Same == lineage' = lineage
Grows == \E c \in Commit : Lawful(lineage, c) /\ Lands(c) /\ Landed(c)

-----------------------------------------------------------------------------
LEMMA InitInv == Init => IInv
<1> SUFFICES ASSUME Init PROVE IInv
    OBVIOUS
<1>1. \A r \in Runner : Blank(r) \in Commit
    BY DEF Blank, Commit, Lease
<1>2. TypeOK
    BY <1>1 DEF Init, TypeOK, Results
<1>3. OnTheWay /\ Recorded
    BY DEF Init, OnTheWay, Recorded, At
<1>4. Authored
    BY DEF Init, Authored, Blank
<1>5. CommittedIsWritten /\ RejectedOnlyIfOvertaken
    BY DEF Init, CommittedIsWritten, RejectedOnlyIfOvertaken
<1> QED
    BY <1>2, <1>3, <1>4, <1>5 DEF IInv

-----------------------------------------------------------------------------
\* The record.

\* Append adds one entry at the end.
LEMMA Appended ==
    ASSUME NEW s \in Seq(Commit), NEW c \in Commit
    PROVE  /\ Append(s, c) \in Seq(Commit)
           /\ Len(Append(s, c)) = Len(s) + 1
           /\ Append(s, c)[Len(s) + 1] = c
           /\ \A i \in 1..Len(s) : Append(s, c)[i] = s[i]
OBVIOUS

\* A lawful commit stays lawful while the record grows.
LEMMA LawfulGrows ==
    ASSUME NEW s \in Seq(Commit), NEW c \in Commit, NEW d, Lawful(s, d)
    PROVE  Lawful(Append(s, c), d)
<1>1. /\ d.parent \in 0..Len(s)
      /\ d.parent \in 0..Len(Append(s, c))
      /\ d.parent > 0 => Append(s, c)[d.parent] = s[d.parent]
    BY Appended DEF Lawful, Commit
<1> QED
    BY <1>1 DEF Lawful

\* In both cases what was on record is, what was lawful is, and the tip is the
\* old one or the commit that landed.
LEMMA RecordKept ==
    ASSUME TypeOK, Same \/ Grows
    PROVE  /\ lineage' \in Seq(Commit)
           /\ \A c : OnRecord(c) => OnRecord(c)'
           /\ \A c : Lawful(lineage, c) => Lawful(lineage', c)
<1>1. CASE Same
    BY <1>1 DEF Same, TypeOK, OnRecord
<1>2. CASE Grows
  <2>1. PICK d \in Commit : lineage' = Append(lineage, d)
      BY <1>2 DEF Grows, Landed
  <2>2. lineage \in Seq(Commit)
      BY DEF TypeOK
  <2>3. lineage' \in Seq(Commit) /\ \A c : OnRecord(c) => OnRecord(c)'
      BY <2>1, <2>2, Appended DEF OnRecord
  <2>4. \A c : Lawful(lineage, c) => Lawful(lineage', c)
      BY <2>1, <2>2, LawfulGrows
  <2> QED
      BY <2>3, <2>4
<1> QED
    BY <1>1, <1>2
-----------------------------------------------------------------------------
\* The commits that are made.

LEMMA ChildType ==
    ASSUME TypeOK, NEW r \in Runner, NEW l \in Lease
    PROVE  /\ Child(r, l) \in Commit
           /\ Child(r, l).parent = Len(lineage) /\ Child(r, l).lease = l
           /\ Child(r, l).author = r /\ Child(r, l).nonce = calls[r] + 1
BY DEF TypeOK, Child, Commit

LEMMA AcquireLawful ==
    ASSUME TypeOK, NEW r \in Runner, NEW ttl \in TTL, NEW t \in Instant, NEW now \in Instant,
           Acquire(r, ttl, t, now)
    PROVE  Built(r, ttl, t) \in Lease /\ Lawful(lineage, Child(r, Built(r, ttl, t)))
<1> DEFINE l == Built(r, ttl, t)
<1>1. l \in Lease
    BY TTLAssumption, TimeAssumption DEF Built, Lease, Instant
<1>2. Chain!Fresh(l)
    BY DEF Acquire, Built, Valid, Chain!Fresh
<1>3. Len(lineage) = 0
    BY DEF Acquire
<1> QED
    BY <1>1, <1>2, <1>3, ChildType DEF Lawful

\* A lease that passes the transition check may follow the tip.
LEMMA FollowsTip ==
    ASSUME TypeOK, lineage # << >>, NEW r \in Runner, NEW l \in Lease,
           ValidTransition(Tip.lease, l)
    PROVE  Lawful(lineage, Child(r, l))
<1>1. Len(lineage) \in Nat \ {0} /\ Tip \in Commit
    BY DEF TypeOK, Tip
<1>2. Tip.lease \in Lease
    BY <1>1 DEF Commit
<1>3. Chain!Follows(Tip.lease, l)
    BY <1>2 DEF ValidTransition, Valid, Lease, Chain!Follows, Chain!SameGrant,
                Chain!Extends, Chain!Ends
<1> QED
    BY <1>1, <1>3, ChildType DEF Lawful, Tip

LEMMA RenewLawful ==
    ASSUME TypeOK, NEW r \in Runner, NEW ttl \in TTL, NEW now \in Instant, Renew(r, ttl, now)
    PROVE  /\ Renewed(Tip.lease, ttl, now) \in Lease
           /\ Lawful(lineage, Child(r, Renewed(Tip.lease, ttl, now)))
<1>1. Tip \in Commit
    BY DEF TypeOK, Tip, Renew
<1>2. Tip.lease \in Lease
    BY <1>1 DEF Commit
<1>3. now \in Nat /\ ttl \in Nat
    BY TTLAssumption, TimeAssumption DEF Instant
<1>4. Renewed(Tip.lease, ttl, now) \in Lease
  <2>1. now + ttl \in Nat /\ Tip.lease.sequence + 1 \in Nat
      BY <1>2, <1>3 DEF Lease
  <2> QED
      BY <1>2, <1>3, <2>1 DEF Renewed, Lease
<1> QED
    BY <1>4, FollowsTip DEF Renew

LEMMA TerminateLawful ==
    ASSUME TypeOK, NEW r \in Runner, NEW status \in Terminal, NEW now \in Instant,
           Terminate(r, status, now)
    PROVE  /\ Terminated(Tip.lease, status, now) \in Lease
           /\ Lawful(lineage, Child(r, Terminated(Tip.lease, status, now)))
<1>1. Tip \in Commit
    BY DEF TypeOK, Tip, Terminate
<1>2. Tip.lease \in Lease
    BY <1>1 DEF Commit
<1>3. now \in Nat
    BY TimeAssumption DEF Instant
<1>4. Terminated(Tip.lease, status, now) \in Lease
    BY <1>2, <1>3 DEF Terminated, Lease
<1> QED
    BY <1>4, FollowsTip DEF Terminate

-----------------------------------------------------------------------------
\* The steps.

LEMMA WriteKeeps ==
    ASSUME IInv, NEW r \in Runner, NEW l \in Lease, Lawful(lineage, Child(r, l)), Write(r, l)
    PROVE  IInv'
<1> USE DEF IInv
<1>1. Child(r, l) \in Commit /\ Child(r, l).author = r /\ Child(r, l).nonce = calls[r] + 1
    BY ChildType
<1>2. /\ call'[r] = [at |-> "push", result |-> "none", commit |-> Child(r, l)]
      /\ calls'[r] = calls[r] + 1 /\ calls[r] \in Nat
      /\ \A q \in Runner \ {r} : call'[q] = call[q] /\ calls'[q] = calls[q]
      /\ lineage' = lineage /\ wire' = wire
    BY DEF Write, TypeOK
<1>3. TypeOK'
    BY <1>1, <1>2 DEF Write, TypeOK, Results
<1>4. OnTheWay'
    BY <1>2 DEF OnTheWay, At
<1>5. Recorded'
    BY <1>2 DEF Recorded, At, OnRecord
<1>6. Authored'
  <2>1. \A q \in Runner : call'[q].commit.author = q /\ call'[q].commit.nonce = calls'[q]
      BY <1>1, <1>2 DEF Authored
  <2>2. \A c \in wire : c.nonce \in Nat /\ c.author \in Runner
      BY DEF TypeOK, Commit
  <2>3. \A c \in wire : c.nonce <= calls'[c.author]
      BY <1>2, <2>2 DEF Authored
  <2>4. Child(r, l) \notin wire
      BY <1>1, <1>2, <2>2 DEF Authored
  <2> QED
      BY <1>2, <2>1, <2>3, <2>4 DEF Authored, At
<1>7. CommittedIsWritten' /\ RejectedOnlyIfOvertaken'
    BY <1>2 DEF CommittedIsWritten, RejectedOnlyIfOvertaken, OnRecord, IsTip, Tip
<1> QED
    BY <1>3, <1>4, <1>5, <1>6, <1>7

\* A push of r's commit takes effect.
Takes(r) == At(r, "push") /\ Lands(call[r].commit) /\ Landed(call[r].commit)

LEMMA TakesGrows ==
    ASSUME IInv, NEW r \in Runner, Takes(r)
    PROVE  /\ Grows
           /\ \A c : c = call[r].commit => OnRecord(c)'
<1>1. call[r].commit \in Commit /\ lineage \in Seq(Commit) /\ Lawful(lineage, call[r].commit)
    BY DEF IInv, TypeOK, Takes, OnTheWay
<1>2. lineage' = Append(lineage, call[r].commit)
    BY DEF Takes, Landed
<1>3. Len(lineage) + 1 \in 1..Len(lineage') /\ lineage'[Len(lineage) + 1] = call[r].commit
    BY <1>1, <1>2, Appended
<1> QED
    BY <1>1, <1>3 DEF Grows, Takes, OnRecord

\* r's call goes on to another of its steps or returns a result.
Moves(r, at, result) ==
    /\ call' = [call EXCEPT ![r] = [at |-> at, commit |-> call[r].commit, result |-> result]]
    /\ calls' = calls /\ faults' \in Nat

LEMMA MoveKeeps ==
    ASSUME IInv, NEW r \in Runner,
           NEW at \in {"idle", "probe", "verify"}, NEW result \in Results,
           ~At(r, "idle"), Moves(r, at, result),
           at # "idle" => result = "none",
           Same \/ Takes(r),
           \/ wire' = wire
           \/ /\ At(r, "push") /\ at = "idle" /\ result \in {"none", "timed_out"}
              /\ wire' = wire \cup {call[r].commit},
           at = "verify" \/ result \in {"verified", "unverified"} =>
              \A c : c = call[r].commit => OnRecord(c)',
           result = "rejected" => Same /\ ~IsTip(call[r].commit)
    PROVE  IInv'
<1> USE DEF IInv
<1>1. /\ call'[r] = [at |-> at, commit |-> call[r].commit, result |-> result]
      /\ \A q \in Runner \ {r} : call'[q] = call[q]
      /\ \A q \in Runner : call'[q].commit = call[q].commit /\ call[q].commit \in Commit
    BY DEF Moves, TypeOK
<1>2. Same \/ Grows
    BY TakesGrows
<1>3. /\ lineage' \in Seq(Commit)
      /\ \A c : OnRecord(c) => OnRecord(c)'
      /\ \A c : Lawful(lineage, c) => Lawful(lineage', c)
    BY <1>2, RecordKept
<1>4. TypeOK'
    BY <1>1, <1>3 DEF Moves, TypeOK
<1>5. OnTheWay'
    BY <1>1, <1>3 DEF OnTheWay, At
<1>6. Recorded'
  <2> SUFFICES ASSUME NEW q \in Runner
               PROVE  /\ call'[q].at # "idle" => call'[q].result = "none"
                      /\ call'[q].at = "verify" =>
                            \A c : c = call'[q].commit => OnRecord(c)'
      BY DEF Recorded, At, OnRecord
  <2>1. CASE q = r
      BY <1>1, <2>1
  <2>2. CASE q # r
      BY <1>1, <1>3, <2>2 DEF Recorded, At
  <2> QED
      BY <2>1, <2>2
<1>7. Authored'
    BY <1>1 DEF Authored, At, Moves, TypeOK
<1>8. CommittedIsWritten'
  <2> SUFFICES ASSUME NEW q \in Runner, call'[q].result \in {"verified", "unverified"}
               PROVE  \A c : c = call'[q].commit => OnRecord(c)'
      BY DEF CommittedIsWritten, OnRecord
  <2>1. CASE q = r
      BY <1>1, <2>1
  <2>2. CASE q # r
      BY <1>1, <1>3, <2>2 DEF CommittedIsWritten
  <2> QED
      BY <2>1, <2>2
<1>9. RejectedOnlyIfOvertaken'
  <2> SUFFICES ASSUME NEW q \in Runner, call'[q].result = "rejected"
               PROVE  ~(lineage' # << >> /\ lineage'[Len(lineage')] = call[q].commit)
      BY <1>1 DEF RejectedOnlyIfOvertaken, IsTip, Tip
  <2>1. CASE Same
      BY <1>1, <2>1 DEF Same, RejectedOnlyIfOvertaken, IsTip, Tip
  <2>2. CASE Takes(r) /\ q # r
    <3>1. lineage'[Len(lineage')] = call[r].commit
        BY <1>1, <2>2, Appended DEF Takes, Landed, TypeOK
    <3> QED
        BY <2>2, <3>1 DEF Authored
  <2>3. CASE ~Same /\ q = r
      BY <1>1, <2>3
  <2> QED
      BY <2>1, <2>2, <2>3
<1> QED
    BY <1>4, <1>5, <1>6, <1>7, <1>8, <1>9

\* Each step of a call is such a move.
LEMMA CallSteps ==
    ASSUME IInv, NEW r \in Runner,
           \/ PushAccepted(r) \/ PushRefused(r) \/ PushFailed(r) \/ PushAbandoned(r)
           \/ Probe(r) \/ Verify(r) \/ ReadFailed(r)
    PROVE  IInv'
<1> USE DEF IInv
<1>1. ASSUME NEW at, Go(r, at)
      PROVE  call' = [call EXCEPT ![r] =
                        [at |-> at, commit |-> call[r].commit, result |-> call[r].result]]
  <2>1. call[r] = [at |-> call[r].at, commit |-> call[r].commit, result |-> call[r].result]
      BY DEF TypeOK
  <2>2. [call[r] EXCEPT !.at = at]
           = [at |-> at, commit |-> call[r].commit, result |-> call[r].result]
      BY <2>1
  <2> QED
      BY <1>1, <2>2 DEF Go
<1>2. ASSUME NEW result, Tell(r, result)
      PROVE  call' = [call EXCEPT ![r] =
                        [at |-> "idle", commit |-> call[r].commit, result |-> result]]
    BY <1>2 DEF Tell
<1>3. ~At(r, "idle") => call[r].result = "none"
    BY DEF Recorded
<1>4. faults \in Nat /\ (Fault => faults' \in Nat)
    BY DEF Fault, TypeOK
<1>5. IsTip(call[r].commit) => OnRecord(call[r].commit)
    BY DEF IsTip, Tip, OnRecord, TypeOK
<1>6. CASE PushAccepted(r)
    BY <1>1, <1>3, <1>4, <1>6, MoveKeeps, TakesGrows
       DEF PushAccepted, Takes, Moves, At, Results
<1>7. CASE PushRefused(r)
    BY <1>1, <1>3, <1>4, <1>7, MoveKeeps DEF PushRefused, Same, Moves, At, Results
<1>8. CASE PushFailed(r)
    BY <1>1, <1>3, <1>4, <1>8, MoveKeeps DEF PushFailed, Same, Takes, Moves, At, Results
<1>9. CASE PushAbandoned(r)
  <2>1. PICK result \in {"timed_out", "none"} : Tell(r, result)
      BY <1>9 DEF PushAbandoned
  <2> QED
      BY <1>2, <1>4, <1>9, <2>1, MoveKeeps DEF PushAbandoned, Same, Takes, Moves, At, Results
<1>10. CASE Probe(r)
  <2>1. CASE Observed(call[r].commit)
      BY <1>1, <1>3, <1>4, <1>5, <1>10, <2>1, MoveKeeps
         DEF Probe, Observed, Same, Moves, At, Results, OnRecord
  <2>2. CASE ~Observed(call[r].commit)
      BY <1>2, <1>4, <1>10, <2>2, MoveKeeps
         DEF Probe, Observed, Same, Moves, At, Results
  <2> QED
      BY <2>1, <2>2
<1>11. CASE Verify(r)
  <2>1. OnRecord(call[r].commit)
      BY <1>11 DEF Verify, Recorded
  <2>2. PICK result \in {"verified", "unverified"} : Tell(r, result)
      BY <1>11 DEF Verify
  <2> QED
      BY <1>2, <1>4, <1>11, <2>1, <2>2, MoveKeeps
         DEF Verify, Same, Moves, At, Results, OnRecord
<1>12. CASE ReadFailed(r)
  <2>1. At(r, "verify") => OnRecord(call[r].commit)
      BY DEF Recorded
  <2>2. PICK result \in {"unknown", "unverified", "none"} :
           Tell(r, result) /\ (result = "unverified" => At(r, "verify"))
      BY <1>12 DEF ReadFailed
  <2> QED
      BY <1>2, <1>4, <1>12, <2>1, <2>2, MoveKeeps
         DEF ReadFailed, Same, Moves, At, Results, OnRecord
<1> QED
    BY <1>6, <1>7, <1>8, <1>9, <1>10, <1>11, <1>12

\* A late push.
LEMMA ArriveKeeps ==
    ASSUME IInv, NEW c \in wire, Arrive(c)
    PROVE  (Same \/ Grows) /\ IInv'
<1> USE DEF IInv
<1>1. c \in Commit /\ Lawful(lineage, c)
    BY DEF TypeOK, OnTheWay
<1>2. Same \/ Grows
    BY <1>1 DEF Arrive, Same, Grows
<1>3. /\ lineage' \in Seq(Commit)
      /\ \A d : OnRecord(d) => OnRecord(d)'
      /\ \A d : Lawful(lineage, d) => Lawful(lineage', d)
    BY <1>2, RecordKept
<1>4. call' = call /\ calls' = calls /\ faults' = faults /\ wire' \subseteq wire
    BY DEF Arrive
<1>5. TypeOK'
    BY <1>3, <1>4 DEF TypeOK
<1>6. OnTheWay'
    BY <1>3, <1>4 DEF OnTheWay, At
<1>7. Recorded' /\ CommittedIsWritten'
    BY <1>3, <1>4 DEF Recorded, CommittedIsWritten, At, OnRecord
<1>8. Authored'
    BY <1>4 DEF Authored, At
<1>9. RejectedOnlyIfOvertaken'
  <2> SUFFICES ASSUME NEW r \in Runner, call[r].result = "rejected"
               PROVE  ~(lineage' # << >> /\ lineage'[Len(lineage')] = call[r].commit)
      BY <1>4 DEF RejectedOnlyIfOvertaken, IsTip, Tip
  <2>1. CASE Same
      BY <2>1 DEF Same, RejectedOnlyIfOvertaken, IsTip, Tip
  <2>2. CASE lineage' = Append(lineage, c)
    <3>1. lineage'[Len(lineage')] = c
        BY <1>1, <2>2, Appended DEF TypeOK
    <3> QED
        BY <3>1 DEF Authored
  <2> QED
      BY <2>1, <2>2 DEF Arrive, Landed, Same
<1> QED
    BY <1>2, <1>5, <1>6, <1>7, <1>8, <1>9

LEMMA NextKeeps ==
    ASSUME IInv, [Next]_vars
    PROVE  IInv'
<1>1. ASSUME NEW r \in Runner, NEW ttl \in TTL, NEW t \in Instant, NEW now \in Instant,
             Acquire(r, ttl, t, now)
      PROVE  IInv'
    BY <1>1, AcquireLawful, WriteKeeps DEF Acquire, IInv
<1>2. ASSUME NEW r \in Runner, NEW ttl \in TTL, NEW now \in Instant, Renew(r, ttl, now)
      PROVE  IInv'
    BY <1>2, RenewLawful, WriteKeeps DEF Renew, IInv
<1>3. ASSUME NEW r \in Runner, NEW status \in Terminal, NEW now \in Instant,
             Terminate(r, status, now)
      PROVE  IInv'
    BY <1>3, TerminateLawful, WriteKeeps DEF Terminate, IInv
<1>4. CASE UNCHANGED vars
    BY <1>4 DEF vars, IInv, TypeOK, OnTheWay, Recorded, Authored, CommittedIsWritten,
                RejectedOnlyIfOvertaken, OnRecord, IsTip, Tip, At
<1> QED
    BY <1>1, <1>2, <1>3, <1>4, CallSteps, ArriveKeeps DEF Next

THEOREM Invariant == Spec => []IInv
<1>1. Init => IInv
    BY InitInv
<1>2. IInv /\ [Next]_vars => IInv'
    BY NextKeeps
<1> QED
    BY <1>1, <1>2, PTL DEF Spec

\* Every state has its type.
THEOREM TypeCorrect == Spec => []TypeOK
BY Invariant, PTL DEF IInv

\* A runner that is told its write was committed wrote it.
THEOREM CommittedWasWritten == Spec => []CommittedIsWritten
BY Invariant, PTL DEF IInv

\* A runner that is told its write was rejected does not hold the tip.
THEOREM RejectedWasOvertaken == Spec => []RejectedOnlyIfOvertaken
BY Invariant, PTL DEF IInv

-----------------------------------------------------------------------------
\* The refinement.

LEMMA LeasesOf ==
    ASSUME NEW s \in Seq(Commit)
    PROVE  LET l == [i \in 1..Len(s) |-> s[i].lease]
           IN  /\ l \in Seq(Lease) /\ Len(l) = Len(s)
               /\ \A i \in 1..Len(s) : l[i] = s[i].lease
<1> DEFINE l == [i \in 1..Len(s) |-> s[i].lease]
<1>1. Len(s) \in Nat
    OBVIOUS
<1>2. \A i \in 1..Len(s) : s[i] \in Commit
    BY ElementOfSeq
<1>3. \A i \in 1..Len(s) : s[i].lease \in Lease
    BY <1>2 DEF Commit
<1>4. l \in Seq(Lease)
    BY <1>1, <1>3, IsASeq
<1>5. Len(l) = Len(s)
  <2>1. DOMAIN l = 1..Len(s) /\ DOMAIN l = 1..Len(l) /\ Len(l) \in Nat
      BY <1>4, LenProperties
  <2> QED
      BY <1>1, <2>1
<1> QED
    BY <1>4, <1>5

\* A record that grows by a lawful commit of its tip is a chain that grows.
LEMMA GrowsChain ==
    ASSUME TypeOK, TypeOK', Grows
    PROVE  Chain!Grow
<1>1. PICK c \in Commit : Lawful(lineage, c) /\ Lands(c) /\ lineage' = Append(lineage, c)
    BY DEF Grows, Landed
<1>2. lineage \in Seq(Commit) /\ Len(lineage) \in Nat
    BY DEF TypeOK
<1>3. /\ Len(lineage') = Len(lineage) + 1 /\ lineage'[Len(lineage) + 1] = c
      /\ \A i \in 1..Len(lineage) : lineage'[i] = lineage[i]
    BY <1>1, <1>2, Appended
<1>4. /\ Leases \in Seq(Lease) /\ Len(Leases) = Len(lineage)
      /\ \A i \in 1..Len(lineage) : Leases[i] = lineage[i].lease
    BY <1>2, LeasesOf DEF Leases
<1>5. /\ Len(Leases') = Len(lineage')
      /\ \A i \in 1..Len(lineage') : Leases'[i] = lineage'[i].lease
    BY LeasesOf DEF Leases, TypeOK
<1>6. \A i \in 1..Len(Leases) : Leases'[i] = Leases[i]
    BY <1>2, <1>3, <1>4, <1>5
<1>7. Leases'[Len(Leases')] = c.lease
    BY <1>2, <1>3, <1>5
<1>8. CASE Len(lineage) = 0
  <2>1. Leases = << >>
      BY <1>4, <1>8, EmptySeq
  <2>2. Chain!Fresh(c.lease) /\ Len(Leases') = 1
      BY <1>1, <1>3, <1>5, <1>8 DEF Lawful, Lands
  <2> QED
      BY <1>3, <1>4, <1>5, <1>6, <1>7, <2>1, <2>2 DEF Chain!Grow
<1>9. CASE Len(lineage) > 0
  <2>1. Leases # << >>
      BY <1>2, <1>4, <1>9, EmptySeq
  <2>2. Chain!Follows(Leases[Len(Leases)], c.lease)
      BY <1>1, <1>2, <1>4, <1>9 DEF Lawful, Lands
  <2> QED
      BY <1>2, <1>3, <1>4, <1>5, <1>6, <1>7, <2>1, <2>2 DEF Chain!Grow
<1> QED
    BY <1>2, <1>8, <1>9

\* Only a push that takes effect, at once or late, changes the record.
LEMMA StepGrows ==
    ASSUME IInv, Next
    PROVE  Same \/ Grows
<1>1. ASSUME NEW r \in Runner,
             \/ \E ttl \in TTL, t \in Instant, now \in Instant : Acquire(r, ttl, t, now)
             \/ \E ttl \in TTL, now \in Instant : Renew(r, ttl, now)
             \/ \E status \in Terminal, now \in Instant : Terminate(r, status, now)
      PROVE  Same
    BY <1>1 DEF Acquire, Renew, Terminate, Write, Same
<1>2. ASSUME NEW r \in Runner,
             PushRefused(r) \/ Probe(r) \/ Verify(r) \/ ReadFailed(r)
      PROVE  Same
    BY <1>2 DEF PushRefused, Probe, Verify, ReadFailed, Same
<1>3. ASSUME NEW r \in Runner, PushAccepted(r) \/ PushFailed(r) \/ PushAbandoned(r)
      PROVE  Same \/ Takes(r)
    BY <1>3 DEF PushAccepted, PushFailed, PushAbandoned, Same, Takes
<1> QED
    BY <1>1, <1>2, <1>3, TakesGrows, ArriveKeeps DEF Next

\* Whatever runners race and however late a push arrives, the record is one
\* chain of one run that follows the lease rules.
THEOREM Refinement == Spec => ImplementsLeaseChain
<1>1. Init => Chain!Init
  <2> SUFFICES ASSUME Init PROVE Leases = << >>
      BY DEF Chain!Init
  <2>1. lineage = << >> /\ lineage \in Seq(Commit)
      BY DEF Init
  <2>2. Leases \in Seq(Lease) /\ Len(Leases) = 0
      BY <2>1, LeasesOf DEF Leases
  <2> QED
      BY <2>2, EmptySeq
<1>2. IInv /\ IInv' /\ [Next]_vars => [Chain!Grow]_Leases
  <2> SUFFICES ASSUME IInv, IInv', [Next]_vars PROVE [Chain!Grow]_Leases
      OBVIOUS
  <2>1. CASE UNCHANGED vars
      BY <2>1 DEF vars, Leases
  <2>2. CASE Next
    <3>1. CASE Same
        BY <3>1 DEF Same, Leases
    <3>2. CASE Grows
        BY <3>2, GrowsChain DEF IInv
    <3> QED
        BY <2>2, <3>1, <3>2, StepGrows
  <2> QED
      BY <2>1, <2>2
<1> QED
    BY <1>1, <1>2, Invariant, PTL DEF Spec, ImplementsLeaseChain, Chain!Spec

-----------------------------------------------------------------------------
\* The record as the current-run authority sees it.

\* An appended commit is an appended sighting.
LEMMA SeenAppends ==
    ASSUME NEW c \in Commit, TypeOK, TypeOK', lineage' = Append(lineage, c)
    PROVE  LeasesSeen' = Append(LeasesSeen, LeaseSeen(c.lease))
<1>1. lineage \in Seq(Commit) /\ lineage' \in Seq(Commit) /\ Len(lineage) \in Nat
    BY DEF TypeOK
<1>2. /\ Len(lineage') = Len(lineage) + 1 /\ lineage'[Len(lineage) + 1] = c
      /\ \A i \in 1..Len(lineage) : lineage'[i] = lineage[i]
    BY <1>1, Appended
<1> DEFINE seen == LeaseSeen(c.lease)
           Sight == [run: Runner, running: BOOLEAN]
<1>3. /\ \A i \in 1..Len(lineage) : LeaseSeen(lineage[i].lease) \in Sight
      /\ seen \in Sight
  <2>1. \A i \in 1..Len(lineage) : lineage[i] \in Commit
      BY <1>1, ElementOfSeq
  <2> QED
      BY <2>1 DEF Commit, Lease, LeaseSeen
<1>4. LeasesSeen \in Seq(Sight)
    BY <1>1, <1>3, IsASeq DEF LeasesSeen
<1>5. Len(LeasesSeen) = Len(lineage)
  <2>1. DOMAIN LeasesSeen = 1..Len(lineage) /\ DOMAIN LeasesSeen = 1..Len(LeasesSeen)
      BY <1>4, LenProperties DEF LeasesSeen
  <2> QED
      BY <1>1, <1>4, <2>1, LenProperties
<1> HIDE DEF seen, Sight
<1>6. /\ Append(LeasesSeen, seen) \in Seq(Sight)
      /\ Len(Append(LeasesSeen, seen)) = Len(lineage) + 1
      /\ Append(LeasesSeen, seen)[Len(lineage) + 1] = seen
      /\ \A i \in 1..Len(lineage) : Append(LeasesSeen, seen)[i] = LeasesSeen[i]
    BY <1>3, <1>4, <1>5, AppendProperties
<1>7. LeasesSeen' = [i \in 1..(Len(lineage) + 1) |-> LeaseSeen(lineage'[i].lease)]
    BY <1>2 DEF LeasesSeen, LeaseSeen
<1>8. \A i \in 1..(Len(lineage) + 1) : LeaseSeen(lineage'[i].lease) = Append(LeasesSeen, seen)[i]
  <2> SUFFICES ASSUME NEW i \in 1..(Len(lineage) + 1)
               PROVE  LeaseSeen(lineage'[i].lease) = Append(LeasesSeen, seen)[i]
      OBVIOUS
  <2>1. CASE i = Len(lineage) + 1
      BY <1>2, <1>6, <2>1 DEF seen
  <2>2. CASE i \in 1..Len(lineage)
      BY <1>2, <1>6, <2>2 DEF LeasesSeen
  <2>3. i = Len(lineage) + 1 \/ i \in 1..Len(lineage)
      BY <1>1
  <2> QED
      BY <2>1, <2>2, <2>3
<1>9. Append(LeasesSeen, seen) = [i \in 1..(Len(lineage) + 1) |-> Append(LeasesSeen, seen)[i]]
    BY <1>6, LenProperties
<1> QED
    BY <1>7, <1>8, <1>9 DEF seen

\* A record that grows by a lawful commit of its tip shows the authority a run
\* that took a free manifest, or the same run once more.
LEMMA GrowsSeen ==
    ASSUME TypeOK, TypeOK', Grows
    PROVE  Seen!Next
<1>1. PICK c \in Commit : Lawful(lineage, c) /\ Lands(c) /\ lineage' = Append(lineage, c)
    BY DEF Grows, Landed
<1>2. lineage \in Seq(Commit) /\ Len(lineage) \in Nat
    BY DEF TypeOK
<1> DEFINE n == Len(lineage)
           old == lineage[n].lease
<1>3. RecordSeen' = [RecordSeen EXCEPT !["manifest"] = Append(@, LeaseSeen(c.lease))]
    BY <1>1, SeenAppends DEF RecordSeen
<1>4. Seen!Add("manifest", LeaseSeen(c.lease))
    BY <1>3 DEF Seen!Add
<1>5. /\ RecordSeen["manifest"] = LeasesSeen
      /\ LeasesSeen \in Seq([run: Runner, running: BOOLEAN]) /\ Len(LeasesSeen) = n
      /\ \A i \in 1..n : LeasesSeen[i] = LeaseSeen(lineage[i].lease)
  <2>1. \A i \in 1..n : LeaseSeen(lineage[i].lease) \in [run: Runner, running: BOOLEAN]
    <3>1. \A i \in 1..n : lineage[i] \in Commit
        BY <1>2, ElementOfSeq
    <3> QED
        BY <3>1 DEF Commit, Lease, LeaseSeen
  <2>2. LeasesSeen \in Seq([run: Runner, running: BOOLEAN])
      BY <1>2, <2>1, IsASeq DEF LeasesSeen
  <2>3. DOMAIN LeasesSeen = 1..n /\ DOMAIN LeasesSeen = 1..Len(LeasesSeen)
      BY <2>2, LenProperties DEF LeasesSeen
  <2> QED
      BY <1>2, <2>2, <2>3, LenProperties DEF LeasesSeen, RecordSeen
<1>6. CASE n = 0
  <2>1. RecordSeen["manifest"] = << >>
      BY <1>5, <1>6, EmptySeq
  <2>2. c.lease.run \in Runner /\ LeaseSeen(c.lease) = [run |-> c.lease.run, running |-> TRUE]
      BY <1>1, <1>6 DEF Lawful, Lands, Chain!Fresh, LeaseSeen
  <2>3. Seen!Acquire("manifest", c.lease.run)
      BY <1>4, <2>1, <2>2 DEF Seen!Acquire
  <2> QED
      BY <2>2, <2>3 DEF Seen!Next
<1>7. CASE n > 0
  <2>1. Chain!Follows(old, c.lease)
      BY <1>1, <1>2, <1>7 DEF Lawful, Lands
  <2>2. old.status = "RUNNING" /\ c.lease.run = old.run
      BY <2>1 DEF Chain!Follows, Chain!SameGrant
  <2>3. LeasesSeen[n] = [run |-> old.run, running |-> TRUE]
    <3>1. n \in 1..n
        BY <1>2, <1>7
    <3>2. LeasesSeen[n] = LeaseSeen(old)
        BY <1>5, <3>1
    <3>3. LeaseSeen(old) = [run |-> old.run, running |-> TRUE]
        BY <2>2 DEF LeaseSeen
    <3> QED
        BY <3>2, <3>3
  <2>4. Seen!Running("manifest")
      BY <1>2, <1>5, <1>7, <2>3, EmptySeq DEF Seen!Running
  <2>5. LeaseSeen(c.lease) = [run |-> LeasesSeen[n].run, running |-> c.lease.status = "RUNNING"]
      BY <2>2, <2>3 DEF LeaseSeen
  <2>6. Seen!Follow("manifest", c.lease.status = "RUNNING")
      BY <1>4, <1>5, <2>4, <2>5 DEF Seen!Follow
  <2>7. (c.lease.status = "RUNNING") \in BOOLEAN
      OBVIOUS
  <2> QED
      BY <2>6, <2>7 DEF Seen!Next
<1> QED
    BY <1>2, <1>6, <1>7

\* What the current-run authority takes for granted of a lease ref is true of
\* this one: one run ever holds it, and nothing follows the commit that ends it.
THEOREM RunLeaseRefinement == Spec => ImplementsRunLease
<1>1. Init => Seen!Init
  <2> SUFFICES ASSUME Init PROVE LeasesSeen = << >>
      BY DEF Seen!Init, RecordSeen
  <2>1. lineage = << >> /\ Len(lineage) = 0
      BY DEF Init
  <2>2. LeasesSeen = [i \in 1..0 |-> LeaseSeen(lineage[i].lease)]
      BY <2>1 DEF LeasesSeen
  <2>3. LeasesSeen \in Seq(Nat) /\ Len(LeasesSeen) = 0
    <3>1. LeasesSeen \in Seq(Nat)
        BY <2>2, IsASeq
    <3>2. DOMAIN LeasesSeen = 1..0 /\ DOMAIN LeasesSeen = 1..Len(LeasesSeen)
        BY <2>2, <3>1, LenProperties
    <3> QED
        BY <3>1, <3>2, LenProperties
  <2> QED
      BY <2>3, EmptySeq
<1>2. IInv /\ IInv' /\ [Next]_vars => [Seen!Next]_RecordSeen
  <2> SUFFICES ASSUME IInv, IInv', [Next]_vars PROVE [Seen!Next]_RecordSeen
      OBVIOUS
  <2>1. CASE UNCHANGED vars
      BY <2>1 DEF vars, RecordSeen, LeasesSeen
  <2>2. CASE Next
    <3>1. CASE Same
        BY <3>1 DEF Same, RecordSeen, LeasesSeen
    <3>2. CASE Grows
        BY <3>2, GrowsSeen DEF IInv
    <3> QED
        BY <2>2, <3>1, <3>2, StepGrows
  <2> QED
      BY <2>1, <2>2
<1> QED
    BY <1>1, <1>2, Invariant, PTL DEF Spec, ImplementsRunLease, Seen!Spec
=============================================================================
