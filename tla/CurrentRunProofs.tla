--------------------------- MODULE CurrentRunProofs ---------------------------
(***************************************************************************)
(* The pointer of the current run follows the leases of its runs, for      *)
(* every number of clients, manifests and runs, however long the leases    *)
(* and the history of the pointer become.                                  *)
(*                                                                         *)
(* As in GlobalLease, what lands was decided when its commit was made, so  *)
(* the invariant is about commits still being made or on their way: their  *)
(* lease was held, and is no older than any the history had up to their    *)
(* parent (Drafted); and they may follow that parent (Follows).  Both      *)
(* records only grow, so they stay so.                                     *)
(***************************************************************************)
EXTENDS CurrentRun, SequenceTheorems, TLAPS

LeaseRecord == [Manifest -> Seq(Leases!Lease)]

\* p binds a lease on record that its run held.
Binds(leases, p) ==
    /\ p.tip \in 1..Len(leases[p.manifest])
    /\ leases[p.manifest][p.tip] = [run |-> p.run, running |-> TRUE]

\* No lease that p's ancestors bind is newer than p's.
Newest(history, p) ==
    \A i \in 1..p.parent : history[i].manifest = p.manifest => history[i].tip <= p.tip

Drafted(leases, history, p) ==
    /\ p \in Commit
    /\ p.parent \in 0..Len(history)
    /\ Binds(leases, p)
    /\ Newest(history, p)

Follows(history, p) ==
    /\ p.parent = 0 => Selection!First(Selected(p))
    /\ p.parent > 0 =>
          LET old == Selected(history[p.parent])
              new == Selected(p)
          IN Selection!Refreshes(old, new) \/ Selection!Retires(old, new)
                \/ Selection!Reselects(old, new)

\* What refresh starts from: the pointer it read.
Copies(history, p) ==
    /\ p.parent > 0 /\ p.status = "ACTIVE"
    /\ Selected(p) = Selected(history[p.parent])

\* The lease that p binds was followed by another.
Overtaken(leases, p) == p.tip < Len(leases[p.manifest])

CallOK(leases, history, k) ==
    /\ k.at \in {"pointer", "lease", "push"} => Drafted(leases, history, k.commit)
    /\ k.at = "pointer" => k.commit.status = "ACTIVE"
    /\ k.at = "lease" => Copies(history, k.commit)
    /\ k.at = "push" => Follows(history, k.commit)
    /\ k.at = "bind" =>
          /\ k.seen \in 1..Len(history)
          /\ k.held \/ Overtaken(leases, history[k.seen])
    /\ k.result = "active" => k.held

CallsOK == \A c \in Client : CallOK(record, pointers, call[c])
WireOK == \A p \in wire : Drafted(record, pointers, p) /\ Follows(pointers, p)
History ==
    /\ \A i \in 1..Len(pointers) : Binds(record, pointers[i])
    /\ LeaseNeverGoesBack

IInv == TypeOK /\ CallsOK /\ WireOK /\ History

-----------------------------------------------------------------------------
\* Both records grow.

Grown(leases, history, leases2, history2) ==
    /\ leases2 \in LeaseRecord /\ history2 \in Seq(Commit)
    /\ Len(history) <= Len(history2)
    /\ \A i \in 1..Len(history) : history2[i] = history[i]
    /\ \A m \in Manifest :
          /\ Len(leases[m]) <= Len(leases2[m])
          /\ \A i \in 1..Len(leases[m]) : leases2[m][i] = leases[m][i]

Lawful(p) == Drafted(record, pointers, p) /\ Follows(pointers, p)

\* The two things a step may do to the pointer's history.
Same == pointers' = pointers
Grows == \E p \in Commit : Lawful(p) /\ Lands(p) /\ Landed(p)

LEMMA Appended ==
    ASSUME NEW S, NEW s \in Seq(S), NEW e \in S
    PROVE  /\ Append(s, e) \in Seq(S)
           /\ Len(Append(s, e)) = Len(s) + 1
           /\ Append(s, e)[Len(s) + 1] = e
           /\ \A i \in 1..Len(s) : Append(s, e)[i] = s[i]
  OBVIOUS

LEMMA LeasesGrow ==
    ASSUME TypeOK, Leases!Next
    PROVE  Grown(record, pointers, record', pointers)
  <1>1. PICK m \in Manifest, l \in Leases!Lease : Leases!Add(m, l)
    <2>1. ASSUME NEW m \in Manifest, NEW r \in Run, Leases!Acquire(m, r)
          PROVE  \E l \in Leases!Lease : Leases!Add(m, l)
      <3>1. [run |-> r, running |-> TRUE] \in Leases!Lease
        BY DEF Leases!Lease
      <3> QED BY <2>1, <3>1 DEF Leases!Acquire
    <2>2. ASSUME NEW m \in Manifest, NEW running \in BOOLEAN, Leases!Follow(m, running)
          PROVE  \E l \in Leases!Lease : Leases!Add(m, l)
      <3>1. record[m] \in Seq(Leases!Lease) /\ Len(record[m]) \in 1..Len(record[m])
        BY <2>2 DEF TypeOK, Leases!Follow, Leases!Running
      <3>2. record[m][Len(record[m])] \in Leases!Lease
        BY <3>1
      <3>3. [run |-> record[m][Len(record[m])].run, running |-> running] \in Leases!Lease
        BY <3>2 DEF Leases!Lease
      <3> QED BY <2>2, <3>3 DEF Leases!Follow
    <2> QED BY <2>1, <2>2 DEF Leases!Next
  <1>2. record \in LeaseRecord /\ pointers \in Seq(Commit)
    BY DEF TypeOK, LeaseRecord
  <1>3. record' = [record EXCEPT ![m] = Append(record[m], l)]
    BY <1>1 DEF Leases!Add
  <1>4. /\ Append(record[m], l) \in Seq(Leases!Lease)
        /\ Len(Append(record[m], l)) = Len(record[m]) + 1
        /\ \A i \in 1..Len(record[m]) : Append(record[m], l)[i] = record[m][i]
    BY <1>2, Appended DEF LeaseRecord
  <1> DEFINE longer == Append(record[m], l)
  <1> HIDE DEF longer
  <1>5. record' \in LeaseRecord
    BY <1>2, <1>3, <1>4 DEF LeaseRecord
  <1>6. \A n \in Manifest : /\ Len(record[n]) \in Nat
                            /\ record'[n] = IF n = m THEN Append(record[m], l) ELSE record[n]
    BY <1>2, <1>3 DEF LeaseRecord
  <1>7. \A n \in Manifest :
          /\ Len(record[n]) <= Len(record'[n])
          /\ \A i \in 1..Len(record[n]) : record'[n][i] = record[n][i]
    <2> SUFFICES ASSUME NEW n \in Manifest
                 PROVE  /\ Len(record[n]) <= Len(record'[n])
                        /\ \A i \in 1..Len(record[n]) : record'[n][i] = record[n][i]
      OBVIOUS
    <2>1. CASE n = m
      <3>1. record'[n] = Append(record[m], l)
        BY <2>1, <1>6
      <3> QED BY <2>1, <3>1, <1>4, <1>6
    <2>2. CASE n # m
      <3>1. record'[n] = record[n]
        BY <2>2, <1>6
      <3> QED BY <3>1, <1>6
    <2> QED BY <2>1, <2>2
  <1>8. Len(pointers) \in Nat
    BY <1>2
  <1> QED BY <1>2, <1>5, <1>7, <1>8 DEF Grown

LEMMA PointersGrow ==
    ASSUME TypeOK, record' = record, Same \/ Grows
    PROVE  Grown(record, pointers, record', pointers')
  <1>1. record \in LeaseRecord /\ pointers \in Seq(Commit) /\ Len(pointers) \in Nat
    BY DEF TypeOK, LeaseRecord
  <1>2. \A m \in Manifest : Len(record[m]) \in Nat
    BY <1>1 DEF LeaseRecord
  <1>3. CASE Same
    BY <1>1, <1>2, <1>3 DEF Same, Grown
  <1>4. CASE Grows
    <2>1. PICK p \in Commit : pointers' = Append(pointers, p)
      BY <1>4 DEF Grows, Landed
    <2>2. /\ pointers' \in Seq(Commit) /\ Len(pointers') = Len(pointers) + 1
          /\ \A i \in 1..Len(pointers) : pointers'[i] = pointers[i]
      BY <1>1, <2>1, Appended
    <2> QED BY <1>1, <1>2, <2>2 DEF Grown
  <1> QED BY <1>3, <1>4

\* What was drafted or lawful, or copied, or overtaken, stays so.
LEMMA Keeps ==
    ASSUME NEW r \in LeaseRecord, NEW h \in Seq(Commit), NEW r2, NEW h2, Grown(r, h, r2, h2)
    PROVE  /\ \A p \in Commit : Binds(r, p) => Binds(r2, p)
           /\ \A p \in Commit : Overtaken(r, p) => Overtaken(r2, p)
           /\ \A p : Drafted(r, h, p) => Drafted(r2, h2, p)
           /\ \A p : Drafted(r, h, p) /\ Follows(h, p) => Follows(h2, p)
           /\ \A p : Drafted(r, h, p) /\ Copies(h, p) => Copies(h2, p)
           /\ \A k : CallOK(r, h, k) => CallOK(r2, h2, k)
  <1>1. /\ r2 \in LeaseRecord /\ h2 \in Seq(Commit)
        /\ Len(h) \in Nat /\ Len(h2) \in Nat /\ Len(h) <= Len(h2)
        /\ \A i \in 1..Len(h) : h2[i] = h[i] /\ h[i] \in Commit
    BY DEF Grown
  <1>2. \A m \in Manifest :
          /\ Len(r[m]) \in Nat /\ Len(r2[m]) \in Nat /\ Len(r[m]) <= Len(r2[m])
          /\ \A i \in 1..Len(r[m]) : r2[m][i] = r[m][i]
    BY <1>1 DEF Grown, LeaseRecord
  <1>3. \A p \in Commit : p.manifest \in Manifest /\ p.tip \in Nat /\ p.parent \in Nat
    BY DEF Commit
  <1>4. \A p \in Commit : Binds(r, p) => Binds(r2, p)
    BY <1>2, <1>3 DEF Binds
  <1>5. \A p \in Commit : Overtaken(r, p) => Overtaken(r2, p)
    BY <1>2, <1>3 DEF Overtaken
  <1>6. \A p : Drafted(r, h, p) =>
          /\ p \in Commit /\ p.parent \in 0..Len(h)
          /\ \A i \in 1..p.parent : h2[i] = h[i]
    BY <1>1, <1>3 DEF Drafted
  <1>7. \A p : Drafted(r, h, p) => Newest(h2, p) /\ p.parent \in 0..Len(h2)
    BY <1>1, <1>6 DEF Drafted, Newest
  <1>8. \A p : Drafted(r, h, p) => Drafted(r2, h2, p)
    BY <1>4, <1>6, <1>7 DEF Drafted
  <1>9. \A p : Drafted(r, h, p) /\ p.parent > 0 => h2[p.parent] = h[p.parent]
    BY <1>6
  <1>10. \A p : Drafted(r, h, p) /\ Follows(h, p) => Follows(h2, p)
    BY <1>9 DEF Follows
  <1>11. \A p : Drafted(r, h, p) /\ Copies(h, p) => Copies(h2, p)
    BY <1>9 DEF Copies
  <1>12. \A k : CallOK(r, h, k) => CallOK(r2, h2, k)
    <2> SUFFICES ASSUME NEW k, CallOK(r, h, k) PROVE CallOK(r2, h2, k)
      OBVIOUS
    <2>1. k.at \in {"pointer", "lease", "push"} =>
            Drafted(r, h, k.commit) /\ Drafted(r2, h2, k.commit)
      BY <1>8 DEF CallOK
    <2>2. /\ k.at = "lease" => Copies(h2, k.commit)
          /\ k.at = "push" => Follows(h2, k.commit)
      BY <2>1, <1>10, <1>11 DEF CallOK
    <2>3. k.at = "bind" =>
            /\ k.seen \in 1..Len(h2)
            /\ k.held \/ Overtaken(r2, h2[k.seen])
      BY <1>1, <1>5 DEF CallOK
    <2> QED BY <2>1, <2>2, <2>3 DEF CallOK
  <1> QED BY <1>4, <1>5, <1>8, <1>10, <1>11, <1>12

\* The history of the pointer binds leases that were held, in their order.
LEMMA HistoryKept ==
    ASSUME IInv, Grown(record, pointers, record', pointers'), Same \/ Grows
    PROVE  History'
  <1>1. /\ record \in LeaseRecord /\ pointers \in Seq(Commit) /\ Len(pointers) \in Nat
        /\ \A i \in 1..Len(pointers) : pointers[i] \in Commit
        /\ \A i \in 1..Len(pointers) : Binds(record, pointers[i])
        /\ LeaseNeverGoesBack
    BY DEF IInv, TypeOK, LeaseRecord, History
  <1>2. \A p \in Commit : Binds(record, p) => Binds(record', p)
    BY <1>1, Keeps
  <1>3. CASE Same
    BY <1>1, <1>2, <1>3 DEF Same, History, LeaseNeverGoesBack
  <1>4. CASE Grows
    <2>1. PICK p \in Commit : Lawful(p) /\ Lands(p) /\ pointers' = Append(pointers, p)
      BY <1>4 DEF Grows, Landed
    <2>2. /\ Len(pointers') = Len(pointers) + 1 /\ pointers'[Len(pointers) + 1] = p
          /\ \A i \in 1..Len(pointers) : pointers'[i] = pointers[i]
      BY <1>1, <2>1, Appended
    <2>3. Binds(record, p) /\ Newest(pointers, p) /\ p.parent = Len(pointers)
      BY <2>1 DEF Lawful, Drafted, Lands
    <2>4. \A i \in 1..Len(pointers') : Binds(record', pointers'[i])
      BY <1>1, <1>2, <2>2, <2>3
    <2>5. LeaseNeverGoesBack'
      <3> SUFFICES ASSUME NEW i \in 1..Len(pointers'), NEW j \in 1..Len(pointers'), i < j,
                          pointers'[i].manifest = pointers'[j].manifest
                   PROVE  pointers'[i].tip <= pointers'[j].tip
        BY DEF LeaseNeverGoesBack
      <3>1. CASE j = Len(pointers) + 1
        BY <3>1, <1>1, <2>2, <2>3 DEF Newest
      <3>2. CASE j # Len(pointers) + 1
        BY <3>2, <1>1, <2>2 DEF LeaseNeverGoesBack
      <3> QED BY <3>1, <3>2
    <2> QED BY <2>4, <2>5 DEF History
  <1> QED BY <1>3, <1>4

\* What is left for an action to show: about the call it goes on with.
LEMMA Preserves ==
    ASSUME IInv, Same \/ Grows, record' = record \/ (Leases!Next /\ Same),
           call' \in [Client -> Call], calls' \in [Client -> Nat], faults' \in Nat,
           \A c \in Client : call'[c] = call[c] \/ CallOK(record', pointers', call'[c]),
           \A p \in wire' : p \in wire \/ Lawful(p)
    PROVE  IInv'
  <1>1. /\ record \in LeaseRecord /\ pointers \in Seq(Commit) /\ wire \subseteq Commit
        /\ CallsOK /\ WireOK
    BY DEF IInv, TypeOK, LeaseRecord
  <1>2. Grown(record, pointers, record', pointers')
    BY PointersGrow, LeasesGrow DEF IInv, Same
  <1>3. History'
    BY <1>2, HistoryKept
  <1>4. /\ \A p : Drafted(record, pointers, p) => Drafted(record', pointers', p)
        /\ \A p : Drafted(record, pointers, p) /\ Follows(pointers, p) => Follows(pointers', p)
        /\ \A k : CallOK(record, pointers, k) => CallOK(record', pointers', k)
    BY <1>1, <1>2, Keeps
  <1>5. CallsOK'
    BY <1>1, <1>4 DEF CallsOK
  <1>6. \A p \in wire' : Lawful(p)
    BY <1>1 DEF WireOK, Lawful
  <1>7. WireOK' /\ wire' \subseteq Commit
    BY <1>4, <1>6 DEF WireOK, Lawful, Drafted
  <1>8. TypeOK'
    BY <1>2, <1>7 DEF TypeOK, Grown, LeaseRecord
  <1> QED BY <1>3, <1>5, <1>7, <1>8 DEF IInv

-----------------------------------------------------------------------------
LEMMA InitInv == Init => IInv
  <1> SUFFICES ASSUME Init PROVE IInv
    OBVIOUS
  <1>1. TypeOK
    BY DEF Init, TypeOK, Leases!Init, Call, Steps, NoCommit, Results
  <1>2. CallsOK
    BY DEF Init, CallsOK, CallOK
  <1>3. WireOK /\ History
    BY DEF Init, WireOK, History, LeaseNeverGoesBack
  <1> QED BY <1>1, <1>2, <1>3 DEF IInv

-----------------------------------------------------------------------------
\* What the state says of a call that is somewhere.

LEMMA Facts ==
    ASSUME IInv
    PROVE  /\ record \in LeaseRecord /\ pointers \in Seq(Commit) /\ wire \subseteq Commit
           /\ Len(pointers) \in Nat
           /\ \A i \in 1..Len(pointers) : pointers[i] \in Commit /\ Binds(record, pointers[i])
           /\ call \in [Client -> Call] /\ calls \in [Client -> Nat] /\ faults \in Nat
           /\ \A m \in Manifest :
                 /\ record[m] \in Seq(Leases!Lease) /\ Len(record[m]) \in Nat
                 /\ \A i \in 1..Len(record[m]) : record[m][i] \in Leases!Lease
           /\ \A c \in Client : CallOK(record, pointers, call[c])
           /\ pointers # << >> => Len(pointers) > 0 /\ Tip \in Commit
  <1>1. pointers # << >> => Len(pointers) > 0
    BY DEF IInv, TypeOK
  <1> QED BY <1>1 DEF IInv, TypeOK, LeaseRecord, History, CallsOK, Tip

\* A call that goes on changes nothing but itself: it must leave k fit.
LEMMA CallGoes ==
    ASSUME IInv, NEW c \in Client, NEW k \in Call, call' = [call EXCEPT ![c] = k],
           CallOK(record, pointers, k),
           UNCHANGED <<record, pointers, wire>>,
           calls' \in [Client -> Nat], faults' \in Nat
    PROVE  IInv'
  <1>1. /\ call' \in [Client -> Call]
        /\ \A d \in Client : call'[d] = call[d] \/ call'[d] = k
    BY Facts
  <1>2. \A d \in Client : call'[d] = call[d] \/ CallOK(record', pointers', call'[d])
    BY <1>1
  <1> QED BY <1>1, <1>2, Preserves DEF Same

\* Nothing is asked of a call at these steps, unless it says active.
Unwatched == {"idle", "accepted", "failed", "inspect"}

LEMMA Free ==
    ASSUME NEW r, NEW h, NEW k, k.at \in Unwatched, k.result = "active" => k.held
    PROVE  CallOK(r, h, k)
  BY DEF CallOK, Unwatched

\* So a call may get there with any result but that one.
LEMMA Told ==
    ASSUME IInv, NEW c \in Client, NEW step \in Unwatched, NEW result \in Results,
           result = "active" => call[c].held,
           call' = [call EXCEPT ![c].at = step, ![c].result = result],
           UNCHANGED <<record, pointers, wire>>,
           calls' \in [Client -> Nat], faults' \in Nat
    PROVE  IInv'
  <1> DEFINE k == [call[c] EXCEPT !.at = step, !.result = result]
  <1>1. call[c] \in Call
    BY Facts
  <1>2. k \in Call /\ k.at = step /\ k.result = result /\ k.held = call[c].held
    BY <1>1 DEF Call, Steps, Unwatched
  <1>3. call' = [call EXCEPT ![c] = k]
    BY Facts
  <1> HIDE DEF k
  <1>4. CallOK(record, pointers, k)
    BY <1>2, Free
  <1> QED BY <1>2, <1>3, <1>4, CallGoes

\* The last lease of a running record.
LEMMA LastLease ==
    ASSUME IInv, NEW m \in Manifest, Leases!Running(m)
    PROVE  /\ Len(record[m]) \in Nat /\ Len(record[m]) > 0
           /\ record[m][Len(record[m])] = [run |-> record[m][Len(record[m])].run, running |-> TRUE]
           /\ record[m][Len(record[m])].run \in Run
  <1>1. record[m] \in Seq(Leases!Lease) /\ record[m] # << >>
    BY Facts DEF Leases!Running
  <1>2. Len(record[m]) \in Nat /\ Len(record[m]) > 0 /\ record[m][Len(record[m])] \in Leases!Lease
    BY <1>1
  <1>3. record[m][Len(record[m])].running
    BY DEF Leases!Running
  <1> QED BY <1>2, <1>3 DEF Leases!Lease

\* Whatever the history binds of m is no newer than the last lease of m.
LEMMA LastIsNewest ==
    ASSUME IInv, NEW i \in 1..Len(pointers)
    PROVE  /\ pointers[i].tip \in Nat
           /\ pointers[i].tip <= Len(record[pointers[i].manifest])
  <1>1. pointers[i] \in Commit /\ Binds(record, pointers[i])
    BY Facts
  <1>2. Len(record[pointers[i].manifest]) \in Nat
    BY <1>1, Facts DEF Commit
  <1> QED BY <1>1, <1>2 DEF Binds, Commit

-----------------------------------------------------------------------------
LEMMA ActivateLeaseInv ==
    ASSUME IInv, NEW c \in Client, NEW m \in Manifest, ActivateLease(c, m) PROVE IInv'
  <1> DEFINE p == Pointer(c, Len(pointers), 1, m)
             k == [at |-> "pointer", commit |-> p, seen |-> 0, held |-> FALSE, result |-> "none"]
  <1>1. Leases!Running(m)
    BY DEF ActivateLease, MayBind
  <1>2. /\ p \in Commit /\ p.parent = Len(pointers) /\ p.manifest = m /\ p.status = "ACTIVE"
        /\ p.tip = Len(record[m]) /\ p.run = record[m][Len(record[m])].run
    <2>1. record[m][Len(record[m])].run \in Run /\ Len(record[m]) \in Nat
      BY <1>1, LastLease
    <2>2. calls[c] + 1 \in Nat /\ Len(pointers) \in Nat
      BY Facts
    <2> QED BY <2>1, <2>2 DEF Pointer, Commit
  <1> HIDE DEF p
  <1>3. Binds(record, p)
    BY <1>1, <1>2, LastLease DEF Binds
  <1>4. Newest(pointers, p)
    BY <1>2, LastIsNewest DEF Newest
  <1>5. Drafted(record, pointers, p)
    BY <1>2, <1>3, <1>4, Facts DEF Drafted
  <1>6. k \in Call /\ CallOK(record, pointers, k)
    BY <1>2, <1>5 DEF Call, CallOK, Steps, Results
  <1>7. /\ call' = [call EXCEPT ![c] = k] /\ UNCHANGED <<record, pointers, wire>>
        /\ calls' \in [Client -> Nat] /\ faults' \in Nat
    BY Facts DEF ActivateLease, Begin, p
  <1> HIDE DEF k
  <1> QED BY <1>6, <1>7, CallGoes

LEMMA ActivatePointerInv ==
    ASSUME IInv, NEW c \in Client, ActivatePointer(c) PROVE IInv'
  <1> DEFINE q == call[c].commit
             g == IF pointers = << >> THEN 1 ELSE Tip.generation + 1
             p == [q EXCEPT !.parent = Len(pointers), !.generation = g]
             k == [call[c] EXCEPT !.at = "push", !.commit = p]
  <1>1. /\ call[c] \in Call /\ call[c].at = "pointer" /\ q.parent = Len(pointers)
        /\ q.status = "ACTIVE" /\ Drafted(record, pointers, q) /\ q \in Commit
        /\ call[c].result = "active" => call[c].held
    BY Facts DEF ActivatePointer, At, Expected, CallOK, Drafted
  <1>2. g \in Nat
    BY Facts DEF Commit
  <1>3. /\ p \in Commit /\ p.parent = q.parent /\ p.manifest = q.manifest /\ p.tip = q.tip
        /\ p.run = q.run /\ p.status = "ACTIVE" /\ p.generation = g
    BY <1>1, <1>2, Facts DEF Commit
  <1> HIDE DEF p
  <1>4. Drafted(record, pointers, p)
    BY <1>1, <1>3 DEF Drafted, Binds, Newest
  <1>5. /\ p.manifest \in Manifest /\ p.run \in Run
        /\ p.parent = Len(pointers) /\ ~Active
    BY <1>1, <1>3 DEF Commit, ActivatePointer
  <1>6. Follows(pointers, p)
    <2>1. CASE pointers = << >>
      BY <2>1, <1>3, <1>5 DEF Follows, Selection!First, Selected
    <2>2. CASE pointers # << >>
      <3>1. /\ Len(pointers) > 0 /\ Tip = pointers[p.parent] /\ Tip.status = "RETIRED"
            /\ p.generation = Tip.generation + 1
        BY <2>2, <1>3, <1>5, Facts DEF Active, Tip, Commit
      <3>2. Selection!Reselects(Selected(pointers[p.parent]), Selected(p))
        BY <3>1, <1>3, <1>5 DEF Selection!Reselects, Selected
      <3> QED BY <3>1, <3>2, <1>5 DEF Follows
    <2> QED BY <2>1, <2>2
  <1>7. k \in Call /\ k.at = "push" /\ k.commit = p /\ k.result = call[c].result /\ k.held = call[c].held
    BY <1>1, <1>3 DEF Call, Steps
  <1>8. /\ call' = [call EXCEPT ![c] = k] /\ UNCHANGED <<record, pointers, wire>>
        /\ calls' \in [Client -> Nat] /\ faults' \in Nat
    BY Facts DEF ActivatePointer, p
  <1> HIDE DEF k
  <1>9. CallOK(record, pointers, k)
    BY <1>1, <1>4, <1>6, <1>7 DEF CallOK
  <1> QED BY <1>7, <1>8, <1>9, CallGoes

\* What refresh and retire make of the tip before they change it.
LEMMA TipCopy ==
    ASSUME IInv, Active, NEW c \in Client, NEW s \in {"ACTIVE", "RETIRED"}, NEW p,
           p = [Tip EXCEPT !.author = c, !.nonce = calls[c] + 1, !.parent = Len(pointers),
                           !.status = s]
    PROVE  /\ Drafted(record, pointers, p)
           /\ p.parent > 0 /\ pointers[p.parent] = Tip /\ p.status = s
           /\ Selected(p) = [Selected(Tip) EXCEPT !.status = s]
  <1>1. Len(pointers) \in Nat /\ Len(pointers) > 0 /\ Tip \in Commit /\ Tip = pointers[Len(pointers)]
    BY Facts DEF Active, Tip
  <1>2. calls[c] + 1 \in Nat
    BY Facts
  <1>3. /\ p \in Commit /\ p.parent = Len(pointers) /\ p.manifest = Tip.manifest
        /\ p.tip = Tip.tip /\ p.run = Tip.run /\ p.status = s /\ p.generation = Tip.generation
    BY <1>1, <1>2 DEF Commit
  <1>4. Binds(record, Tip)
    BY <1>1, Facts
  <1>5. Binds(record, p)
    BY <1>3, <1>4 DEF Binds
  <1>6. Tip.tip \in Nat
    BY <1>1 DEF Commit
  <1>7. Newest(pointers, p)
    <2> SUFFICES ASSUME NEW i \in 1..Len(pointers), pointers[i].manifest = Tip.manifest
                 PROVE  pointers[i].tip <= Tip.tip
      BY <1>3 DEF Newest
    <2>1. CASE i = Len(pointers)
      BY <2>1, <1>1, <1>6
    <2>2. CASE i # Len(pointers)
      BY <2>2, <1>1 DEF IInv, History, LeaseNeverGoesBack
    <2> QED BY <2>1, <2>2
  <1>8. Selected(p) = [Selected(Tip) EXCEPT !.status = s]
    BY <1>3 DEF Selected
  <1> QED BY <1>1, <1>3, <1>5, <1>7, <1>8 DEF Drafted

LEMMA RefreshPointerInv ==
    ASSUME IInv, NEW c \in Client, RefreshPointer(c) PROVE IInv'
  <1> DEFINE p == [Tip EXCEPT !.author = c, !.nonce = calls[c] + 1, !.parent = Len(pointers)]
             k == [at |-> "lease", commit |-> p, seen |-> 0, held |-> FALSE, result |-> "none"]
  <1>1. Active /\ Tip \in Commit /\ Tip.status = "ACTIVE"
    BY Facts DEF RefreshPointer, Active
  <1>2. p = [Tip EXCEPT !.author = c, !.nonce = calls[c] + 1, !.parent = Len(pointers),
                        !.status = "ACTIVE"]
    BY <1>1 DEF Commit
  <1>3. /\ call' = [call EXCEPT ![c] = k] /\ UNCHANGED <<record, pointers, wire>>
        /\ calls' \in [Client -> Nat] /\ faults' \in Nat
    BY Facts DEF RefreshPointer, Begin
  <1> HIDE DEF p
  <1>4. /\ Drafted(record, pointers, p) /\ p.parent > 0 /\ p.status = "ACTIVE"
        /\ pointers[p.parent] = Tip /\ Selected(p) = [Selected(Tip) EXCEPT !.status = "ACTIVE"]
    BY <1>1, <1>2, TipCopy
  <1>5. Selected(p) = Selected(Tip)
    BY <1>1, <1>4 DEF Selected
  <1>6. Copies(pointers, p)
    BY <1>4, <1>5 DEF Copies
  <1>7. k \in Call /\ CallOK(record, pointers, k)
    BY <1>4, <1>6 DEF Call, CallOK, Steps, Results, Drafted
  <1> HIDE DEF k
  <1> QED BY <1>3, <1>7, CallGoes

LEMMA RefreshLeaseInv ==
    ASSUME IInv, NEW c \in Client, RefreshLease(c) PROVE IInv'
  <1> DEFINE q == call[c].commit
             n == Len(record[q.manifest])
             p == [q EXCEPT !.tip = n]
             k == [call[c] EXCEPT !.at = "push", !.commit = p]
  <1>1. /\ call[c] \in Call /\ Drafted(record, pointers, q) /\ Copies(pointers, q)
        /\ q \in Commit /\ q.manifest \in Manifest /\ q.tip \in Nat
        /\ call[c].result = "active" => call[c].held
    BY Facts DEF RefreshLease, At, CallOK, Drafted, Commit
  <1>2. /\ Leases!Running(q.manifest) /\ n # q.tip
        /\ record[q.manifest][n].run = q.run
    BY DEF RefreshLease, Renewed
  <1>3. n \in Nat /\ n > 0 /\ record[q.manifest][n] = [run |-> q.run, running |-> TRUE]
    BY <1>1, <1>2, LastLease
  <1>4. q.tip < n
    BY <1>1, <1>2, <1>3 DEF Drafted, Binds
  <1>5. /\ p \in Commit /\ p.parent = q.parent /\ p.manifest = q.manifest /\ p.tip = n
        /\ p.run = q.run /\ p.status = q.status /\ p.generation = q.generation
    BY <1>1, <1>3 DEF Commit
  <1>6. /\ call' = [call EXCEPT ![c] = k] /\ UNCHANGED <<record, pointers, wire>>
        /\ calls' \in [Client -> Nat] /\ faults' \in Nat
    BY Facts DEF RefreshLease
  <1>7. k \in Call /\ k.at = "push" /\ k.commit = p /\ k.result = call[c].result /\ k.held = call[c].held
    BY <1>1, <1>5 DEF Call, Steps
  <1> HIDE DEF p, k
  <1>8. Binds(record, p)
    BY <1>3, <1>5 DEF Binds
  <1>9. \A i \in 1..q.parent : pointers[i] \in Commit
    BY <1>1, Facts DEF Drafted
  <1>10. \A i \in 1..q.parent : pointers[i].tip \in Nat
    BY <1>9 DEF Commit
  <1>11. Newest(pointers, p)
    BY <1>1, <1>3, <1>4, <1>5, <1>10 DEF Drafted, Newest
  <1>12. Drafted(record, pointers, p)
    BY <1>1, <1>5, <1>8, <1>11 DEF Drafted
  <1>13. Selection!Refreshes(Selected(pointers[p.parent]), Selected(p))
    <2>1. Selected(pointers[p.parent]) = Selected(q) /\ q.status = "ACTIVE"
      BY <1>1, <1>5 DEF Copies
    <2> QED BY <2>1, <1>4, <1>5 DEF Selection!Refreshes, Selection!SameRun, Selected
  <1>14. Follows(pointers, p)
    BY <1>1, <1>5, <1>13 DEF Follows, Copies
  <1>15. CallOK(record, pointers, k)
    BY <1>1, <1>7, <1>12, <1>14 DEF CallOK
  <1> QED BY <1>6, <1>7, <1>15, CallGoes

LEMMA RetireInv ==
    ASSUME IInv, NEW c \in Client, Retire(c) PROVE IInv'
  <1> DEFINE p == [Tip EXCEPT !.author = c, !.nonce = calls[c] + 1,
                              !.parent = Len(pointers), !.status = "RETIRED"]
             k == [at |-> "push", commit |-> p, seen |-> 0, held |-> FALSE, result |-> "none"]
  <1>1. Active /\ Tip.status = "ACTIVE"
    BY DEF Retire, Active
  <1>2. /\ call' = [call EXCEPT ![c] = k] /\ UNCHANGED <<record, pointers, wire>>
        /\ calls' \in [Client -> Nat] /\ faults' \in Nat
    BY Facts DEF Retire, Begin
  <1>3. /\ Drafted(record, pointers, p) /\ p.parent > 0
        /\ pointers[p.parent] = Tip /\ Selected(p) = [Selected(Tip) EXCEPT !.status = "RETIRED"]
    BY <1>1, TipCopy
  <1> HIDE DEF p
  <1>4. Follows(pointers, p)
    BY <1>1, <1>3 DEF Follows, Selection!Retires, Selected
  <1>5. k \in Call /\ CallOK(record, pointers, k)
    BY <1>3, <1>4 DEF Call, CallOK, Steps, Results, Drafted
  <1> HIDE DEF k
  <1> QED BY <1>2, <1>5, CallGoes

-----------------------------------------------------------------------------
\* A push lands or not, or is left on the wire.
LEMMA PushEnds ==
    ASSUME IInv, NEW c \in Client, At(c, "push"),
           NEW step \in Unwatched, NEW result \in Results,
           result = "active" => call[c].held,
           call' = [call EXCEPT ![c].at = step, ![c].result = result],
           UNCHANGED record, calls' \in [Client -> Nat], faults' \in Nat,
           Same \/ (Lands(call[c].commit) /\ Landed(call[c].commit)),
           wire' = wire \/ wire' = wire \cup {call[c].commit}
    PROVE  IInv'
  <1> DEFINE k == [call[c] EXCEPT !.at = step, !.result = result]
             p == call[c].commit
  <1>1. call[c] \in Call /\ Lawful(p) /\ p \in Commit
    BY Facts DEF At, CallOK, Drafted, Lawful
  <1>2. k \in Call /\ k.at = step /\ k.result = result /\ k.held = call[c].held
    BY <1>1 DEF Call, Steps, Unwatched
  <1>3. call' = [call EXCEPT ![c] = k]
    BY Facts
  <1> HIDE DEF k
  <1>4. CallOK(record', pointers', k)
    BY <1>2, Free
  <1>5. call' \in [Client -> Call]
    BY <1>2, <1>3, Facts
  <1>6. \A d \in Client : call'[d] = call[d] \/ call'[d] = k
    BY <1>3, Facts
  <1>7. \A d \in Client : call'[d] = call[d] \/ CallOK(record', pointers', call'[d])
    BY <1>4, <1>6
  <1>8. Same \/ Grows
    BY <1>1 DEF Grows
  <1>9. \A q \in wire' : q \in wire \/ Lawful(q)
    BY <1>1
  <1> QED BY <1>5, <1>7, <1>8, <1>9, Preserves

LEMMA PushInv ==
    ASSUME IInv, NEW c \in Client,
           PushAccepted(c) \/ PushRefused(c) \/ PushFailed(c) \/ PushAbandoned(c)
    PROVE  IInv'
  <1>1. /\ call[c] \in Call /\ calls \in [Client -> Nat] /\ faults \in Nat
        /\ call[c].result \in Results
        /\ call[c].result = "active" => call[c].held
        /\ call \in [Client -> Call]
    BY Facts DEF Call, CallOK
  <1>2. /\ At(c, "push") /\ record' = record /\ calls' \in [Client -> Nat] /\ faults' \in Nat
        /\ Same \/ (Lands(call[c].commit) /\ Landed(call[c].commit))
        /\ wire' = wire \/ wire' = wire \cup {call[c].commit}
    BY <1>1 DEF PushAccepted, PushRefused, PushFailed, PushAbandoned, Fault, Same
  <1>3. CASE PushAccepted(c) \/ PushRefused(c) \/ PushFailed(c)
    <2>1. PICK step \in {"accepted", "failed"} : Go(c, step)
      BY <1>3 DEF PushAccepted, PushRefused, PushFailed
    <2>2. call' = [call EXCEPT ![c].at = step, ![c].result = call[c].result]
      BY <2>1, <1>1 DEF Go, Call
    <2>3. step \in Unwatched
      BY DEF Unwatched
    <2> QED BY <1>1, <1>2, <2>2, <2>3, PushEnds
  <1>4. CASE PushAbandoned(c)
    <2>1. PICK result \in {"timed_out", "none"} :
             call' = [call EXCEPT ![c].at = "idle", ![c].result = result]
      BY <1>4 DEF PushAbandoned, Tell
    <2>2. result \in Results /\ result # "active" /\ "idle" \in Unwatched
      BY DEF Results, Unwatched
    <2> QED BY <1>2, <2>1, <2>2, PushEnds
  <1> QED BY <1>3, <1>4

LEMMA ArriveInv == ASSUME IInv, NEW p \in wire, Arrive(p) PROVE IInv'
  <1>1. Lawful(p) /\ p \in Commit
    BY Facts DEF IInv, WireOK, Lawful
  <1>2. /\ Same \/ Grows
        /\ record' = record /\ call' = call /\ calls' = calls /\ faults' = faults
        /\ \A q \in wire' : q \in wire
    BY <1>1 DEF Arrive, Same, Grows
  <1>3. /\ call' \in [Client -> Call] /\ calls' \in [Client -> Nat] /\ faults' \in Nat
    BY <1>2, Facts
  <1> QED BY <1>2, <1>3, Preserves

LEMMA LeaseMovesInv == ASSUME IInv, LeaseMoves PROVE IInv'
  <1>1. /\ Leases!Next /\ Same /\ wire' = wire
        /\ call' = call /\ calls' = calls /\ faults' = faults
    BY DEF LeaseMoves, Same
  <1>2. /\ call' \in [Client -> Call] /\ calls' \in [Client -> Nat] /\ faults' \in Nat
    BY <1>1, Facts
  <1> QED BY <1>1, <1>2, Preserves

-----------------------------------------------------------------------------
\* Calls that end, or go on to look.
LEMMA TalkInv ==
    ASSUME IInv, NEW c \in Client, Refused(c) \/ Probe(c) \/ ReadFailed(c) PROVE IInv'
  <1>1. /\ call[c] \in Call /\ calls \in [Client -> Nat] /\ faults \in Nat
        /\ call[c].result \in Results
        /\ call[c].result = "active" => call[c].held
        /\ call \in [Client -> Call]
    BY Facts DEF Call, CallOK
  <1>2. UNCHANGED <<record, pointers, wire>> /\ calls' \in [Client -> Nat] /\ faults' \in Nat
    BY <1>1 DEF Refused, Probe, ReadFailed, Fault
  <1>3. CASE Go(c, "inspect")
    <2>1. call' = [call EXCEPT ![c].at = "inspect", ![c].result = call[c].result]
      BY <1>3, <1>1 DEF Go, Call
    <2>2. "inspect" \in Unwatched
      BY DEF Unwatched
    <2> QED BY <1>1, <1>2, <2>1, <2>2, Told
  <1>4. ASSUME NEW result \in Results, result # "active", Tell(c, result) PROVE IInv'
    <2>1. "idle" \in Unwatched
      BY DEF Unwatched
    <2> QED BY <1>2, <1>4, <2>1, Told DEF Tell
  <1>5. Go(c, "inspect") \/ \E result \in Results : result # "active" /\ Tell(c, result)
    <2> DEFINE Says(result) == result # "active" /\ Tell(c, result)
    <2>1. CASE Refused(c)
      <3>1. Says("none")
        BY <2>1 DEF Refused
      <3> QED BY <3>1 DEF Results
    <2>2. CASE Probe(c)
      <3>1. Go(c, "inspect") \/ Says("unverified") \/ Says("rejected")
        BY <2>2 DEF Probe
      <3> QED BY <3>1 DEF Results
    <2>3. CASE ReadFailed(c)
      <3>1. Says("unknown") \/ Says("unverified") \/ Says("inactive") \/ Says("none")
        BY <2>3 DEF ReadFailed
      <3> QED BY <3>1 DEF Results
    <2> QED BY <2>1, <2>2, <2>3
  <1> QED BY <1>3, <1>4, <1>5

LEMMA InspectInv == ASSUME IInv, NEW c \in Client, Inspect(c) PROVE IInv'
  <1> DEFINE k == [at |-> "inspect", commit |-> NoCommit,
                   seen |-> 0, held |-> FALSE, result |-> "none"]
  <1>1. k \in Call /\ CallOK(record, pointers, k)
    BY DEF Call, CallOK, Steps, Results, NoCommit
  <1>2. /\ call' = [call EXCEPT ![c] = k] /\ UNCHANGED <<record, pointers, wire>>
        /\ calls' \in [Client -> Nat] /\ faults' \in Nat
    BY Facts DEF Inspect, Begin
  <1> HIDE DEF k
  <1> QED BY <1>1, <1>2, CallGoes

\* An inspection that finds the lease moved on knows that it was overtaken.
LEMMA ReadPointerInv == ASSUME IInv, NEW c \in Client, ReadPointer(c) PROVE IInv'
  <1> DEFINE n == Len(pointers)
             held == Active /\ Holds(Tip)
             at == IF Active THEN "bind" ELSE "idle"
             result == IF Active THEN "none" ELSE Verdict(c, n, FALSE)
             k == [call[c] EXCEPT !.seen = n, !.held = held, !.at = at, !.result = result]
  <1>1. call[c] \in Call /\ n \in Nat
    BY Facts
  <1>2. result \in Results /\ result # "active" /\ held \in BOOLEAN /\ at \in {"bind", "idle"}
    BY DEF Verdict, Results, Active, Holds
  <1>3. /\ call' = [call EXCEPT ![c] = k] /\ UNCHANGED <<record, pointers, wire>>
        /\ calls' \in [Client -> Nat] /\ faults' \in Nat
    BY Facts DEF ReadPointer
  <1>4. Active /\ ~held => n \in 1..Len(pointers) /\ Overtaken(record, pointers[n])
    <2> SUFFICES ASSUME Active, ~Holds(Tip)
                 PROVE  n \in 1..Len(pointers) /\ Overtaken(record, pointers[n])
      OBVIOUS
    <2>1. n \in 1..Len(pointers) /\ Tip = pointers[n] /\ Tip \in Commit
      BY Facts DEF Active, Tip
    <2>2. Binds(record, Tip)
      BY <2>1, Facts
    <2>3. Tip.tip # Len(record[Tip.manifest])
      BY <2>2 DEF Holds, Leases!Held, Binds
    <2>4. Tip.tip \in Nat /\ Len(record[Tip.manifest]) \in Nat
      BY <2>1, Facts DEF Commit
    <2> QED BY <2>1, <2>2, <2>3, <2>4 DEF Binds, Overtaken
  <1>5. Active => n \in 1..Len(pointers)
    BY Facts DEF Active
  <1> HIDE DEF held, result
  <1>6. /\ k \in Call /\ k.at = at /\ k.seen = n /\ k.held = held /\ k.result = result
    BY <1>1, <1>2 DEF Call, Steps
  <1> HIDE DEF k
  <1>7. CallOK(record, pointers, k)
    BY <1>2, <1>4, <1>5, <1>6 DEF CallOK
  <1> QED BY <1>3, <1>6, <1>7, CallGoes

\* And one that finds the lease as the pointer has it, that it was so before.
LEMMA ReadLeaseInv == ASSUME IInv, NEW c \in Client, ReadLease(c) PROVE IInv'
  <1>1. PICK active \in BOOLEAN :
           /\ active => Bound(pointers[call[c].seen])
           /\ Tell(c, Verdict(c, call[c].seen, active))
    BY DEF ReadLease
  <1> DEFINE result == Verdict(c, call[c].seen, active)
  <1>2. result \in Results /\ (result = "active" => active)
    BY DEF Verdict, Results
  <1>3. /\ call[c].seen \in 1..Len(pointers)
        /\ call[c].held \/ Overtaken(record, pointers[call[c].seen])
    BY Facts DEF ReadLease, At, CallOK
  <1>4. pointers[call[c].seen] \in Commit
    BY <1>3, Facts
  <1>5. active => call[c].held
    <2> SUFFICES ASSUME active, Overtaken(record, pointers[call[c].seen]) PROVE FALSE
      BY <1>3
    <2>1. pointers[call[c].seen].tip = Len(record[pointers[call[c].seen].manifest])
      BY <1>1 DEF Bound, Holds
    <2>2. Len(record[pointers[call[c].seen].manifest]) \in Nat
      BY <1>4, Facts DEF Commit
    <2> QED BY <2>1, <2>2 DEF Overtaken
  <1>6. /\ call' = [call EXCEPT ![c].at = "idle", ![c].result = result]
        /\ UNCHANGED <<record, pointers, wire>>
        /\ calls' \in [Client -> Nat] /\ faults' \in Nat
    BY <1>1, Facts DEF ReadLease, Tell
  <1>7. "idle" \in Unwatched
    BY DEF Unwatched
  <1> HIDE DEF result
  <1> QED BY <1>2, <1>5, <1>6, <1>7, Told

-----------------------------------------------------------------------------
LEMMA NextInv == IInv /\ [Next]_vars => IInv'
  <1> SUFFICES ASSUME IInv, [Next]_vars PROVE IInv'
    OBVIOUS
  <1>1. CASE UNCHANGED vars
    <2>1. UNCHANGED <<record, pointers, wire, call, calls, faults>>
      BY <1>1 DEF vars
    <2>2. TypeOK' /\ CallsOK' /\ WireOK' /\ History'
      BY <2>1 DEF IInv, TypeOK, CallsOK, WireOK, History, LeaseNeverGoesBack
    <2> QED BY <2>2 DEF IInv
  <1>2. CASE Next
    BY <1>2, LeaseMovesInv, ActivateLeaseInv, ActivatePointerInv, RefreshPointerInv,
       RefreshLeaseInv, RetireInv, PushInv, ArriveInv, TalkInv, InspectInv, ReadPointerInv,
       ReadLeaseInv
       DEF Next
  <1> QED BY <1>1, <1>2

\* No order of calls, lost answers, late pushes and moves of the leases leaves
\* the invariant.
THEOREM Invariant == Spec => []IInv
  <1> QED BY InitInv, NextInv, PTL DEF Spec

\* Records, commits and calls stay what their types say: every commit that
\* reaches the pointer's ref was made by a client from what it read.
THEOREM TypeCorrect == Spec => []TypeOK
  <1>1. IInv => TypeOK
    BY DEF IInv
  <1> QED BY <1>1, Invariant, PTL

\* An inspection says active only of a selection that held its lease when the
\* pointer was read (inspect_current_run_authority reads two refs).
THEOREM ActiveIsTrue == Spec => []ActiveWasHeld
  <1>1. IInv => ActiveWasHeld
    BY DEF IInv, CallsOK, CallOK, ActiveWasHeld
  <1> QED BY <1>1, Invariant, PTL

\* Nothing on record and nothing on its way binds a lease that was not held.
THEOREM BindsHeldLeases == Spec => []BoundLeaseWasHeld
  <1>1. IInv => BoundLeaseWasHeld
    BY DEF IInv, WireOK, Drafted, History, Binds, BoundLeaseWasHeld, Leases!Held
  <1> QED BY <1>1, Invariant, PTL

\* The pointer never binds an older lease of a manifest again, however its
\* reads of the lease and of the pointer fall.
THEOREM BindsForward == Spec => []LeaseNeverGoesBack
  <1>1. IInv => LeaseNeverGoesBack
    BY DEF IInv, History
  <1> QED BY <1>1, Invariant, PTL

-----------------------------------------------------------------------------
\* The refinement: only a lawful commit that lands changes the history.

LEMMA StepGrows == ASSUME IInv, Next PROVE Same \/ Grows
  <1>1. CASE LeaseMoves
    BY <1>1 DEF LeaseMoves, Same
  <1>2. ASSUME NEW p \in wire, Arrive(p) PROVE Same \/ Grows
    <2>1. Lawful(p) /\ p \in Commit
      BY Facts DEF IInv, WireOK, Lawful
    <2> QED BY <1>2, <2>1 DEF Arrive, Same, Grows
  <1>3. ASSUME NEW c \in Client,
               PushAccepted(c) \/ PushRefused(c) \/ PushFailed(c) \/ PushAbandoned(c)
        PROVE  Same \/ Grows
    <2>1. Same \/ (Lands(call[c].commit) /\ Landed(call[c].commit))
      BY <1>3 DEF PushAccepted, PushRefused, PushFailed, PushAbandoned, Same
    <2>2. At(c, "push")
      BY <1>3 DEF PushAccepted, PushRefused, PushFailed, PushAbandoned
    <2>3. Lawful(call[c].commit) /\ call[c].commit \in Commit
      BY <2>2, Facts DEF At, CallOK, Drafted, Lawful
    <2> QED BY <2>1, <2>3 DEF Grows
  <1>4. ASSUME NEW c \in Client,
               \/ \E m \in Manifest : ActivateLease(c, m)
               \/ ActivatePointer(c) \/ RefreshPointer(c) \/ RefreshLease(c) \/ Refused(c)
               \/ Retire(c) \/ Probe(c) \/ Inspect(c) \/ ReadPointer(c) \/ ReadLease(c)
               \/ ReadFailed(c)
        PROVE  Same
    BY <1>4 DEF ActivateLease, ActivatePointer, RefreshPointer, RefreshLease, Refused, Retire,
       Probe, Inspect, ReadPointer, ReadLease, ReadFailed, Same
  <1> QED BY <1>1, <1>2, <1>3, <1>4 DEF Next

\* The selections are as many as the commits.
LEMMA SelectionsOf ==
    ASSUME NEW s \in Seq(Commit), NEW seen, seen = [i \in 1..Len(s) |-> Selected(s[i])]
    PROVE  /\ Len(seen) = Len(s) /\ Len(s) \in Nat
           /\ \A i \in 1..Len(s) : seen[i] = Selected(s[i])
           /\ seen = << >> <=> s = << >>
  <1> DEFINE S == {Selected(p) : p \in Commit}
  <1>1. Len(s) \in Nat /\ \A i \in 1..Len(s) : Selected(s[i]) \in S
    OBVIOUS
  <1> HIDE DEF S
  <1>2. seen \in Seq(S)
    BY <1>1, IsASeq
  <1>3. DOMAIN seen = 1..Len(s) /\ DOMAIN seen = 1..Len(seen) /\ Len(seen) \in Nat
    BY <1>2, LenProperties
  <1>4. Len(seen) = Len(s)
    BY <1>1, <1>3
  <1>5. seen = << >> <=> Len(seen) = 0
    BY <1>2, EmptySeq
  <1>6. s = << >> <=> Len(s) = 0
    BY EmptySeq
  <1> QED BY <1>1, <1>4, <1>5, <1>6

LEMMA GrowsSelection == ASSUME IInv, IInv', Grows PROVE Selection!Grow
  <1>1. PICK p \in Commit : Lawful(p) /\ Lands(p) /\ pointers' = Append(pointers, p)
    BY DEF Grows, Landed
  <1> DEFINE n == Len(pointers)
  <1>2. pointers \in Seq(Commit) /\ pointers' \in Seq(Commit)
    BY DEF IInv, TypeOK
  <1>3. /\ Len(pointers') = n + 1 /\ pointers'[n + 1] = p
        /\ \A i \in 1..n : pointers'[i] = pointers[i]
    BY <1>1, <1>2, Appended
  <1>4. /\ Len(Selections) = n /\ n \in Nat /\ \A i \in 1..n : Selections[i] = Selected(pointers[i])
        /\ Selections = << >> <=> pointers = << >>
    BY <1>2, SelectionsOf DEF Selections
  <1>5. Selections' = [i \in 1..Len(pointers') |-> Selected(pointers'[i])]
    BY DEF Selections, Selected
  <1>6. /\ Len(Selections') = n + 1
        /\ \A i \in 1..n + 1 : Selections'[i] = Selected(pointers'[i])
    BY <1>2, <1>3, <1>5, SelectionsOf
  <1>7. /\ Selections'[n + 1] = Selected(p)
        /\ \A i \in 1..n : Selections'[i] = Selections[i]
    BY <1>3, <1>4, <1>6
  <1>8. p.parent = n /\ Follows(pointers, p)
    BY <1>1 DEF Lawful, Lands
  <1>9. CASE n = 0
    <2>1. Selection!First(Selected(p)) /\ Selections = << >>
      BY <1>2, <1>4, <1>8, <1>9, EmptySeq DEF Follows
    <2> QED BY <1>4, <1>6, <1>7, <2>1 DEF Selection!Grow
  <1>10. CASE n > 0
    <2>1. /\ Selections # << >> /\ Selections[n] = Selected(pointers[n])
          /\ \/ Selection!Refreshes(Selected(pointers[n]), Selected(p))
             \/ Selection!Retires(Selected(pointers[n]), Selected(p))
             \/ Selection!Reselects(Selected(pointers[n]), Selected(p))
      <3>1. Selections # << >>
        BY <1>4, <1>10
      <3>2. n \in 1..n
        BY <1>4, <1>10
      <3> QED BY <3>1, <3>2, <1>4, <1>8, <1>10 DEF Follows
    <2> QED BY <1>4, <1>6, <1>7, <2>1 DEF Selection!Grow
  <1> QED BY <1>4, <1>9, <1>10

\* The history of the pointer is a history of RunSelection: one run at a time, a
\* generation from its activation to its retirement, the lease only forward.
THEOREM Refinement == Spec => ImplementsRunSelection
  <1>1. Init => Selection!Init
    <2> SUFFICES ASSUME Init PROVE Selections = << >>
      BY DEF Selection!Init
    <2>1. pointers = << >> /\ pointers \in Seq(Commit)
      BY DEF Init
    <2> QED BY <2>1, SelectionsOf DEF Selections
  <1>2. IInv /\ IInv' /\ [Next]_vars => [Selection!Grow]_Selections
    <2> SUFFICES ASSUME IInv, IInv', [Next]_vars PROVE [Selection!Grow]_Selections
      OBVIOUS
    <2>1. CASE UNCHANGED vars
      BY <2>1 DEF vars, Selections, Selected
    <2>2. CASE Next
      <3>1. CASE Same
        BY <3>1 DEF Same, Selections, Selected
      <3>2. CASE Grows
        BY <3>2, GrowsSelection
      <3> QED BY <2>2, <3>1, <3>2, StepGrows
    <2> QED BY <2>1, <2>2
  <1> QED
    BY <1>1, <1>2, Invariant, PTL DEF Spec, ImplementsRunSelection, Selection!Spec
=============================================================================
