------------------------ MODULE FixtureRuntimeProofs ------------------------
(***************************************************************************)
(* Theorems about FixtureRuntime, for any number of hosts, effects, faults *)
(* and outside writes.  What a host does next depends on the snapshot it   *)
(* has held since an earlier step, so the invariant says of every call in  *)
(* progress what it may still rely on (Claim): its snapshot is the row if  *)
(* the revisions agree, and what it has seen of the effect, the tool and   *)
(* the memory cannot be undone by others.  OneDispatcher makes the one     *)
(* dispatch: a second host cannot have issued the same effect.             *)
(***************************************************************************)
EXTENDS FixtureRuntime, TLAPS

HostRec == [pc: Pc, kind: {"run", "reconcile"}, seen: Snapshot, epoch: Nat, expected: Nat]

\* The row, the tool and the memory.
TaskInv ==
    /\ ~created => task = Start /\ own = 0
    /\ tool \in {0, 1} /\ own \in {0, 1}
    /\ task.eff[Own] \in {"absent", "pending"} => tool = 0
    /\ task.eff[Own] = "resolved" => tool = 1
    /\ own = 1 => task.eff[Own] = "resolved"
    /\ task.step = "fixture-done" => task.eff[Own] = "resolved" /\ own = 1

\* The steps of a call that has loaded, created or reserved its snapshot.
Holding == Pc \ {"idle", "load", "create"}

\* What a call r in progress may rely on, whatever other hosts did since.
Claim(r) ==
    /\ r.pc \in Holding =>
          created /\ r.seen.rev <= task.rev /\ (r.seen.rev = task.rev => r.seen = task)
    /\ r.pc = "reserve" => r.seen = Start
    /\ r.pc = "verify" => r.kind = "reconcile"
    /\ r.pc = "dispatch" => task.eff[Own] = "unknown" /\ tool = 0
    /\ r.pc \in {"accept", "resolve"} => tool = 1
    /\ r.pc = "resolve" /\ r.kind = "run" => r.seen.epoch = r.epoch
    /\ r.pc \in {"history", "append", "finish"} => task.eff[Own] = "resolved"
    /\ r.pc = "finish" => own = 1

\* Only the host that issued the effect is about to dispatch it.
OneDispatcher ==
    \A g, h \in Host : At(g, "dispatch") /\ At(h, "dispatch") => g = h

FInv ==
    /\ TypeOK /\ TaskInv /\ OneDispatcher
    /\ \A h \in Host : Claim(host[h])

-----------------------------------------------------------------------------
\* Operators.

LEMMA NewTaskType ==
    ASSUME NEW plan \in {"plan5", "foreign"},
           NEW step \in {"fixture-start", "fixture-reserved", "fixture-done"}
    PROVE  /\ NewTask(plan, step) \in Snapshot
           /\ NewTask(plan, step).eff[Own] = "absent" /\ NewTask(plan, step).step = step
BY OwnAssumption DEF NewTask, Snapshot, SnapshotOf, EffectStatus

LEMMA SnapshotFields ==
    ASSUME NEW s \in Snapshot
    PROVE  /\ s.rev \in Nat /\ s.epoch \in Nat /\ s.eff \in [Effect -> EffectStatus]
           /\ s.eff[Own] \in EffectStatus
           /\ s.step \in {"fixture-start", "fixture-reserved", "fixture-done"}
BY OwnAssumption DEF Snapshot, SnapshotOf

\* resume: a new epoch, one revision further.
LEMMA ResumedRow ==
    ASSUME NEW s \in Snapshot
    PROVE  /\ Resumed(s) \in Snapshot /\ Resumed(s).rev = s.rev + 1
           /\ Resumed(s).eff = s.eff /\ Resumed(s).step = s.step
<1> DEFINE a == [s EXCEPT !.rev = @ + 1]
<1>1. a \in Snapshot /\ a.epoch = s.epoch
    BY DEF Snapshot, SnapshotOf
<1>2. Resumed(s) = [a EXCEPT !.epoch = @ + 1]
    BY DEF Resumed, Snapshot, SnapshotOf
<1>3. Resumed(s).rev = s.rev + 1 /\ Resumed(s).eff = s.eff /\ Resumed(s).step = s.step
    BY DEF Resumed, Snapshot, SnapshotOf
<1> HIDE DEF a
<1> QED
    BY <1>1, <1>2, <1>3 DEF Snapshot, SnapshotOf

\* checkpoint: the effects it adds are pending, the others stay.
LEMMA CheckpointedRow ==
    ASSUME NEW s \in Snapshot, NEW new \in SUBSET Effect,
           NEW step \in {"fixture-start", "fixture-reserved", "fixture-done"},
           NEW ckpt \in {"fixture", "fixture-done"}
    PROVE  LET r == Checkpointed(s, step, ckpt, new)
           IN  /\ r \in Snapshot /\ r.epoch = s.epoch /\ r.rev = s.rev + 1 /\ r.step = step
               /\ r.eff[Own] = IF Own \in new THEN "pending" ELSE s.eff[Own]
<1> DEFINE eff == [e \in Effect |-> IF e \in new THEN "pending" ELSE s.eff[e]]
           a == [s EXCEPT !.rev = @ + 1]
           b == [a EXCEPT !.step = step]
           c == [b EXCEPT !.ckpt = ckpt]
           r == Checkpointed(s, step, ckpt, new)
<1>1. eff \in [Effect -> EffectStatus]
    BY DEF Snapshot, SnapshotOf, EffectStatus
<1>2. r = [c EXCEPT !.eff = eff]
    BY DEF Checkpointed, Snapshot, SnapshotOf
<1>3. /\ r.epoch = s.epoch /\ r.rev = s.rev + 1 /\ r.step = step
      /\ r.eff[Own] = IF Own \in new THEN "pending" ELSE s.eff[Own]
    BY OwnAssumption DEF Checkpointed, Snapshot, SnapshotOf
<1> HIDE DEF eff, r
<1>4. a \in Snapshot
    BY DEF Snapshot, SnapshotOf
<1> HIDE DEF a
<1>5. b \in Snapshot
    BY <1>4 DEF Snapshot, SnapshotOf
<1> HIDE DEF b
<1>6. c \in Snapshot
    BY <1>5 DEF Snapshot, SnapshotOf
<1> HIDE DEF c
<1>7. r \in Snapshot
    BY <1>1, <1>2, <1>6 DEF Snapshot, SnapshotOf
<1> QED
    BY <1>3, <1>7 DEF r

\* issue_effect and resolve_effect: the status of Own moves, with the revision.
LEMMA EffectRow ==
    ASSUME NEW s \in Snapshot, NEW status \in EffectStatus
    PROVE  LET r == [s EXCEPT !.rev = @ + 1, !.eff[Own] = status]
           IN  /\ r \in Snapshot /\ r.epoch = s.epoch /\ r.rev = s.rev + 1
               /\ r.step = s.step /\ r.eff[Own] = status
<1> DEFINE r == [s EXCEPT !.rev = @ + 1, !.eff[Own] = status]
           a == [s EXCEPT !.rev = @ + 1]
           eff == [s.eff EXCEPT ![Own] = status]
<1>1. eff \in [Effect -> EffectStatus] /\ eff[Own] = status
    BY OwnAssumption DEF Snapshot, SnapshotOf
<1>2. r = [a EXCEPT !.eff = eff]
    BY DEF Snapshot, SnapshotOf
<1>3. r.epoch = s.epoch /\ r.rev = s.rev + 1 /\ r.step = s.step /\ r.eff = eff
    BY DEF Snapshot, SnapshotOf
<1> HIDE DEF eff, r
<1>4. a \in Snapshot
    BY DEF Snapshot, SnapshotOf
<1> HIDE DEF a
<1>5. r \in Snapshot
    BY <1>1, <1>2, <1>4 DEF Snapshot, SnapshotOf
<1> QED
    BY <1>1, <1>3, <1>5 DEF r

\* Where a call goes on from a snapshot it has just loaded or reserved.
LEMMA LoadedStep ==
    ASSUME NEW s \in Snapshot, NEW kind \in {"run", "reconcile"}
    PROVE  /\ Loaded(kind, s) \in {"idle", "history", "prepare", "verify"}
           /\ Loaded(kind, s) = "history" => s.eff[Own] = "resolved"
           /\ Loaded(kind, s) = "verify" => kind = "reconcile" /\ s.eff[Own] = "unknown"
<1>1. CASE ~Mapped(s)
    BY <1>1 DEF Loaded
<1>2. CASE Mapped(s)
  <2>1. s.eff[Own] \in {"pending", "unknown", "resolved"}
      BY <1>2, SnapshotFields DEF Mapped, Listed, EffectStatus
  <2>2. CASE kind = "run"
    <3>1. Loaded(kind, s) = RunStep(s)
        BY <1>2, <2>2 DEF Loaded
    <3>2. /\ RunStep(s) \in {"idle", "history", "prepare"}
          /\ RunStep(s) = "history" => s.eff[Own] = "resolved"
        BY <2>1 DEF RunStep
    <3> QED BY <2>2, <3>1, <3>2
  <2>3. CASE kind = "reconcile"
      BY <1>2, <2>3 DEF Loaded, ReconcileStep
  <2> QED BY <2>2, <2>3
<1> QED BY <1>1, <1>2

\* Go and Hold change one record.
LEMMA GoRecord ==
    ASSUME TypeOK, NEW h \in Host, NEW pc \in Pc, Go(h, pc)
    PROVE  \E r \in HostRec :
              /\ r.pc = pc /\ r.seen = host[h].seen /\ r.kind = host[h].kind
              /\ r.epoch = host[h].epoch
              /\ host' = [host EXCEPT ![h] = r]
<1> DEFINE r == [host[h] EXCEPT !.pc = pc]
<1>1. host \in [Host -> HostRec] /\ host[h] \in HostRec
    BY DEF TypeOK, HostRec
<1>2. host' = [host EXCEPT ![h] = r]
    BY DEF Go
<1>3. /\ r \in HostRec /\ r.pc = pc /\ r.seen = host[h].seen /\ r.kind = host[h].kind
      /\ r.epoch = host[h].epoch
    BY <1>1 DEF HostRec
<1> HIDE DEF r
<1> QED BY <1>2, <1>3

LEMMA HoldRecord ==
    ASSUME TypeOK, NEW h \in Host, NEW pc \in Pc, NEW s \in Snapshot, Hold(h, pc, s)
    PROVE  \E r \in HostRec :
              /\ r.pc = pc /\ r.seen = s /\ r.kind = host[h].kind
              /\ r.epoch = host[h].epoch
              /\ host' = [host EXCEPT ![h] = r]
<1> DEFINE r == [[host[h] EXCEPT !.pc = pc] EXCEPT !.seen = s]
<1>1. host \in [Host -> HostRec] /\ host[h] \in HostRec
    BY DEF TypeOK, HostRec
<1>2. host' = [host EXCEPT ![h] = r]
    BY <1>1 DEF Hold
<1>3. /\ r \in HostRec /\ r.pc = pc /\ r.seen = s /\ r.kind = host[h].kind
      /\ r.epoch = host[h].epoch
    BY <1>1 DEF HostRec
<1> HIDE DEF r
<1> QED BY <1>2, <1>3

-----------------------------------------------------------------------------
\* Steps.

\* Every step is one of the lifecycle, or none.
Maps == [Lifecycle!Next]_<<Phase, tool, own>>

\* The effect's phase depends on the row alone.
LEMMA SamePhase ==
    ASSUME created' = created, task'.eff[Own] = task.eff[Own], task'.step = task.step
    PROVE  Phase' = Phase
BY DEF Phase

\* A call in progress keeps its claims while others move the store forward.
LEMMA OtherClaim ==
    ASSUME FInv, NEW g \in Host, host'[g] = host[g], task' \in Snapshot,
           created => created' /\ (task' = task \/ task'.rev > task.rev),
           created /\ task.eff[Own] = "resolved" => task'.eff[Own] = "resolved",
           tool = 1 => tool' = 1, own = 1 => own' = 1,
           At(g, "dispatch") => task'.eff[Own] = "unknown" /\ tool' = 0
    PROVE  Claim(host[g])'
<1>1. Claim(host[g]) /\ task \in Snapshot /\ host[g] \in HostRec
    BY DEF FInv, TypeOK, HostRec
<1>2. /\ host[g].seen \in Snapshot /\ host[g].seen.rev \in Nat
      /\ task.rev \in Nat /\ task'.rev \in Nat
    BY <1>1, SnapshotFields DEF HostRec
<1>3. host[g].pc \in Holding =>
          /\ created' /\ host[g].seen.rev <= task'.rev
          /\ (host[g].seen.rev = task'.rev => host[g].seen = task')
    BY <1>1, <1>2 DEF Claim
<1>4. {"history", "append", "finish"} \subseteq Holding
    BY DEF Holding, Pc
<1> QED BY <1>1, <1>3, <1>4 DEF Claim, At

\* A step of h that leaves the stores alone.
LEMMA LocalStep ==
    ASSUME FInv, NEW h \in Host, NEW r \in HostRec, host' = [host EXCEPT ![h] = r],
           UNCHANGED <<created, task, own, tool>>,
           others' \in Nat, faults' \in Nat, external' \in Nat,
           r.pc # "dispatch", Claim(r)
    PROVE  FInv' /\ Maps
<1>1. TypeOK' /\ TaskInv'
    BY DEF FInv, TypeOK, TaskInv, HostRec
<1>2. host'[h] = r /\ \A g \in Host \ {h} : host'[g] = host[g]
    BY DEF FInv, TypeOK
<1>3. OneDispatcher'
    BY <1>2 DEF FInv, OneDispatcher, At
<1>4. \A g \in Host : Claim(host[g])'
    BY <1>2 DEF FInv, Claim
<1>5. Maps
    BY DEF Maps, Phase
<1> QED BY <1>1, <1>3, <1>4, <1>5 DEF FInv

\* A call that ends claims nothing.
LEMMA IdleStep ==
    ASSUME FInv, NEW h \in Host, Go(h, "idle"), UNCHANGED <<created, task, own, tool>>,
           others' \in Nat, faults' \in Nat, external' \in Nat
    PROVE  FInv' /\ Maps
<1>1. PICK r \in HostRec : r.pc = "idle" /\ host' = [host EXCEPT ![h] = r]
    BY GoRecord DEF FInv, Pc
<1>2. Claim(r)
    BY <1>1 DEF Claim, Holding
<1> QED BY <1>1, <1>2, LocalStep

\* A compare-and-swap that fails ends the call.
LEMMA StaleStep ==
    ASSUME FInv, NEW h \in Host, Stale(h), UNCHANGED <<created, own, others, tool, faults, external>>
    PROVE  FInv' /\ Maps
BY IdleStep DEF Stale, FInv, TypeOK

\* A TaskStore write of h under its compare-and-swap: what h held was the row.
LEMMA SwapStep ==
    ASSUME FInv, NEW h \in Host, NEW pc \in Pc, NEW s \in Snapshot,
           host[h].pc \in Holding, Swap(h, pc, s),
           s.rev = task.rev + 1,
           task.eff[Own] = "resolved" => s.eff[Own] = "resolved",
           task.eff[Own] = "unknown" /\ tool = 0 => s.eff[Own] = "unknown",
           UNCHANGED <<created, own, others, tool, faults, external>>,
           TaskInv',
           pc \notin {"reserve", "verify", "accept", "resolve", "append", "finish"},
           pc = "dispatch" => task.eff[Own] = "pending" /\ s.eff[Own] = "unknown",
           pc = "history" => s.eff[Own] = "resolved"
    PROVE  FInv'
<1>1. task' = s /\ Hold(h, pc, s) /\ created
    BY DEF Swap, FInv, Claim
<1>2. PICK r \in HostRec : r.pc = pc /\ r.seen = s /\ host' = [host EXCEPT ![h] = r]
    BY <1>1, HoldRecord DEF FInv
<1>3. host'[h] = r /\ \A g \in Host \ {h} : host'[g] = host[g]
    BY <1>2 DEF FInv, TypeOK
<1>4. TypeOK'
    BY <1>1, <1>2 DEF FInv, TypeOK, HostRec
<1>5. task.rev \in Nat /\ s.rev \in Nat
    BY SnapshotFields DEF FInv, TypeOK
<1>6. \A g \in Host : At(g, "dispatch") => task.eff[Own] = "unknown" /\ tool = 0
    BY DEF FInv, Claim, At
<1>7. ASSUME NEW g \in Host PROVE Claim(host[g])'
  <2>1. CASE g = h
    <3>1. pc = "dispatch" => tool = 0
        BY DEF FInv, TaskInv
    <3> QED BY <1>1, <1>2, <1>3, <1>5, <2>1, <3>1 DEF Claim
  <2>2. CASE g # h
      BY <1>1, <1>3, <1>5, <1>6, <2>2, OtherClaim
  <2> QED BY <2>1, <2>2
<1>8. OneDispatcher'
    BY <1>2, <1>3, <1>6 DEF FInv, OneDispatcher, At
<1> QED BY <1>4, <1>7, <1>8 DEF FInv

LEMMA InitFInv == Init => FInv
<1> SUFFICES ASSUME Init PROVE FInv
    OBVIOUS
<1>1. Start \in Snapshot /\ Start.eff[Own] = "absent" /\ Start.step = "fixture-start"
    BY NewTaskType DEF Start
<1>2. Nobody \in HostRec /\ Nobody.pc = "idle"
    BY <1>1 DEF Nobody, HostRec, Pc
<1>3. TypeOK
    BY <1>1, <1>2 DEF Init, TypeOK, HostRec
<1>4. TaskInv
    BY <1>1 DEF Init, TaskInv
<1>5. \A h \in Host : Claim(host[h]) /\ ~At(h, "dispatch")
    BY <1>2 DEF Init, Claim, At, Holding
<1> QED BY <1>3, <1>4, <1>5 DEF FInv, OneDispatcher

-----------------------------------------------------------------------------
\* The steps that only look: each host's own record changes.

LEMMA CallStep ==
    ASSUME FInv, NEW h \in Host, NEW kind \in {"run", "reconcile"}, Call(h, kind)
    PROVE  FInv' /\ Maps
<1> DEFINE a == [Nobody EXCEPT !.pc = "load"]
           r == [a EXCEPT !.kind = kind]
<1>1. Start \in Snapshot
    BY NewTaskType DEF Start
<1>2. r \in HostRec /\ r.pc = "load"
    BY <1>1 DEF Nobody, HostRec, Pc
<1>3. host' = [host EXCEPT ![h] = r]
    BY DEF Call, Nobody
<1>4. Claim(r)
    BY <1>2 DEF Claim, Holding
<1> HIDE DEF r
<1> QED
    BY <1>2, <1>3, <1>4, LocalStep DEF Call, FInv, TypeOK

LEMMA LoadStep ==
    ASSUME FInv, NEW h \in Host, Load(h)
    PROVE  FInv' /\ Maps
<1>0. /\ TypeOK /\ task \in Snapshot /\ task.rev \in Nat
      /\ host[h] \in HostRec /\ host[h].kind \in {"run", "reconcile"}
    BY SnapshotFields DEF FInv, TypeOK, HostRec
<1>1. /\ UNCHANGED <<created, task, own, tool>>
      /\ others' \in Nat /\ faults' \in Nat /\ external' \in Nat
    BY DEF Load, FInv, TypeOK
<1>2. CASE Go(h, "create")
  <2>1. PICK r \in HostRec : r.pc = "create" /\ host' = [host EXCEPT ![h] = r]
      BY <1>0, <1>2, GoRecord DEF Pc
  <2>2. Claim(r)
      BY <2>1 DEF Claim, Holding
  <2> QED BY <1>1, <2>1, <2>2, LocalStep
<1>3. CASE created /\ Hold(h, IF task = Start THEN "reserve" ELSE "idle", task)
  <2> DEFINE pc == IF task = Start THEN "reserve" ELSE "idle"
  <2>1. pc \in Pc /\ pc \in {"reserve", "idle"} /\ (pc = "reserve" => task = Start)
      BY DEF Pc
  <2>2. Hold(h, pc, task)
      BY <1>3
  <2> HIDE DEF pc
  <2>3. PICK r \in HostRec : r.pc = pc /\ r.seen = task /\ host' = [host EXCEPT ![h] = r]
      BY <1>0, <2>1, <2>2, HoldRecord
  <2>4. Claim(r)
      BY <1>0, <1>3, <2>1, <2>3 DEF Claim
  <2>5. r.pc # "dispatch"
      BY <2>1, <2>3
  <2> QED BY <1>1, <2>3, <2>4, <2>5, LocalStep
<1>4. CASE created /\ Hold(h, Loaded(host[h].kind, task), task)
  <2> DEFINE pc == Loaded(host[h].kind, task)
  <2>1. /\ pc \in {"idle", "history", "prepare", "verify"}
        /\ pc = "history" => task.eff[Own] = "resolved"
        /\ pc = "verify" => host[h].kind = "reconcile"
      BY <1>0, LoadedStep
  <2>2. Hold(h, pc, task)
      BY <1>4
  <2> HIDE DEF pc
  <2>3. pc \in Pc
      BY <2>1 DEF Pc
  <2>4. PICK r \in HostRec : /\ r.pc = pc /\ r.seen = task /\ r.kind = host[h].kind
                             /\ host' = [host EXCEPT ![h] = r]
      BY <1>0, <2>2, <2>3, HoldRecord
  <2>5. Claim(r) /\ r.pc # "dispatch"
      BY <1>0, <1>4, <2>1, <2>4 DEF Claim
  <2> QED BY <1>1, <2>4, <2>5, LocalStep
<1> QED BY <1>2, <1>3, <1>4 DEF Load

LEMMA PrepareStep ==
    ASSUME FInv, NEW h \in Host, Prepare(h)
    PROVE  FInv' /\ Maps
<1>0. /\ host[h] \in HostRec /\ Claim(host[h]) /\ task.epoch \in Nat
      /\ host[h].pc = "prepare" /\ host[h].pc \in Holding
    BY SnapshotFields DEF Prepare, FInv, TypeOK, HostRec, At, Holding, Pc
<1>1. /\ UNCHANGED <<created, task, own, tool>>
      /\ others' \in Nat /\ faults' \in Nat /\ external' \in Nat
    BY DEF Prepare, FInv, TypeOK
<1>2. CASE Go(h, "idle")
    BY <1>1, <1>2, IdleStep
<1>3. CASE host' = [host EXCEPT ![h].pc = "issue", ![h].epoch = task.epoch]
  <2> DEFINE r == [[host[h] EXCEPT !.pc = "issue"] EXCEPT !.epoch = task.epoch]
  <2>1. host' = [host EXCEPT ![h] = r]
      BY <1>3 DEF FInv, TypeOK
  <2>2. r \in HostRec /\ r.pc = "issue" /\ r.seen = host[h].seen
      BY <1>0 DEF HostRec, Pc
  <2> HIDE DEF r
  <2>3. Claim(r)
      BY <1>0, <2>2 DEF Claim
  <2> QED BY <1>1, <2>1, <2>2, <2>3, LocalStep
<1> QED BY <1>2, <1>3 DEF Prepare

LEMMA AcceptStep ==
    ASSUME FInv, NEW h \in Host, Accept(h)
    PROVE  FInv' /\ Maps
<1>0. /\ TypeOK /\ task \in Snapshot /\ task.rev \in Nat /\ Claim(host[h])
      /\ host[h].pc = "accept" /\ host[h].pc \in Holding
    BY SnapshotFields DEF Accept, FInv, TypeOK, At, Holding, Pc
<1>1. /\ UNCHANGED <<created, task, own, tool>>
      /\ others' \in Nat /\ faults' \in Nat /\ external' \in Nat
    BY DEF Accept, FInv, TypeOK
<1>2. CASE Go(h, "idle")
    BY <1>1, <1>2, IdleStep
<1>3. CASE Acceptable(h) /\ Hold(h, "resolve", task)
  <2>1. PICK r \in HostRec : /\ r.pc = "resolve" /\ r.seen = task /\ r.epoch = host[h].epoch
                             /\ host' = [host EXCEPT ![h] = r]
      BY <1>0, <1>3, HoldRecord DEF Pc
  <2>2. Claim(r)
      BY <1>0, <1>3, <2>1 DEF Claim, Acceptable
  <2> QED BY <1>1, <2>1, <2>2, LocalStep
<1> QED BY <1>2, <1>3 DEF Accept

LEMMA VerifyStep ==
    ASSUME FInv, NEW h \in Host, VerifyReceipt(h)
    PROVE  FInv' /\ Maps
<1>0. /\ TypeOK /\ Claim(host[h]) /\ host[h].pc = "verify" /\ host[h].pc \in Holding
    BY DEF VerifyReceipt, FInv, At, Holding, Pc
<1>1. /\ UNCHANGED <<created, task, own, tool>>
      /\ others' \in Nat /\ faults' \in Nat /\ external' \in Nat
    BY DEF VerifyReceipt, FInv, TypeOK
<1>2. CASE Go(h, "idle")
    BY <1>1, <1>2, IdleStep
<1>3. CASE Confirmed /\ Go(h, "resolve")
  <2>1. PICK r \in HostRec : /\ r.pc = "resolve" /\ r.seen = host[h].seen
                             /\ r.kind = host[h].kind
                             /\ host' = [host EXCEPT ![h] = r]
      BY <1>0, <1>3, GoRecord DEF Pc
  <2>2. tool = 1
      BY <1>3 DEF Confirmed, FInv, TaskInv
  <2>3. Claim(r)
      BY <1>0, <2>1, <2>2 DEF Claim
  <2> QED BY <1>1, <2>1, <2>3, LocalStep
<1> QED BY <1>2, <1>3 DEF VerifyReceipt

LEMMA HistoryStep ==
    ASSUME FInv, NEW h \in Host, ReadHistory(h)
    PROVE  FInv' /\ Maps
<1> DEFINE pc == IF Remembered THEN "finish" ELSE "append"
           r == [[host[h] EXCEPT !.pc = pc] EXCEPT !.expected = own + others]
<1>0. /\ host[h] \in HostRec /\ Claim(host[h])
      /\ host[h].pc = "history" /\ host[h].pc \in Holding
    BY DEF ReadHistory, FInv, TypeOK, HostRec, At, Holding, Pc
<1>1. /\ UNCHANGED <<created, task, own, tool>>
      /\ others' \in Nat /\ faults' \in Nat /\ external' \in Nat
    BY DEF ReadHistory, FInv, TypeOK
<1>2. pc \in Pc /\ pc \in {"finish", "append"} /\ (pc = "finish" => own = 1)
    BY DEF Pc, Remembered, FInv, TaskInv
<1>3. host' = [host EXCEPT ![h] = r]
    BY DEF ReadHistory, FInv, TypeOK
<1> HIDE DEF pc
<1>4. own + others \in Nat
    BY DEF FInv, TypeOK
<1>5. r \in HostRec /\ r.pc = pc /\ r.seen = host[h].seen
    BY <1>0, <1>2, <1>4 DEF HostRec
<1> HIDE DEF r
<1>6. Claim(r)
    BY <1>0, <1>2, <1>5 DEF Claim
<1> QED BY <1>1, <1>2, <1>3, <1>5, <1>6, LocalStep

LEMMA StopStep ==
    ASSUME FInv, NEW h \in Host, Stop(h)
    PROVE  FInv' /\ Maps
<1>1. faults' \in Nat /\ others' \in Nat /\ external' \in Nat
    BY DEF Stop, FInv, TypeOK
<1> QED BY <1>1, IdleStep DEF Stop

-----------------------------------------------------------------------------
\* The steps that write.

LEMMA CreateStep ==
    ASSUME FInv, NEW h \in Host, Create(h)
    PROVE  FInv' /\ Maps
<1>1. CASE Go(h, "idle") /\ UNCHANGED <<created, task>>
  <2>1. /\ UNCHANGED <<created, task, own, tool>>
        /\ others' \in Nat /\ faults' \in Nat /\ external' \in Nat
      BY <1>1 DEF Create, FInv, TypeOK
  <2> QED BY <1>1, <2>1, IdleStep
<1>2. CASE ~created /\ created' = TRUE /\ task' = Start /\ Hold(h, "reserve", Start)
  <2>1. /\ Start \in Snapshot /\ Start.eff[Own] = "absent" /\ Start.step = "fixture-start"
        /\ UNCHANGED <<own, others, tool, faults, external>>
      BY NewTaskType DEF Start, Create
  <2>2. task = Start /\ own = 0
      BY <1>2 DEF FInv, TaskInv
  <2>3. PICK r \in HostRec : r.pc = "reserve" /\ r.seen = Start /\ host' = [host EXCEPT ![h] = r]
      BY <1>2, <2>1, HoldRecord DEF FInv, Pc
  <2>4. host'[h] = r /\ \A g \in Host \ {h} : host'[g] = host[g]
      BY <2>3 DEF FInv, TypeOK
  <2>5. \A g \in Host : host[g].pc \notin Holding
      BY <1>2 DEF FInv, Claim
  <2>6. \A g \in Host : ~At(g, "dispatch")
      BY <2>5 DEF At, Holding, Pc
  <2>7. TypeOK'
      BY <1>2, <2>1, <2>3 DEF FInv, TypeOK, HostRec
  <2>8. TaskInv'
      BY <1>2, <2>1, <2>2 DEF FInv, TaskInv
  <2>9. ASSUME NEW g \in Host PROVE Claim(host[g])'
    <3>1. CASE g = h
        BY <1>2, <2>1, <2>3, <2>4, <3>1, SnapshotFields DEF Claim
    <3>2. CASE g # h
        BY <1>2, <2>1, <2>4, <2>6, <3>2, OtherClaim
    <3> QED BY <3>1, <3>2
  <2>10. OneDispatcher'
      BY <2>3, <2>4, <2>6 DEF OneDispatcher, At
  <2>11. Maps
      BY <1>2, <2>1 DEF Maps, Phase
  <2> QED BY <2>7, <2>8, <2>9, <2>10, <2>11 DEF FInv
<1> QED BY <1>1, <1>2 DEF Create

LEMMA ReserveStep ==
    ASSUME FInv, NEW h \in Host, Reserve(h)
    PROVE  FInv' /\ Maps
<1> DEFINE s == Checkpointed(task, "fixture-reserved", "fixture", {Own})
           pc == Loaded(host[h].kind, s)
<1>0. /\ task \in Snapshot /\ Claim(host[h]) /\ host[h].kind \in {"run", "reconcile"}
      /\ host[h].pc = "reserve" /\ host[h].pc \in Holding
      /\ UNCHANGED <<created, own, others, tool, faults, external>>
    BY DEF Reserve, FInv, TypeOK, At, Holding, Pc
<1>1. CASE Stale(h)
    BY <1>0, <1>1, StaleStep
<1>2. CASE Swap(h, pc, s)
  <2>1. host[h].seen = Start /\ host[h].seen.rev = task.rev /\ created
      BY <1>0, <1>2 DEF Swap, Fresh, Current, Claim
  <2>2. task = Start /\ task.eff[Own] = "absent"
      BY <1>0, <2>1, NewTaskType DEF Claim, Start
  <2>3. /\ s \in Snapshot /\ s.rev = task.rev + 1 /\ s.step = "fixture-reserved"
        /\ s.eff[Own] = "pending"
      BY <1>0, CheckpointedRow, OwnAssumption
  <2>4. pc \in {"idle", "prepare"}
      BY <1>0, <2>3, LoadedStep
  <2>5. task' = s
      BY <1>2 DEF Swap
  <2> HIDE DEF s, pc
  <2>6. tool = 0 /\ own = 0
      BY <2>2 DEF FInv, TaskInv
  <2>7. TaskInv'
      BY <1>0, <2>1, <2>3, <2>5, <2>6 DEF TaskInv
  <2>8. FInv'
      BY <1>0, <1>2, <2>2, <2>3, <2>4, <2>7, SwapStep DEF Pc
  <2>9. Phase = "unreserved" /\ Phase' = "reserved"
      BY <1>0, <2>1, <2>2, <2>3, <2>5 DEF Phase
  <2>10. Maps
      BY <1>0, <2>9 DEF Maps, Lifecycle!Next, Lifecycle!Reserve
  <2> QED BY <2>8, <2>10
<1> QED BY <1>1, <1>2 DEF Reserve

LEMMA IssueStep ==
    ASSUME FInv, NEW h \in Host, Issue(h)
    PROVE  FInv' /\ Maps
<1> DEFINE s == Issued(task, Own)
<1>0. /\ task \in Snapshot /\ Claim(host[h])
      /\ host[h].pc = "issue" /\ host[h].pc \in Holding
      /\ UNCHANGED <<created, own, others, tool, faults, external>>
    BY DEF Issue, FInv, TypeOK, At, Holding, Pc
<1>1. CASE Stale(h)
    BY <1>0, <1>1, StaleStep
<1>2. CASE task.eff[Own] = "pending" /\ Swap(h, "dispatch", s)
  <2>1. /\ s \in Snapshot /\ s.rev = task.rev + 1 /\ s.step = task.step
        /\ s.eff[Own] = "unknown"
      BY <1>0, EffectRow DEF Issued, EffectStatus
  <2>2. task' = s /\ created
      BY <1>0, <1>2 DEF Swap, Claim
  <2> HIDE DEF s
  <2>3. task.step # "fixture-done" /\ tool = 0 /\ own = 0
      BY <1>2 DEF FInv, TaskInv
  <2>4. TaskInv'
      BY <1>0, <2>1, <2>2, <2>3 DEF TaskInv
  <2>5. FInv'
      BY <1>0, <1>2, <2>1, <2>4, SwapStep DEF Pc
  <2>6. Phase = "reserved" /\ Phase' = "issued"
      BY <1>0, <1>2, <2>1, <2>2, <2>3 DEF Phase
  <2>7. Maps
      BY <1>0, <2>6 DEF Maps, Lifecycle!Next, Lifecycle!Issue
  <2> QED BY <2>5, <2>7
<1> QED BY <1>1, <1>2 DEF Issue, MayIssue

LEMMA ResolveStep ==
    ASSUME FInv, NEW h \in Host, Resolve(h)
    PROVE  FInv' /\ Maps
<1> DEFINE s == Resolved(task, Own)
           pc == IF host[h].kind = "run" THEN "history" ELSE "idle"
<1>0. /\ task \in Snapshot /\ Claim(host[h])
      /\ host[h].pc = "resolve" /\ host[h].pc \in Holding
      /\ UNCHANGED <<created, own, others, tool, faults, external>>
    BY DEF Resolve, FInv, TypeOK, At, Holding, Pc
<1>1. CASE Stale(h)
    BY <1>0, <1>1, StaleStep
<1>2. CASE task.eff[Own] = "unknown" /\ Swap(h, pc, s)
  <2>1. /\ s \in Snapshot /\ s.rev = task.rev + 1 /\ s.step = task.step
        /\ s.eff[Own] = "resolved"
      BY <1>0, EffectRow DEF Resolved, EffectStatus
  <2>2. task' = s /\ created /\ tool = 1
      BY <1>0, <1>2 DEF Swap, Claim
  <2>3. pc \in {"history", "idle"}
      OBVIOUS
  <2> HIDE DEF s, pc
  <2>4. task.step # "fixture-done" /\ own = 0
      BY <1>2 DEF FInv, TaskInv
  <2>5. TaskInv'
      BY <1>0, <2>1, <2>2, <2>4 DEF TaskInv
  <2>6. FInv'
      BY <1>0, <1>2, <2>1, <2>2, <2>3, <2>5, SwapStep DEF Pc
  <2>7. Phase = "issued" /\ Phase' = "resolved"
      BY <1>0, <1>2, <2>1, <2>2, <2>4 DEF Phase
  <2>8. Maps
      BY <1>0, <2>2, <2>7 DEF Maps, Lifecycle!Next, Lifecycle!Resolve
  <2> QED BY <2>6, <2>8
<1> QED BY <1>1, <1>2 DEF Resolve, MayResolve

LEMMA FinishStep ==
    ASSUME FInv, NEW h \in Host, Finish(h)
    PROVE  FInv' /\ Maps
<1> DEFINE s == Checkpointed(task, "fixture-done", "fixture-done", {})
<1>0. /\ task \in Snapshot /\ Claim(host[h])
      /\ host[h].pc = "finish" /\ host[h].pc \in Holding
      /\ UNCHANGED <<created, own, others, tool, faults, external>>
    BY DEF Finish, FInv, TypeOK, At, Holding, Pc
<1>1. CASE Stale(h)
    BY <1>0, <1>1, StaleStep
<1>2. CASE host[h].seen.step # "fixture-done" /\ Swap(h, "idle", s)
  <2>1. /\ s \in Snapshot /\ s.rev = task.rev + 1 /\ s.step = "fixture-done"
        /\ s.eff[Own] = task.eff[Own]
      BY <1>0, CheckpointedRow
  <2>2. task' = s /\ created /\ own = 1 /\ task.eff[Own] = "resolved"
      BY <1>0, <1>2 DEF Swap, Claim
  <2>3. task = host[h].seen
      BY <1>0, <1>2 DEF Swap, Fresh, Current, Claim
  <2> HIDE DEF s
  <2>4. TaskInv'
      BY <1>0, <2>1, <2>2 DEF TaskInv, FInv
  <2>5. FInv'
      BY <1>0, <1>2, <2>1, <2>2, <2>4, SwapStep DEF Pc
  <2>6. Phase = "resolved" /\ Phase' = "done"
      BY <1>0, <1>2, <2>1, <2>2, <2>3 DEF Phase
  <2>7. Maps
      BY <1>0, <2>2, <2>6 DEF Maps, Lifecycle!Next, Lifecycle!Finish
  <2> QED BY <2>5, <2>7
<1> QED BY <1>1, <1>2 DEF Finish

LEMMA DispatchStep ==
    ASSUME FInv, NEW h \in Host, Dispatch(h)
    PROVE  FInv' /\ Maps
<1>0. /\ task \in Snapshot /\ Claim(host[h])
      /\ host[h].pc = "dispatch" /\ host[h].pc \in Holding
      /\ UNCHANGED <<created, task, own, others, faults, external>>
    BY DEF Dispatch, FInv, TypeOK, At, Holding, Pc
<1>1. created /\ task.eff[Own] = "unknown" /\ tool = 0 /\ tool' = 1
    BY <1>0 DEF Claim, Dispatch
<1>2. PICK r \in HostRec : r.pc = "accept" /\ r.seen = host[h].seen /\ host' = [host EXCEPT ![h] = r]
    BY GoRecord DEF Dispatch, FInv, Pc
<1>3. host'[h] = r /\ \A g \in Host \ {h} : host'[g] = host[g]
    BY <1>2 DEF FInv, TypeOK
<1>4. \A g \in Host \ {h} : ~At(g, "dispatch")
    BY <1>0 DEF FInv, OneDispatcher, At
<1>5. TypeOK'
    BY <1>0, <1>1, <1>2 DEF FInv, TypeOK, HostRec
<1>6. TaskInv'
    BY <1>0, <1>1 DEF FInv, TaskInv
<1>7. ASSUME NEW g \in Host PROVE Claim(host[g])'
  <2>1. CASE g = h
      BY <1>0, <1>1, <1>2, <1>3, <2>1 DEF Claim
  <2>2. CASE g # h
      BY <1>0, <1>1, <1>3, <1>4, <2>2, OtherClaim
  <2> QED BY <2>1, <2>2
<1>8. OneDispatcher'
    BY <1>2, <1>3, <1>4 DEF OneDispatcher, At
<1>9. Phase = "issued" /\ Phase' = "issued"
    BY <1>0, <1>1 DEF Phase, FInv, TaskInv
<1>10. Maps
    BY <1>0, <1>1, <1>9 DEF Maps, Lifecycle!Next, Lifecycle!Dispatch
<1> QED BY <1>5, <1>6, <1>7, <1>8, <1>10 DEF FInv

LEMMA AppendStep ==
    ASSUME FInv, NEW h \in Host, Append(h)
    PROVE  FInv' /\ Maps
<1>0. /\ task \in Snapshot /\ Claim(host[h])
      /\ host[h].pc = "append" /\ host[h].pc \in Holding
      /\ UNCHANGED <<created, task, others, tool, faults, external>>
    BY DEF Append, FInv, TypeOK, At, Holding, Pc
<1>1. CASE Go(h, "idle") /\ UNCHANGED own
    BY <1>0, <1>1, IdleStep DEF FInv, TypeOK
<1>2. CASE ~Remembered /\ own' = own + 1 /\ Go(h, "finish")
  <2>1. own = 0 /\ own' = 1 /\ created /\ task.eff[Own] = "resolved"
      BY <1>0, <1>2 DEF Remembered, FInv, TaskInv, Claim
  <2>2. PICK r \in HostRec : r.pc = "finish" /\ r.seen = host[h].seen /\ host' = [host EXCEPT ![h] = r]
      BY <1>2, GoRecord DEF FInv, Pc
  <2>3. host'[h] = r /\ \A g \in Host \ {h} : host'[g] = host[g]
      BY <2>2 DEF FInv, TypeOK
  <2>4. \A g \in Host : ~At(g, "dispatch")
      BY <2>1 DEF FInv, Claim, At
  <2>5. TypeOK'
      BY <1>0, <2>1, <2>2 DEF FInv, TypeOK, HostRec
  <2>6. TaskInv'
      BY <1>0, <2>1 DEF FInv, TaskInv
  <2>7. ASSUME NEW g \in Host PROVE Claim(host[g])'
    <3>1. CASE g = h
        BY <1>0, <2>1, <2>2, <2>3, <3>1 DEF Claim
    <3>2. CASE g # h
        BY <1>0, <2>1, <2>3, <2>4, <3>2, OtherClaim
    <3> QED BY <3>1, <3>2
  <2>8. OneDispatcher'
      BY <2>2, <2>3, <2>4 DEF OneDispatcher, At
  <2>9. Phase = "resolved" /\ Phase' = "resolved"
    <3>1. task.step # "fixture-done"
        BY <2>1 DEF FInv, TaskInv
    <3> QED BY <1>0, <2>1, <3>1 DEF Phase
  <2>10. Maps
      BY <1>0, <2>1, <2>9 DEF Maps, Lifecycle!Next, Lifecycle!Remember
  <2> QED BY <2>5, <2>6, <2>7, <2>8, <2>10 DEF FInv
<1> QED BY <1>1, <1>2 DEF Append

-----------------------------------------------------------------------------
\* Writes by others: a new epoch, the creation of the row, other records.

LEMMA OutsideStep ==
    ASSUME FInv, ExternalResume \/ ExternalCreate \/ ExternalMemory
    PROVE  FInv' /\ Maps
<1>0. task \in Snapshot /\ task.rev \in Nat
    BY SnapshotFields DEF FInv, TypeOK
<1>1. /\ UNCHANGED <<own, host, tool, faults>> /\ external' \in Nat /\ others' \in Nat
    BY DEF ExternalResume, ExternalCreate, ExternalMemory, Outside, FInv, TypeOK
<1>2. /\ task' \in Snapshot /\ created' \in BOOLEAN
      /\ task'.eff[Own] = task.eff[Own]
      /\ task'.step = "fixture-done" => task.step = "fixture-done"
      /\ created => created' /\ task'.step = task.step /\ (task' = task \/ task'.rev > task.rev)
      /\ ~created' => task' = task
      /\ ~created => task.eff[Own] = "absent"
  <2>1. CASE ExternalResume
      BY <1>0, <2>1, ResumedRow DEF ExternalResume, FInv, TypeOK
  <2>2. CASE ExternalCreate
    <3>1. PICK plan \in {"plan5", "foreign"}, step \in {"fixture-start", "fixture-reserved"} :
             task' = NewTask(plan, step)
        BY <2>2 DEF ExternalCreate
    <3>2. ~created /\ created' = TRUE /\ task = Start
        BY <2>2 DEF ExternalCreate, FInv, TaskInv
    <3>3. /\ task' \in Snapshot /\ task'.eff[Own] = "absent" /\ task'.step = step
          /\ task.eff[Own] = "absent"
        BY <3>1, <3>2, NewTaskType DEF Start
    <3> QED BY <3>2, <3>3
  <2>3. CASE ExternalMemory
    <3>1. UNCHANGED <<created, task>>
        BY <2>3 DEF ExternalMemory
    <3>2. ~created => task.eff[Own] = "absent"
        BY NewTaskType DEF FInv, TaskInv, Start
    <3> QED BY <1>0, <3>1, <3>2 DEF FInv, TypeOK
  <2> QED BY <2>1, <2>2, <2>3
<1>3. TypeOK'
    BY <1>1, <1>2 DEF FInv, TypeOK
<1>4. TaskInv'
    BY <1>1, <1>2 DEF FInv, TaskInv
<1>5. OneDispatcher'
    BY <1>1 DEF FInv, OneDispatcher, At
<1>6. \A g \in Host : Claim(host[g])'
  <2> SUFFICES ASSUME NEW g \in Host PROVE Claim(host[g])'
      OBVIOUS
  <2>1. At(g, "dispatch") => task.eff[Own] = "unknown" /\ tool = 0
      BY DEF FInv, Claim, At
  <2> QED BY <1>1, <1>2, <2>1, OtherClaim
<1>7. Phase' = Phase
  <2>1. CASE created
      BY <1>2, <2>1, SamePhase DEF FInv, TypeOK
  <2>2. CASE ~created
      BY <1>2, <2>2 DEF Phase
  <2> QED BY <2>1, <2>2
<1>8. Maps
    BY <1>1, <1>7 DEF Maps
<1> QED BY <1>3, <1>4, <1>5, <1>6, <1>8 DEF FInv

LEMMA StepFInv == FInv /\ [Next]_vars => FInv' /\ Maps
<1> SUFFICES ASSUME FInv, [Next]_vars PROVE FInv' /\ Maps
    OBVIOUS
<1>1. ASSUME NEW h \in Host, Continue(h) PROVE FInv' /\ Maps
    BY <1>1, LoadStep, CreateStep, ReserveStep, PrepareStep, IssueStep, DispatchStep,
       AcceptStep, ResolveStep, VerifyStep, HistoryStep, AppendStep, FinishStep
    DEF Continue
<1>2. ASSUME NEW h \in Host, NEW kind \in {"run", "reconcile"}, Call(h, kind)
      PROVE  FInv' /\ Maps
    BY <1>2, CallStep
<1>3. ASSUME NEW h \in Host, Stop(h) PROVE FInv' /\ Maps
    BY <1>3, StopStep
<1>4. CASE ExternalResume \/ ExternalCreate \/ ExternalMemory
    BY <1>4, OutsideStep
<1>5. CASE UNCHANGED vars
  <2>1. FInv'
      BY <1>5 DEF vars, FInv, TypeOK, TaskInv, OneDispatcher, At, Claim
  <2>2. Maps
      BY <1>5 DEF vars, Maps, Phase
  <2> QED BY <2>1, <2>2
<1> QED BY <1>1, <1>2, <1>3, <1>4, <1>5 DEF Next

LEMMA Invariant == Spec => []FInv
<1>1. FInv /\ [Next]_vars => FInv'
    BY StepFInv
<1> QED BY <1>1, InitFInv, PTL DEF Spec

\* A step of a host changes its own record only.
LEMMA OneRecord ==
    ASSUME TypeOK, NEW h \in Host,
           Continue(h) \/ Stop(h) \/ \E kind \in {"run", "reconcile"} : Call(h, kind)
    PROVE  \E r : host' = [host EXCEPT ![h] = r]
<1>1. ASSUME NEW pc \in Pc, Go(h, pc) PROVE \E r : host' = [host EXCEPT ![h] = r]
    BY <1>1 DEF Go
<1>2. ASSUME NEW pc, NEW s, Hold(h, pc, s) PROVE \E r : host' = [host EXCEPT ![h] = r]
  <2> DEFINE r == [[host[h] EXCEPT !.pc = pc] EXCEPT !.seen = s]
  <2>1. host' = [host EXCEPT ![h] = r]
      BY <1>2 DEF Hold, TypeOK
  <2> HIDE DEF r
  <2> QED BY <2>1
<1>3. CASE Prepare(h)
  <2>1. CASE Go(h, "idle")
      BY <1>1, <2>1 DEF Pc
  <2>2. CASE host' = [host EXCEPT ![h].pc = "issue", ![h].epoch = task.epoch]
    <3> DEFINE r == [[host[h] EXCEPT !.pc = "issue"] EXCEPT !.epoch = task.epoch]
    <3>1. host' = [host EXCEPT ![h] = r]
        BY <2>2 DEF TypeOK
    <3> HIDE DEF r
    <3> QED BY <3>1
  <2> QED BY <1>3, <2>1, <2>2 DEF Prepare
<1>4. CASE ReadHistory(h)
  <2> DEFINE pc == IF Remembered THEN "finish" ELSE "append"
             r == [[host[h] EXCEPT !.pc = pc] EXCEPT !.expected = own + others]
  <2>1. host' = [host EXCEPT ![h] = r]
      BY <1>4 DEF ReadHistory, TypeOK
  <2> HIDE DEF r
  <2> QED BY <2>1
<1>5. CASE \E kind \in {"run", "reconcile"} : Call(h, kind)
    BY <1>5 DEF Call
<1>6. CASE Load(h) \/ Create(h) \/ Accept(h)
    BY <1>1, <1>2, <1>6 DEF Load, Create, Accept, Pc
<1>7. CASE Reserve(h) \/ Issue(h) \/ Resolve(h) \/ Finish(h)
    BY <1>1, <1>2, <1>7 DEF Reserve, Issue, Resolve, Finish, Swap, Stale, Pc
<1>8. CASE Dispatch(h) \/ Append(h) \/ VerifyReceipt(h) \/ Stop(h)
    BY <1>1, <1>8 DEF Dispatch, Append, VerifyReceipt, Stop, Pc
<1> QED
    BY <1>3, <1>4, <1>5, <1>6, <1>7, <1>8 DEF Continue

-----------------------------------------------------------------------------
\* What FixtureRuntime writes, and what each call in progress holds, has its
\* type, for any number of hosts.
THEOREM TypeCorrect == Spec => []TypeOK
<1>1. FInv => TypeOK
    BY DEF FInv
<1> QED BY <1>1, Invariant, PTL

\* However hosts interleave, die and retry, the effect goes through the
\* lifecycle of the contract: one dispatch, after issue; a receipt only for a
\* dispatch; one record, only of a resolved effect; done only when remembered.
THEOREM LifecycleRefinement == Spec => ImplementsLifecycle
<1>1. Init => Lifecycle!Init
  <2> SUFFICES ASSUME Init PROVE Lifecycle!Init
      OBVIOUS
  <2>1. Phase = "unreserved"
      BY DEF Init, Phase
  <2> QED BY <2>1 DEF Init, Lifecycle!Init
<1>2. FInv /\ [Next]_vars => [Lifecycle!Next]_<<Phase, tool, own>>
    BY StepFInv DEF Maps
<1> QED
    BY <1>1, <1>2, Invariant, PTL DEF Spec, ImplementsLifecycle, Lifecycle!Spec,
       Lifecycle!lifecycle

\* accept_result takes a result only in the control epoch of its call: between
\* prepare and the receipt no one has resumed the task.
THEOREM LateResult == Spec => LateResultRefused
<1>1. ASSUME FInv, [Next]_vars, NEW h \in Host,
             host[h].pc = "resolve", host[h].kind = "run", host'[h].pc = "history"
      PROVE  task'.epoch = host[h].epoch
  <2>1. host' # host
      BY <1>1
  <2>2. PICK g \in Host : Continue(g) \/ Stop(g) \/ \E kind \in {"run", "reconcile"} : Call(g, kind)
      BY <1>1, <2>1 DEF Next, vars, ExternalResume, ExternalCreate, ExternalMemory
  <2>3. g = h
    <3>1. \E r : host' = [host EXCEPT ![g] = r]
        BY <1>1, <2>2, OneRecord DEF FInv
    <3> QED BY <1>1, <3>1 DEF FInv, TypeOK
  <2>4. Resolve(h)
    <3>1. Continue(h)
        BY <1>1, <2>2, <2>3 DEF Stop, Go, Call, At, FInv, TypeOK
    <3> QED
        BY <1>1, <3>1 DEF Continue, Load, Create, Reserve, Prepare, Issue, Dispatch,
           Accept, VerifyReceipt, ReadHistory, Append, Finish, At
  <2>5. Claim(host[h]) /\ task \in Snapshot
      BY <1>1 DEF FInv, TypeOK
  <2>6. Swap(h, "history", Resolved(task, Own))
      BY <1>1, <2>4 DEF Resolve, Stale, Go, FInv, TypeOK
  <2>7. task' = Resolved(task, Own) /\ task.epoch = host[h].seen.epoch
      BY <2>6 DEF Swap, Fresh, Current
  <2>8. task'.epoch = task.epoch
      BY <2>5, <2>7, EffectRow DEF Resolved, EffectStatus
  <2> QED BY <1>1, <2>5, <2>7, <2>8 DEF Claim
<1>2. FInv /\ [Next]_vars =>
        [\A h \in Host :
          /\ host[h].pc = "resolve" /\ host[h].kind = "run"
          /\ host'[h].pc = "history"
          => task'.epoch = host[h].epoch]_vars
    BY <1>1
<1> QED BY <1>2, Invariant, PTL DEF Spec, LateResultRefused
=============================================================================
