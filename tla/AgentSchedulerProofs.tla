------------------------ MODULE AgentSchedulerProofs ------------------------
(***************************************************************************)
(* Theorems about AgentScheduler, for every set of tasks, effects, offers, *)
(* budgets and bounds.  TypeOK is not inductive: that the row an open      *)
(* transaction will commit is valid depends on which call the transaction  *)
(* belongs to and on the row it read, because no other scheduler           *)
(* transaction commits in between.  TxInv says so; LeaseInv adds that no   *)
(* row is leased while an acquire is open.  ChargeInv relates the steps    *)
(* charged, the steps made durable and the crashes: what ChargesMatchWork  *)
(* says of a closed transaction depends on what an open one has in hand.   *)
(*                                                                         *)
(* What relates the queue, the task store and the leases to one another    *)
(* needs IInv and three invariants more: StoreInv (the row a transaction   *)
(* will commit speaks of a task, an epoch and a revision TaskStore already *)
(* has), EpochInv (an acquire about to commit has an epoch no lease had    *)
(* before) and SaveInv (a checkpoint's snapshot is safe unless the         *)
(* compare-and-swap is going to fail).                                     *)
(***************************************************************************)
EXTENDS AgentScheduler, TLAPS

\* What an open transaction knows, by its next step.
TxInv ==
    /\ tx.pc = "scan" =>
          tx.kind = "acquire" /\ \A u \in tx.todo : queue[u].status = "ready"
    /\ tx.pc \in {"load", "resume", "save"} => row = queue[tx.task]
    /\ tx.pc = "load" =>
          /\ tx.kind # "acquire"
          /\ tx.kind = "register" => row.status = "absent"
          /\ tx.kind \in {"checkpoint", "complete"} => row.status = "leased"
          /\ tx.kind = "reconcile" => row.status \in Recoverable
    /\ tx.pc = "create" =>
          /\ tx.kind = "register" /\ queue[tx.task].status = "absent"
          /\ row.status = "ready" /\ ValidEntry(tx.task, row)
    /\ tx.pc = "resume" =>
          /\ tx.kind \in {"acquire", "reconcile"}
          /\ row.status \in {"ready", "leased", "paused"}
          /\ row.reason # "budget_exhausted"
    /\ tx.pc = "save" =>
          /\ tx.kind = "checkpoint" /\ row.status = "leased"
          /\ Affordable(tx.task, row.spent + tx.used)
    /\ tx.pc = "commit" =>
          /\ row.status # "absent" /\ ValidEntry(tx.task, row)
          /\ row.status = "leased" <=> tx.kind = "acquire"
          /\ queue[tx.task].status # "done"
          /\ queue[tx.task].reason # "budget_exhausted"

\* While an acquire is open no row is leased, and at most one ever is.
LeaseInv ==
    /\ AtMostOneLease
    /\ tx.pc # "idle" /\ tx.kind = "acquire" => NoneLeased

IInv == TypeOK /\ TxInv /\ LeaseInv

-----------------------------------------------------------------------------
\* Typing lemmas.

LEMMA NewTaskType ==
    ASSUME NEW plan \in Plan, NEW step \in StepId
    PROVE  NewTask(plan, step) \in Snapshot
BY DEF NewTask, Snapshot, SnapshotOf, EffectStatus

\* resume yields a snapshot, one epoch and one revision further.
LEMMA ResumedType ==
    ASSUME NEW s \in Snapshot
    PROVE  /\ Resumed(s) \in Snapshot
           /\ Resumed(s).epoch = s.epoch + 1 /\ Resumed(s).rev = s.rev + 1
           /\ Resumed(s).eff = s.eff
<1> DEFINE a == [s EXCEPT !.rev = @ + 1]
<1>1. a \in Snapshot /\ a.epoch = s.epoch
    BY DEF Snapshot, SnapshotOf
<1>2. Resumed(s) = [a EXCEPT !.epoch = @ + 1]
    BY DEF Resumed, Snapshot, SnapshotOf
<1>3. /\ Resumed(s).epoch = s.epoch + 1 /\ Resumed(s).rev = s.rev + 1
      /\ Resumed(s).eff = s.eff
    BY DEF Resumed, Snapshot, SnapshotOf
<1> HIDE DEF a
<1> QED
    BY <1>1, <1>2, <1>3 DEF Snapshot, SnapshotOf

\* checkpoint yields a snapshot of the same epoch, one revision further.
LEMMA CheckpointedType ==
    ASSUME NEW s \in Snapshot, NEW step \in StepId,
           NEW ckpt \in CheckpointId \union {"initial"}, NEW new \in SUBSET Effect
    PROVE  /\ Checkpointed(s, step, ckpt, new) \in Snapshot
           /\ Checkpointed(s, step, ckpt, new).epoch = s.epoch
           /\ Checkpointed(s, step, ckpt, new).rev = s.rev + 1
<1> DEFINE eff == [e \in Effect |-> IF e \in new THEN "pending" ELSE s.eff[e]]
           a == [s EXCEPT !.rev = @ + 1]
           b == [a EXCEPT !.step = step]
           c == [b EXCEPT !.ckpt = ckpt]
           r == Checkpointed(s, step, ckpt, new)
<1>1. eff \in [Effect -> EffectStatus]
    BY DEF Snapshot, SnapshotOf, EffectStatus
<1>2. r = [c EXCEPT !.eff = eff]
    BY DEF Checkpointed, Snapshot, SnapshotOf
<1>3. r.epoch = s.epoch /\ r.rev = s.rev + 1
    BY DEF Checkpointed, Snapshot, SnapshotOf
<1> HIDE DEF eff, r
<1>4. a \in Snapshot
    BY DEF Snapshot, SnapshotOf
<1> HIDE DEF a
<1>5. b \in Snapshot
    BY <1>4 DEF Snapshot, SnapshotOf
<1> HIDE DEF b
<1>6. c \in Snapshot
    BY <1>5 DEF Snapshot, SnapshotOf
<1> HIDE DEF c
<1>7. r \in Snapshot
    BY <1>1, <1>2, <1>6 DEF Snapshot, SnapshotOf
<1> QED
    BY <1>3, <1>7 DEF r

\* So do issue_effect and resolve_effect.
LEMMA EffectStepType ==
    ASSUME NEW s \in Snapshot, NEW e \in Effect, NEW status \in EffectStatus
    PROVE  LET r == [s EXCEPT !.rev = @ + 1, !.eff[e] = status]
           IN  r \in Snapshot /\ r.epoch = s.epoch /\ r.rev = s.rev + 1
<1> DEFINE r == [s EXCEPT !.rev = @ + 1, !.eff[e] = status]
           a == [s EXCEPT !.rev = @ + 1]
           eff == [s.eff EXCEPT ![e] = status]
<1>1. eff \in [Effect -> EffectStatus]
    BY DEF Snapshot, SnapshotOf
<1>2. r = [a EXCEPT !.eff = eff]
    BY DEF Snapshot, SnapshotOf
<1>3. r.epoch = s.epoch /\ r.rev = s.rev + 1
    BY DEF Snapshot, SnapshotOf
<1> HIDE DEF eff, r
<1>4. a \in Snapshot
    BY DEF Snapshot, SnapshotOf
<1> HIDE DEF a
<1>5. r \in Snapshot
    BY <1>1, <1>2, <1>4 DEF Snapshot, SnapshotOf
<1> QED
    BY <1>3, <1>5 DEF r

-----------------------------------------------------------------------------
LEMMA InitInv == Init => IInv
<1> SUFFICES ASSUME Init PROVE IInv
    OBVIOUS
<1>1. TypeOK
    BY NewTaskType, SpecAssumption
    DEF Init, Plan, StepId, TypeOK, NoEntry, Entry, Status, Reason, ValidEntry, Idle
<1>2. TxInv /\ LeaseInv
    BY DEF Init, TxInv, LeaseInv, AtMostOneLease, NoEntry, Idle
<1> QED BY <1>1, <1>2 DEF IInv

\* Opening a transaction reads the row of its task and writes nothing.
LEMMA OpenType ==
    ASSUME TypeOK, tx' \in Tx, row' = queue[tx'.task], UNCHANGED stores
    PROVE  TypeOK'
BY DEF TypeOK, Tx, stores, ghosts

\* A step that ends the transaction and commits nothing keeps IInv.
LEMMA CloseStep ==
    ASSUME IInv, Close, UNCHANGED <<task, created, queue, held, granted, durable>>,
           faults' \in Nat, external' \in Nat
    PROVE  IInv'
<1>1. TypeOK'
    BY DEF IInv, TypeOK, Close, Idle, NoEntry, Entry, Status, Reason
<1>2. TxInv' /\ LeaseInv'
    BY DEF IInv, TxInv, LeaseInv, AtMostOneLease, Close, Idle
<1> QED BY <1>1, <1>2 DEF IInv

\* A write to the tasks database alone keeps it.
LEMMA StoreStep ==
    ASSUME IInv, UNCHANGED <<queue, tx, row, held, granted, durable, faults>>,
           task' \in [Task -> Snapshot], created' \subseteq Task, external' \in Nat
    PROVE  IInv'
<1>1. TypeOK'
    BY DEF IInv, TypeOK
<1>2. TxInv' /\ LeaseInv'
    BY DEF IInv, TxInv, LeaseInv, AtMostOneLease, NoneLeased
<1> QED BY <1>1, <1>2 DEF IInv

-----------------------------------------------------------------------------
\* One lemma per group of actions: each keeps IInv.

LEMMA RegisterInv ==
    ASSUME IInv, (\E t \in Task : BeginRegister(t)) \/ RegisterLoad \/ RegisterCreate
    PROVE  IInv'
<1> USE DEF IInv
<1>1. ASSUME NEW t \in Task, BeginRegister(t) PROVE IInv'
  <2>1. /\ queue[t].status = "absent"
        /\ tx' = [kind |-> "register", pc |-> "load", task |-> t, todo |-> {},
                  used |-> 0, severe |-> FALSE, ckpt |-> "initial"]
        /\ row' = queue[t] /\ UNCHANGED stores
      BY <1>1 DEF BeginRegister, Open
  <2>2. TypeOK' /\ queue' = queue
      BY <2>1, OpenType DEF Tx, stores
  <2>3. TxInv' /\ LeaseInv'
      BY <2>1, <2>2 DEF TxInv, LeaseInv, AtMostOneLease
  <2> QED BY <2>2, <2>3
<1>2. CASE RegisterLoad
  <2>1. /\ tx \in Tx /\ tx.pc = "load" /\ tx.kind = "register"
        /\ row = queue[tx.task] /\ row.status = "absent" /\ row \in Entry
        /\ ValidEntry(tx.task, row)
      BY <1>2 DEF RegisterLoad, TypeOK, TxInv, Idle, Tx
  <2>2. CASE Close /\ UNCHANGED stores
      BY <2>2, CloseStep DEF stores, ghosts, TypeOK
  <2>3. CASE /\ tx' = [tx EXCEPT !.pc = IF tx.task \in created THEN "commit" ELSE "create"]
             /\ row' = [row EXCEPT !.status = "ready"] /\ UNCHANGED stores
    <3>1. /\ tx' \in Tx /\ tx'.pc \in {"commit", "create"} /\ tx'.kind = "register"
          /\ tx'.task = tx.task
        BY <2>1, <2>3 DEF Tx
    <3>2. row' \in Entry /\ ValidEntry(tx.task, row') /\ row'.status = "ready"
        BY <2>1, <2>3 DEF Entry, Status, ValidEntry, Tx
    <3>3. TypeOK'
        BY <2>3, <3>1, <3>2 DEF TypeOK, stores, ghosts
    <3>4. TxInv' /\ LeaseInv'
        BY <2>1, <2>3, <3>1, <3>2
        DEF TxInv, LeaseInv, AtMostOneLease, stores, ValidEntry, TypeOK
    <3> QED BY <3>3, <3>4
  <2> QED BY <1>2, <2>2, <2>3 DEF RegisterLoad
<1>3. CASE RegisterCreate
  <2>1. tx \in Tx /\ tx.pc = "create" /\ tx.kind = "register"
      BY <1>3 DEF RegisterCreate, TypeOK, TxInv, Idle
  <2>2. CASE Rollback
      BY <2>2, CloseStep DEF Rollback, stores, ghosts, TypeOK
  <2>3. CASE ~ Rollback
    <3>1. /\ created' = created \union {tx.task}
          /\ task' = [task EXCEPT ![tx.task] = NewTask("own", "queued")]
          /\ tx' = [tx EXCEPT !.pc = "commit"]
          /\ UNCHANGED <<row, queue, held, ghosts>>
        BY <1>3, <2>3 DEF RegisterCreate
    <3>2. tx' \in Tx /\ tx'.pc = "commit" /\ tx'.kind = "register" /\ tx'.task = tx.task
        BY <2>1, <3>1 DEF Tx
    <3>3. NewTask("own", "queued") \in Snapshot
        BY NewTaskType DEF Plan, StepId
    <3>4. TypeOK'
        BY <2>1, <3>1, <3>2, <3>3 DEF TypeOK, ghosts, Tx
    <3>5. TxInv' /\ LeaseInv'
        BY <2>1, <3>1, <3>2
        DEF TxInv, LeaseInv, AtMostOneLease, ValidEntry, TypeOK, Tx
    <3> QED BY <3>4, <3>5
  <2> QED BY <2>2, <2>3
<1> QED BY <1>1, <1>2, <1>3

LEMMA AcquireInv ==
    ASSUME IInv, (\E o \in Offer, t \in Task : BeginAcquire(o, t)) \/ AcquireScan
    PROVE  IInv'
<1> USE DEF IInv
<1>1. ASSUME NEW o \in Offer, NEW t \in Task, BeginAcquire(o, t) PROVE IInv'
  <2>1. /\ NoneLeased
        /\ tx' = [kind |-> "acquire", pc |-> "scan", task |-> t, todo |-> Eligible(o),
                  used |-> 0, severe |-> FALSE, ckpt |-> "initial"]
        /\ row' = queue[t] /\ UNCHANGED stores
      BY <1>1 DEF BeginAcquire, Open
  <2>2. Eligible(o) \in SUBSET Task /\ \A u \in Eligible(o) : queue[u].status = "ready"
      BY DEF Eligible
  <2>3. TypeOK' /\ queue' = queue
      BY <2>1, <2>2, OpenType DEF Tx, stores
  <2>4. TxInv' /\ LeaseInv'
      BY <2>1, <2>2, <2>3 DEF TxInv, LeaseInv, NoneLeased, AtMostOneLease
  <2> QED BY <2>3, <2>4
<1>2. CASE AcquireScan
  <2>0. tx.pc = "scan" /\ UNCHANGED stores
      BY <1>2 DEF AcquireScan
  <2>1. /\ tx \in Tx /\ tx.pc = "scan" /\ tx.kind = "acquire" /\ NoneLeased
        /\ \A u \in tx.todo : queue[u].status = "ready"
        /\ UNCHANGED stores
      BY <2>0 DEF TypeOK, TxInv, LeaseInv, Idle
  <2>2. PICK u \in tx.todo :
          \/ tx' = [[tx EXCEPT !.pc = "resume"] EXCEPT !.task = u] /\ row' = queue[u]
          \/ tx' = [tx EXCEPT !.todo = @ \ {u}] /\ row' = row
          \/ Close
      BY <1>2 DEF AcquireScan
  <2>3. u \in Task /\ queue[u] \in Entry /\ ValidEntry(u, queue[u])
      BY <2>1 DEF Tx, TypeOK
  <2>4. CASE tx' = [[tx EXCEPT !.pc = "resume"] EXCEPT !.task = u] /\ row' = queue[u]
    <3>1. tx' \in Tx /\ tx'.pc = "resume" /\ tx'.kind = "acquire" /\ tx'.task = u
        BY <2>1, <2>3, <2>4 DEF Tx
    <3>2. TypeOK'
        BY <2>1, <2>3, <2>4, <3>1 DEF TypeOK, stores, ghosts
    <3>3. TxInv' /\ LeaseInv'
        BY <2>1, <2>3, <2>4, <3>1
        DEF TxInv, LeaseInv, NoneLeased, AtMostOneLease, stores, ValidEntry
    <3> QED BY <3>2, <3>3
  <2>5. CASE tx' = [tx EXCEPT !.todo = @ \ {u}] /\ row' = row
    <3>1. /\ tx' \in Tx /\ tx'.pc = "scan" /\ tx'.kind = "acquire"
          /\ tx'.todo = tx.todo \ {u}
        BY <2>1, <2>5 DEF Tx
    <3>2. TypeOK'
        BY <2>1, <2>5, <3>1 DEF TypeOK, stores, ghosts
    <3>3. TxInv' /\ LeaseInv'
        BY <2>1, <2>5, <3>1 DEF TxInv, LeaseInv, NoneLeased, AtMostOneLease, stores
    <3> QED BY <3>2, <3>3
  <2>6. CASE Close
      BY <2>1, <2>6, CloseStep DEF stores, ghosts, TypeOK
  <2> QED BY <2>2, <2>4, <2>5, <2>6
<1> QED BY <1>1, <1>2

LEMMA ResumeInv == ASSUME IInv, Resume PROVE IInv'
<1> USE DEF IInv
<1> DEFINE s == Resumed(task[tx.task])
<1>1. /\ tx \in Tx /\ tx.pc = "resume" /\ tx.kind \in {"acquire", "reconcile"}
      /\ row = queue[tx.task] /\ row.status \in {"ready", "leased", "paused"}
      /\ row.reason # "budget_exhausted"
    BY DEF Resume, TypeOK, TxInv, Idle
<1>2. /\ tx.task \in Task /\ row \in Entry /\ ValidEntry(tx.task, row)
      /\ task[tx.task] \in Snapshot
    BY <1>1 DEF Tx, TypeOK
<1>3. s \in Snapshot
    BY <1>2, ResumedType
<1>4. s.epoch \in Nat /\ s.rev \in Nat
    BY <1>3 DEF Snapshot, SnapshotOf
<1>5. /\ task' = [task EXCEPT ![tx.task] = s]
      /\ row' = NextRow(IF tx.kind = "acquire" THEN "leased" ELSE "ready",
                        row.spent, s.epoch, s.rev, "none")
      /\ tx' = [tx EXCEPT !.pc = "commit"]
      /\ UNCHANGED <<created, queue, held, ghosts>>
    BY DEF Resume
<1> HIDE DEF s
<1>6. tx' \in Tx /\ tx'.pc = "commit" /\ tx'.kind = tx.kind /\ tx'.task = tx.task
    BY <1>1, <1>5 DEF Tx
<1>7. /\ row' \in Entry /\ ValidEntry(tx.task, row') /\ row'.status # "absent"
      /\ row'.status = "leased" <=> tx.kind = "acquire"
    BY <1>1, <1>2, <1>4, <1>5 DEF NextRow, Entry, Status, Reason, ValidEntry
<1>8. TypeOK'
    BY <1>2, <1>3, <1>5, <1>6, <1>7 DEF TypeOK, ghosts
<1>9. TxInv' /\ LeaseInv'
    BY <1>1, <1>2, <1>5, <1>6, <1>7
    DEF TxInv, LeaseInv, NoneLeased, AtMostOneLease, ValidEntry
<1> QED BY <1>8, <1>9

LEMMA BeginWorkInv ==
    ASSUME IInv, NEW k \in held, NEW used \in Steps, NEW severe \in BOOLEAN,
           NEW kind \in {"checkpoint", "complete"},
           NEW ckpt \in CheckpointId \union {"initial"}, queue[k.task].status = "leased",
           tx' = [kind |-> kind, pc |-> "load", task |-> k.task, todo |-> {},
                  used |-> used, severe |-> severe, ckpt |-> ckpt],
           row' = queue[k.task], UNCHANGED stores
    PROVE  IInv'
<1> USE DEF IInv
<1>1. k.task \in Task /\ used \in Nat
    BY InputAssumption DEF TypeOK, Token
<1>2. tx' \in Tx /\ tx'.task = k.task /\ tx'.pc = "load" /\ tx'.kind = kind
    BY <1>1 DEF Tx
<1>3. TypeOK' /\ queue' = queue
    BY <1>2, OpenType DEF stores
<1>4. TxInv' /\ LeaseInv'
    BY <1>1, <1>2, <1>3 DEF TxInv, LeaseInv, AtMostOneLease
<1> QED BY <1>3, <1>4

LEMMA BeginCheckpointInv ==
    ASSUME IInv, NEW k \in held, NEW used \in Steps, NEW severe \in BOOLEAN,
           NEW c \in CheckpointId, BeginCheckpoint(k, used, severe, c)
    PROVE  IInv'
BY BeginWorkInv DEF BeginCheckpoint, QueueAccepts, Open

LEMMA BeginCompleteInv ==
    ASSUME IInv, NEW k \in held, NEW used \in Steps, BeginComplete(k, used)
    PROVE  IInv'
BY BeginWorkInv DEF BeginComplete, QueueAccepts, Open

LEMMA LoadActiveInv == ASSUME IInv, LoadActive PROVE IInv'
<1> USE DEF IInv
<1> DEFINE spent == Charged(row, tx.used)
<1>1. tx.pc = "load" /\ tx.kind \in {"checkpoint", "complete"} /\ UNCHANGED stores
    BY DEF LoadActive
<1>2. tx \in Tx /\ row = queue[tx.task] /\ row.status = "leased"
    BY <1>1 DEF TypeOK, TxInv, Idle
<1>3. tx.task \in Task /\ tx.used \in Nat /\ row \in Entry /\ ValidEntry(tx.task, row)
    BY <1>2 DEF Tx, TypeOK
<1>4. spent \in Nat /\ spent = row.spent + tx.used
    BY <1>3 DEF Entry, Charged
<1> HIDE DEF spent
<1>5. CASE Close
    BY <1>1, <1>5, CloseStep DEF stores, ghosts, TypeOK
<1>6. CASE /\ Affordable(tx.task, spent) /\ tx.kind = "checkpoint"
           /\ tx' = [tx EXCEPT !.pc = "save"] /\ row' = row
  <2>1. /\ tx' \in Tx /\ tx'.pc = "save" /\ tx'.kind = "checkpoint"
        /\ tx'.task = tx.task /\ tx'.used = tx.used
      BY <1>2, <1>6 DEF Tx
  <2>2. TypeOK'
      BY <1>1, <1>6, <2>1 DEF TypeOK, stores, ghosts
  <2>3. TxInv' /\ LeaseInv'
      BY <1>1, <1>2, <1>4, <1>6, <2>1
      DEF TxInv, LeaseInv, AtMostOneLease, Affordable, stores
  <2> QED BY <2>2, <2>3
<1>7. CASE /\ Affordable(tx.task, spent) /\ tx.kind = "complete"
           /\ tx' = [tx EXCEPT !.pc = "commit"]
           /\ row' = NextRow("done", spent, row.epoch, row.trev, "none")
  <2>1. tx' \in Tx /\ tx'.pc = "commit" /\ tx'.kind = "complete" /\ tx'.task = tx.task
      BY <1>2, <1>7 DEF Tx
  <2>2. row' \in Entry /\ ValidEntry(tx.task, row') /\ row'.status = "done"
      BY <1>3, <1>4, <1>7 DEF NextRow, Entry, Status, Reason, ValidEntry, Affordable
  <2>3. TypeOK'
      BY <1>1, <1>3, <2>1, <2>2 DEF TypeOK, stores, ghosts
  <2>4. TxInv' /\ LeaseInv'
      BY <1>1, <1>2, <1>3, <2>1, <2>2
      DEF TxInv, LeaseInv, AtMostOneLease, ValidEntry, stores
  <2> QED BY <2>3, <2>4
<1>8. \/ Close
      \/ /\ Affordable(tx.task, spent) /\ tx.kind = "checkpoint"
         /\ tx' = [tx EXCEPT !.pc = "save"] /\ row' = row
      \/ /\ Affordable(tx.task, spent) /\ tx.kind = "complete"
         /\ tx' = [tx EXCEPT !.pc = "commit"]
         /\ row' = NextRow("done", spent, row.epoch, row.trev, "none")
    BY DEF LoadActive, spent
<1> QED BY <1>5, <1>6, <1>7, <1>8

LEMMA SaveInvariant == ASSUME IInv, SaveCheckpoint \/ SaveRefused PROVE IInv'
<1> USE DEF IInv
<1>1. CASE SaveRefused
    BY <1>1, CloseStep DEF SaveRefused, Rollback, stores, ghosts, TypeOK
<1>2. CASE SaveCheckpoint
  <2> DEFINE s == Checkpointed(task[tx.task], "work", tx.ckpt, {})
             spent == Charged(row, tx.used)
             reason == PauseReason(tx.task, spent, tx.severe)
             status == IF reason = "none" THEN "ready" ELSE "paused"
  <2>1. tx.pc = "save" /\ tx.ckpt # task[tx.task].ckpt
      BY <1>2 DEF SaveCheckpoint, MaySave, MayCheckpoint
  <2>2. /\ tx \in Tx /\ tx.kind = "checkpoint" /\ row = queue[tx.task]
        /\ row.status = "leased" /\ Affordable(tx.task, row.spent + tx.used)
      BY <2>1 DEF TypeOK, TxInv, Idle
  <2>3. /\ tx.task \in Task /\ tx.used \in Nat /\ row \in Entry
        /\ ValidEntry(tx.task, row) /\ task[tx.task] \in Snapshot
      BY <2>2 DEF Tx, TypeOK
  <2>4. s \in Snapshot
      BY <2>2, <2>3, CheckpointedType DEF StepId, Tx
  <2>5. s.rev \in Nat
      BY <2>4 DEF Snapshot, SnapshotOf
  <2>6. spent \in Nat /\ spent <= MaxSteps[tx.task]
      BY <2>2, <2>3 DEF Charged, Affordable, Entry
  <2>7. reason \in Reason /\ status \in {"ready", "paused"} /\ (status = "paused" <=> reason # "none")
      BY DEF PauseReason, Reason
  <2>8. /\ task' = [task EXCEPT ![tx.task] = s]
        /\ row' = NextRow(status, spent, row.epoch, s.rev, reason)
        /\ durable' = [durable EXCEPT ![tx.task] = @ + tx.used]
        /\ tx' = [tx EXCEPT !.pc = "commit"]
        /\ UNCHANGED <<created, queue, held, granted, faults, external>>
      BY <1>2 DEF SaveCheckpoint
  <2> HIDE DEF s, spent, reason, status
  <2>9. tx' \in Tx /\ tx'.pc = "commit" /\ tx'.kind = "checkpoint" /\ tx'.task = tx.task
      BY <2>2, <2>8 DEF Tx
  <2>10. /\ row' \in Entry /\ ValidEntry(tx.task, row')
         /\ row'.status \in {"ready", "paused"}
      BY <2>2, <2>3, <2>5, <2>6, <2>7, <2>8 DEF NextRow, Entry, Status, ValidEntry
  <2>11. durable' \in [Task -> Nat]
      BY <2>3, <2>8 DEF TypeOK
  <2>12. TypeOK'
      BY <2>3, <2>4, <2>8, <2>9, <2>10, <2>11 DEF TypeOK
  <2>13. TxInv' /\ LeaseInv'
      BY <2>2, <2>3, <2>8, <2>9, <2>10
      DEF TxInv, LeaseInv, AtMostOneLease, ValidEntry
  <2> QED BY <2>12, <2>13
<1> QED BY <1>1, <1>2

LEMMA ReconcileInv ==
    ASSUME IInv,
           (\E t \in Task : BeginReconcile(t)) \/ ReconcileLoad \/ ReconcileRefuse
    PROVE  IInv'
<1> USE DEF IInv
<1>1. ASSUME NEW t \in Task, BeginReconcile(t) PROVE IInv'
  <2>1. /\ queue[t].status \in Recoverable
        /\ tx' = [kind |-> "reconcile", pc |-> "load", task |-> t, todo |-> {},
                  used |-> 0, severe |-> FALSE, ckpt |-> "initial"]
        /\ row' = queue[t] /\ UNCHANGED stores
      BY <1>1 DEF BeginReconcile, Open
  <2>2. TypeOK' /\ queue' = queue
      BY <2>1, OpenType DEF Tx, stores
  <2>3. TxInv' /\ LeaseInv'
      BY <2>1, <2>2 DEF TxInv, LeaseInv, AtMostOneLease
  <2> QED BY <2>2, <2>3
<1>2. CASE ReconcileLoad
  <2>1. /\ tx.pc = "load" /\ tx.kind = "reconcile" /\ row.reason # "budget_exhausted"
        /\ tx' = [tx EXCEPT !.pc = "resume"] /\ row' = row /\ UNCHANGED stores
      BY <1>2 DEF ReconcileLoad, Replenishable
  <2>2. tx \in Tx /\ row = queue[tx.task] /\ row.status \in Recoverable
      BY <2>1 DEF TypeOK, TxInv, Idle
  <2>3. tx' \in Tx /\ tx'.pc = "resume" /\ tx'.kind = "reconcile" /\ tx'.task = tx.task
      BY <2>1, <2>2 DEF Tx
  <2>4. TypeOK'
      BY <2>1, <2>3 DEF TypeOK, stores, ghosts
  <2>5. TxInv' /\ LeaseInv'
      BY <2>1, <2>2, <2>3 DEF TxInv, LeaseInv, AtMostOneLease, Recoverable, stores
  <2> QED BY <2>4, <2>5
<1>3. CASE ReconcileRefuse
    BY <1>3, CloseStep DEF ReconcileRefuse, Rollback, stores, ghosts, TypeOK
<1> QED BY <1>1, <1>2, <1>3

LEMMA CommitInv == ASSUME IInv, Commit PROVE IInv'
<1> USE DEF IInv
<1>1. /\ tx \in Tx /\ tx.pc = "commit" /\ row.status # "absent" /\ row \in Entry
      /\ ValidEntry(tx.task, row) /\ (row.status = "leased" <=> tx.kind = "acquire")
    BY DEF Commit, TypeOK, TxInv, Idle
<1>2. /\ queue' = [queue EXCEPT ![tx.task] = row] /\ tx' = Idle /\ row' = NoEntry
      /\ held' = held \union Returned /\ granted' = granted \union Returned
      /\ durable' = IF tx.kind = "complete"
                    THEN [durable EXCEPT ![tx.task] = @ + tx.used] ELSE durable
      /\ UNCHANGED <<task, created, faults, external>>
    BY DEF Commit, Close
<1>3. tx.task \in Task /\ tx.used \in Nat
    BY <1>1 DEF Tx
<1>4. Returned \subseteq Token
    BY <1>1, <1>3 DEF Returned, TokenOf, Token, Entry, ValidEntry
<1>5. durable' \in [Task -> Nat]
    BY <1>2, <1>3 DEF TypeOK
<1>6. row' \in Entry
    BY <1>2 DEF NoEntry, Entry, Status, Reason
<1>7. queue' \in [Task -> Entry] /\ \A t \in Task : ValidEntry(t, queue'[t])
    BY <1>1, <1>2, <1>3 DEF TypeOK
<1>8. TypeOK'
    BY <1>2, <1>4, <1>5, <1>6, <1>7 DEF TypeOK
<1>9. tx'.pc = "idle"
    BY <1>2 DEF Idle
<1>10. AtMostOneLease'
  <2>1. CASE tx.kind = "acquire"
      BY <1>1, <1>2, <1>3, <2>1 DEF LeaseInv, NoneLeased, AtMostOneLease, TypeOK
  <2>2. CASE tx.kind # "acquire"
      BY <1>1, <1>2, <1>3, <2>2 DEF LeaseInv, AtMostOneLease, TypeOK
  <2> QED BY <2>1, <2>2
<1>11. TxInv' /\ LeaseInv'
    BY <1>9, <1>10 DEF TxInv, LeaseInv
<1> QED BY <1>8, <1>11

LEMMA FaultInv ==
    ASSUME IInv, Abort \/ \E k \in held : LoseToken(k)
    PROVE  IInv'
<1> USE DEF IInv
<1>1. CASE Abort
  <2>1. faults' \in Nat /\ external' \in Nat
      BY <1>1 DEF Abort, TypeOK
  <2> QED BY <1>1, <2>1, CloseStep DEF Abort
<1>2. CASE \E k \in held : LoseToken(k)
  <2>1. /\ faults' = faults + 1 /\ held' \subseteq held
        /\ UNCHANGED <<task, created, queue, tx, row, granted, durable, external>>
      BY <1>2 DEF LoseToken
  <2>2. TypeOK'
      BY <2>1 DEF TypeOK
  <2>3. TxInv' /\ LeaseInv'
      BY <2>1 DEF TxInv, LeaseInv, NoneLeased, AtMostOneLease
  <2> QED BY <2>2, <2>3
<1> QED BY <1>1, <1>2

\* The writes of other hosts to the tasks database.
External ==
    \/ \E t \in Task, plan \in Plan : ExternalCreate(t, plan)
    \/ \E t \in Task : ExternalResume(t)
    \/ \E t \in Task, new \in SUBSET Effect, c \in CheckpointId : ExternalReserve(t, new, c)
    \/ \E t \in Task, e \in Effect : ExternalIssue(t, e) \/ ExternalResolve(t, e)

\* Each replaces one snapshot; a resume starts a new epoch, and all but the
\* creation of a task move its revision on.
OneWrite(t, s) ==
    /\ task' = [task EXCEPT ![t] = s]
    /\ \/ t \notin created /\ created' = created \union {t}
       \/ /\ t \in created /\ created' = created
          /\ s.epoch >= task[t].epoch /\ s.rev = task[t].rev + 1
    /\ external' \in {external, external + 1}
    /\ UNCHANGED <<queue, tx, row, held, granted, durable, faults>>

LEMMA ExternalStep ==
    ASSUME IInv, External
    PROVE  \E t \in Task, s \in Snapshot : OneWrite(t, s)
<1> USE DEF IInv
<1>1. ASSUME NEW t \in Task
      PROVE  task[t] \in Snapshot /\ task[t].epoch \in Nat
    BY DEF TypeOK, Snapshot, SnapshotOf
<1>2. CASE \E t \in Task, plan \in Plan : ExternalCreate(t, plan)
  <2>1. PICK t \in Task, plan \in Plan : ExternalCreate(t, plan)
      BY <1>2
  <2>2. NewTask(plan, "queued") \in Snapshot
      BY NewTaskType DEF StepId
  <2>3. OneWrite(t, NewTask(plan, "queued"))
      BY <2>1 DEF ExternalCreate, OneWrite
  <2> QED BY <2>2, <2>3
<1>3. CASE \E t \in Task : ExternalResume(t)
  <2>1. PICK t \in Task : ExternalResume(t)
      BY <1>3
  <2> DEFINE s == Resumed(task[t])
  <2>2. s \in Snapshot /\ s.epoch = task[t].epoch + 1 /\ s.rev = task[t].rev + 1
      BY <1>1, ResumedType
  <2>3. OneWrite(t, s)
      BY <1>1, <2>1, <2>2 DEF ExternalResume, Write, OneWrite
  <2> HIDE DEF s
  <2> QED BY <2>2, <2>3
<1>4. CASE \E t \in Task, new \in SUBSET Effect, c \in CheckpointId : ExternalReserve(t, new, c)
  <2>1. PICK t \in Task, new \in SUBSET Effect, c \in CheckpointId : ExternalReserve(t, new, c)
      BY <1>4
  <2> DEFINE s == Checkpointed(task[t], "work", c, new)
  <2>2. "work" \in StepId
      BY DEF StepId
  <2>3. s \in Snapshot /\ s.epoch = task[t].epoch /\ s.rev = task[t].rev + 1
      BY <1>1, <2>2, CheckpointedType
  <2>4. OneWrite(t, s)
      BY <1>1, <2>1, <2>3 DEF ExternalReserve, Write, OneWrite
  <2> HIDE DEF s
  <2> QED BY <2>3, <2>4
<1>5. CASE \E t \in Task, e \in Effect : ExternalIssue(t, e) \/ ExternalResolve(t, e)
  <2>1. PICK t \in Task, e \in Effect : ExternalIssue(t, e) \/ ExternalResolve(t, e)
      BY <1>5
  <2>2. PICK status \in EffectStatus :
           /\ Write(t, [task[t] EXCEPT !.rev = @ + 1, !.eff[e] = status])
           /\ UNCHANGED external
    <3>1. CASE ExternalIssue(t, e)
        BY <3>1, "unknown" \in EffectStatus DEF ExternalIssue, Issued, EffectStatus
    <3>2. CASE ExternalResolve(t, e)
        BY <3>2, "resolved" \in EffectStatus DEF ExternalResolve, Resolved, EffectStatus
    <3> QED BY <2>1, <3>1, <3>2
  <2> DEFINE s == [task[t] EXCEPT !.rev = @ + 1, !.eff[e] = status]
  <2>3. s \in Snapshot /\ s.epoch = task[t].epoch /\ s.rev = task[t].rev + 1
      BY <1>1, EffectStepType
  <2>4. Write(t, s) /\ UNCHANGED external
      BY <2>2
  <2> HIDE DEF s
  <2>5. OneWrite(t, s)
      BY <1>1, <2>3, <2>4 DEF Write, OneWrite
  <2> QED BY <2>3, <2>5
<1> QED BY <1>2, <1>3, <1>4, <1>5 DEF External

LEMMA ExternalInv == ASSUME IInv, External PROVE IInv'
<1>1. PICK t \in Task, s \in Snapshot :
         /\ task' = [task EXCEPT ![t] = s] /\ created' \subseteq created \union {t}
         /\ external' \in {external, external + 1}
         /\ UNCHANGED <<queue, tx, row, held, granted, durable, faults>>
    BY ExternalStep DEF OneWrite
<1>2. /\ task' \in [Task -> Snapshot] /\ created' \subseteq Task /\ external' \in Nat
    BY <1>1 DEF IInv, TypeOK
<1> QED BY <1>1, <1>2, StoreStep

-----------------------------------------------------------------------------
LEMMA StepInv == IInv /\ [Next]_vars => IInv'
<1> SUFFICES ASSUME IInv, [Next]_vars PROVE IInv'
    OBVIOUS
<1>1. CASE Continue
    BY <1>1, RegisterInv, AcquireInv, ResumeInv, LoadActiveInv, SaveInvariant,
       ReconcileInv, CommitInv DEF Continue
<1>2. CASE Abort \/ \E k \in held : LoseToken(k)
    BY <1>2, FaultInv
<1>3. CASE \/ \E t \in Task : BeginRegister(t) \/ BeginReconcile(t)
           \/ \E o \in Offer, t \in Task : BeginAcquire(o, t)
    BY <1>3, RegisterInv, AcquireInv, ReconcileInv
<1>4. CASE \E k \in held, used \in Steps : BeginComplete(k, used)
  <2>1. PICK k \in held, used \in Steps : BeginComplete(k, used)
      BY <1>4
  <2> QED BY <2>1, BeginCompleteInv
<1>5. CASE \E k \in held, used \in Steps, severe \in BOOLEAN, c \in CheckpointId :
              BeginCheckpoint(k, used, severe, c)
    BY <1>5, BeginCheckpointInv
<1>6. CASE External
    BY <1>6, ExternalInv
<1>7. CASE UNCHANGED vars
  <2>1. TypeOK'
      BY <1>7 DEF vars, IInv, TypeOK
  <2>2. TxInv' /\ LeaseInv'
      BY <1>7 DEF vars, IInv, TxInv, LeaseInv, AtMostOneLease, NoneLeased
  <2> QED BY <2>1, <2>2 DEF IInv
<1> QED
    BY <1>1, <1>2, <1>3, <1>4, <1>5, <1>6, <1>7 DEF Next, External

\* What AgentScheduler writes has its type, and every row it commits passes
\* WorkEntry.validate, whatever calls, crashes and outside writes interleave.
THEOREM TypeCorrect == Spec => []TypeOK
<1>1. Spec => []IInv
    BY InitInv, StepInv, PTL DEF Spec
<1>2. IInv => TypeOK
    BY DEF IInv
<1> QED BY <1>1, <1>2, PTL

\* "A single active lease is allowed", for any number of tasks and workers.
THEOREM SingleLease == Spec => []AtMostOneLease
<1>1. Spec => []IInv
    BY InitInv, StepInv, PTL DEF Spec
<1>2. IInv => AtMostOneLease
    BY DEF IInv, LeaseInv
<1> QED BY <1>1, <1>2, PTL

-----------------------------------------------------------------------------
\* Charges.

\* The steps the queue will show once the open transaction has committed: a
\* checkpoint at its commit is already durable in TaskStore.
Booked(t) ==
    IF tx.pc = "commit" /\ tx.kind = "checkpoint" /\ tx.task = t
    THEN row.spent ELSE queue[t].spent

\* What is durable and not booked was lost to a crash, a budget each at most.
ChargeInv ==
    /\ \A t \in Task :
          /\ queue[t].spent <= Booked(t) /\ Booked(t) <= durable[t]
          /\ durable[t] <= Booked(t) + MaxSteps[t] * faults
    /\ tx.pc = "create" => row.spent = queue[tx.task].spent
    /\ tx.pc = "commit" =>
          /\ tx.kind = "complete" => row.spent = queue[tx.task].spent + tx.used
          /\ tx.kind \notin {"checkpoint", "complete"} => row.spent = queue[tx.task].spent

\* Types of what ChargeInv compares; the limit of one more fault.
LEMMA Amounts ==
    ASSUME TypeOK, NEW t \in Task
    PROVE  /\ queue[t].spent \in Nat /\ queue[t].spent <= MaxSteps[t]
           /\ durable[t] \in Nat /\ row.spent \in Nat
           /\ MaxSteps[t] \in Nat /\ MaxSteps[t] * faults \in Nat
           /\ MaxSteps[t] * (faults + 1) = MaxSteps[t] * faults + MaxSteps[t]
<1>1. queue[t] \in Entry /\ row \in Entry /\ ValidEntry(t, queue[t])
    BY DEF TypeOK
<1>2. MaxSteps[t] \in Nat /\ faults \in Nat
    BY SpecAssumption DEF TypeOK
<1>3. \A m, f \in Nat : m * f \in Nat /\ m * (f + 1) = m * f + m
    OBVIOUS
<1>4. durable[t] \in Nat
    BY DEF TypeOK
<1> QED BY <1>1, <1>2, <1>3, <1>4 DEF Entry, ValidEntry

\* A step that commits, charges and loses nothing, outside a checkpoint's
\* commit, and leaves no transaction about to create or commit.
LEMMA UnchargedStep ==
    ASSUME IInv, ChargeInv, UNCHANGED <<queue, durable, faults>>,
           tx.pc # "commit", tx'.pc \notin {"create", "commit"}
    PROVE  ChargeInv'
BY DEF ChargeInv, Booked

\* A step that brings a transaction which charges nothing to its commit.
LEMMA FreeStep ==
    ASSUME IInv, ChargeInv, UNCHANGED <<queue, durable, faults>>,
           tx.pc # "commit", tx'.kind \notin {"checkpoint", "complete"},
           row'.spent = queue[tx'.task].spent
    PROVE  ChargeInv'
BY DEF ChargeInv, Booked

LEMMA InitCharge == Init => ChargeInv
<1> SUFFICES ASSUME Init PROVE ChargeInv
    OBVIOUS
<1>1. \A t \in Task : queue[t].spent = 0 /\ durable[t] = 0 /\ MaxSteps[t] * faults = 0
    BY SpecAssumption DEF Init, NoEntry
<1> QED BY <1>1 DEF Init, ChargeInv, Booked, Idle

LEMMA OpeningCharge ==
    ASSUME IInv, ChargeInv,
           \/ \E t \in Task : BeginRegister(t) \/ BeginReconcile(t)
           \/ \E o \in Offer, t \in Task : BeginAcquire(o, t)
           \/ \E k \in held, used \in Steps : BeginComplete(k, used)
           \/ \E k \in held, used \in Steps, severe \in BOOLEAN, c \in CheckpointId :
                 BeginCheckpoint(k, used, severe, c)
    PROVE  ChargeInv'
<1>1. UNCHANGED stores /\ tx = Idle /\ tx'.pc \in {"load", "scan"}
    BY DEF BeginRegister, BeginReconcile, BeginAcquire, BeginComplete, BeginCheckpoint, Open
<1> QED BY <1>1, UnchargedStep DEF stores, ghosts, Idle

LEMMA RegisterCharge ==
    ASSUME IInv, ChargeInv, RegisterLoad \/ RegisterCreate
    PROVE  ChargeInv'
<1>1. /\ tx \in Tx /\ tx.pc \in {"load", "create"} /\ tx.kind = "register"
      /\ row \in Entry /\ row.spent = queue[tx.task].spent
      /\ UNCHANGED <<queue, durable, faults>>
    BY DEF RegisterLoad, RegisterCreate, Rollback, stores, ghosts,
           IInv, TypeOK, TxInv, ChargeInv, Idle
<1>2. CASE Close
  <2>1. tx'.pc = "idle"
      BY <1>2 DEF Close, Idle
  <2> QED BY <1>1, <2>1, UnchargedStep
<1>3. CASE ~Close
  <2>1. /\ \E pc \in {"commit", "create"} : tx' = [tx EXCEPT !.pc = pc]
        /\ row' = row \/ row' = [row EXCEPT !.status = "ready"]
      BY <1>3 DEF RegisterLoad, RegisterCreate, Rollback
  <2>2. tx'.kind = "register" /\ tx'.task = tx.task /\ row'.spent = row.spent
      BY <1>1, <2>1 DEF Tx, Entry
  <2> QED BY <1>1, <2>2, FreeStep
<1> QED BY <1>2, <1>3

LEMMA AcquireCharge ==
    ASSUME IInv, ChargeInv, AcquireScan \/ Resume
    PROVE  ChargeInv'
<1>0. tx.pc \in {"scan", "resume"} /\ UNCHANGED <<queue, durable, faults>>
    BY DEF AcquireScan, Resume, stores, ghosts
<1>1. tx \in Tx
    BY <1>0 DEF IInv, TypeOK, Idle
<1>2. CASE AcquireScan
  <2>1. PICK u \in tx.todo :
           \/ tx' = [[tx EXCEPT !.pc = "resume"] EXCEPT !.task = u] /\ row' = queue[u]
           \/ tx' = [tx EXCEPT !.todo = @ \ {u}] /\ row' = row
           \/ Close
      BY <1>2 DEF AcquireScan
  <2>2. tx.pc = "scan"
      BY <1>2 DEF AcquireScan
  <2>3. tx'.pc \in {"resume", "scan", "idle"}
    <3>1. CASE tx' = [[tx EXCEPT !.pc = "resume"] EXCEPT !.task = u]
        BY <1>1, <3>1 DEF Tx
    <3>2. CASE tx' = [tx EXCEPT !.todo = @ \ {u}]
        BY <1>1, <2>2, <3>2 DEF Tx
    <3>3. CASE Close
        BY <3>3 DEF Close, Idle
    <3> QED BY <2>1, <3>1, <3>2, <3>3
  <2> QED BY <1>0, <2>2, <2>3, UnchargedStep
<1>3. CASE Resume
  <2>1. /\ tx.pc = "resume" /\ tx' = [tx EXCEPT !.pc = "commit"]
        /\ row'.spent = row.spent
      BY <1>3 DEF Resume, NextRow
  <2>2. tx.kind \in {"acquire", "reconcile"} /\ row = queue[tx.task]
      BY <2>1 DEF IInv, TxInv
  <2>3. tx'.kind = tx.kind /\ tx'.task = tx.task
      BY <1>1, <2>1 DEF Tx
  <2> QED BY <1>0, <2>1, <2>2, <2>3, FreeStep
<1> QED BY <1>2, <1>3

LEMMA LoadActiveCharge ==
    ASSUME IInv, ChargeInv, LoadActive
    PROVE  ChargeInv'
<1>1. /\ tx \in Tx /\ tx.pc = "load" /\ row = queue[tx.task]
      /\ UNCHANGED <<queue, durable, faults>>
    BY DEF LoadActive, stores, ghosts, IInv, TypeOK, TxInv, Idle
<1>2. CASE tx.kind = "complete" /\ tx' = [tx EXCEPT !.pc = "commit"]
           /\ row' = NextRow("done", Charged(row, tx.used), row.epoch, row.trev, "none")
  <2>1. tx'.pc = "commit" /\ tx'.kind = "complete" /\ tx'.task = tx.task /\ tx'.used = tx.used
      BY <1>1, <1>2 DEF Tx
  <2>2. row'.spent = queue[tx.task].spent + tx.used
      BY <1>1, <1>2 DEF NextRow, Charged
  <2> QED BY <1>1, <2>1, <2>2 DEF ChargeInv, Booked
<1>3. CASE Close \/ tx' = [tx EXCEPT !.pc = "save"]
  <2>1. tx'.pc \in {"idle", "save"}
      BY <1>1, <1>3 DEF Close, Idle, Tx
  <2> QED BY <1>1, <2>1, UnchargedStep
<1> QED BY <1>2, <1>3 DEF LoadActive

LEMMA SaveCharge ==
    ASSUME IInv, ChargeInv, SaveCheckpoint
    PROVE  ChargeInv'
<1>1. /\ tx \in Tx /\ tx.pc = "save" /\ tx.kind = "checkpoint"
      /\ tx.task \in Task /\ tx.used \in Nat /\ row = queue[tx.task]
    BY DEF SaveCheckpoint, IInv, TypeOK, TxInv, Idle, Tx
<1>2. /\ row'.spent = row.spent + tx.used
      /\ durable' = [durable EXCEPT ![tx.task] = @ + tx.used]
      /\ tx' = [tx EXCEPT !.pc = "commit"] /\ UNCHANGED <<queue, faults>>
    BY DEF SaveCheckpoint, NextRow, Charged
<1>3. tx'.pc = "commit" /\ tx'.kind = "checkpoint" /\ tx'.task = tx.task
    BY <1>1, <1>2 DEF Tx
<1>4. ASSUME NEW t \in Task
      PROVE  /\ queue'[t].spent <= Booked(t)' /\ Booked(t)' <= durable'[t]
             /\ durable'[t] <= Booked(t)' + MaxSteps[t] * faults'
  <2>1. /\ queue[t].spent <= durable[t]
        /\ durable[t] <= queue[t].spent + MaxSteps[t] * faults
      BY <1>1 DEF ChargeInv, Booked
  <2>2. CASE t = tx.task
    <3>1. Booked(t)' = queue[t].spent + tx.used /\ durable'[t] = durable[t] + tx.used
        BY <1>1, <1>2, <1>3, <2>2 DEF Booked, IInv, TypeOK
    <3> QED BY <1>1, <1>2, <2>1, <3>1, Amounts DEF IInv
  <2>3. CASE t # tx.task
    <3>1. Booked(t)' = queue[t].spent /\ durable'[t] = durable[t]
        BY <1>1, <1>2, <1>3, <2>3 DEF Booked, IInv, TypeOK
    <3> QED BY <1>2, <2>1, <3>1, Amounts DEF IInv
  <2> QED BY <2>2, <2>3
<1> QED BY <1>3, <1>4 DEF ChargeInv

LEMMA CommitCharge ==
    ASSUME IInv, ChargeInv, Commit
    PROVE  ChargeInv'
<1>1. /\ tx \in Tx /\ tx.pc = "commit" /\ tx.task \in Task /\ tx.used \in Nat
    BY DEF Commit, IInv, TypeOK, Idle, Tx
<1>2. /\ queue' = [queue EXCEPT ![tx.task] = row] /\ tx' = Idle
      /\ durable' = IF tx.kind = "complete"
                    THEN [durable EXCEPT ![tx.task] = @ + tx.used] ELSE durable
      /\ faults' = faults
    BY DEF Commit, Close
<1>3. tx'.pc = "idle"
    BY <1>2 DEF Idle
<1>4. ASSUME NEW t \in Task
      PROVE  /\ queue'[t].spent <= Booked(t)' /\ Booked(t)' <= durable'[t]
             /\ durable'[t] <= Booked(t)' + MaxSteps[t] * faults'
  <2>1. Booked(t)' = queue'[t].spent
      BY <1>3 DEF Booked
  <2>2. /\ queue[t].spent <= Booked(t) /\ Booked(t) <= durable[t]
        /\ durable[t] <= Booked(t) + MaxSteps[t] * faults
      BY DEF ChargeInv
  <2>3. CASE t # tx.task
    <3>1. queue'[t] = queue[t] /\ durable'[t] = durable[t] /\ Booked(t) = queue[t].spent
        BY <1>1, <1>2, <2>3 DEF Booked, IInv, TypeOK
    <3> QED BY <1>2, <2>1, <2>2, <3>1, Amounts DEF IInv
  <2>4. CASE t = tx.task /\ tx.kind = "complete"
    <3>1. queue'[t] = row /\ durable'[t] = durable[t] + tx.used
        BY <1>1, <1>2, <2>4 DEF IInv, TypeOK
    <3>2. row.spent = queue[t].spent + tx.used /\ Booked(t) = queue[t].spent
        BY <1>1, <2>4 DEF ChargeInv, Booked
    <3> QED BY <1>1, <1>2, <2>1, <2>2, <3>1, <3>2, Amounts DEF IInv
  <2>5. CASE t = tx.task /\ tx.kind # "complete"
    <3>1. queue'[t] = row /\ durable'[t] = durable[t]
        BY <1>1, <1>2, <2>5 DEF IInv, TypeOK
    <3>2. row.spent = Booked(t)
        BY <1>1, <2>5 DEF ChargeInv, Booked
    <3> QED BY <1>2, <2>1, <2>2, <3>1, <3>2, Amounts DEF IInv
  <2> QED BY <2>3, <2>4, <2>5
<1> QED BY <1>3, <1>4 DEF ChargeInv

\* A transaction that dies takes at most the budget of its task with it.
LEMMA AbortCharge ==
    ASSUME IInv, ChargeInv, Abort
    PROVE  ChargeInv'
<1>1. faults' = faults + 1 /\ tx'.pc = "idle" /\ UNCHANGED <<queue, durable>>
    BY DEF Abort, Close, Idle
<1>2. ASSUME NEW t \in Task
      PROVE  /\ queue'[t].spent <= Booked(t)' /\ Booked(t)' <= durable'[t]
             /\ durable'[t] <= Booked(t)' + MaxSteps[t] * faults'
  <2>1. /\ queue[t].spent <= Booked(t) /\ Booked(t) <= durable[t]
        /\ durable[t] <= Booked(t) + MaxSteps[t] * faults
      BY DEF ChargeInv
  <2>2. Booked(t) \in Nat /\ Booked(t) <= MaxSteps[t]
      BY Amounts DEF Booked, IInv, TxInv, ValidEntry
  <2>3. Booked(t)' = queue[t].spent
      BY <1>1 DEF Booked
  <2> QED BY <1>1, <2>1, <2>2, <2>3, Amounts DEF IInv
<1> QED BY <1>1, <1>2 DEF ChargeInv

LEMMA OtherCharge ==
    ASSUME IInv, ChargeInv,
           \/ SaveRefused \/ ReconcileLoad \/ ReconcileRefuse
           \/ External \/ \E k \in held : LoseToken(k)
    PROVE  ChargeInv'
<1>1. CASE SaveRefused \/ ReconcileRefuse
  <2>1. tx.pc # "commit" /\ tx'.pc = "idle" /\ UNCHANGED <<queue, durable, faults>>
      BY <1>1 DEF SaveRefused, ReconcileRefuse, Rollback, Close, Idle, stores, ghosts
  <2> QED BY <2>1, UnchargedStep
<1>2. CASE ReconcileLoad
  <2>1. /\ tx \in Tx /\ tx.pc = "load" /\ tx' = [tx EXCEPT !.pc = "resume"]
        /\ UNCHANGED <<queue, durable, faults>>
      BY <1>2 DEF ReconcileLoad, IInv, TypeOK, Idle, stores, ghosts
  <2>2. tx'.pc = "resume"
      BY <2>1 DEF Tx
  <2> QED BY <2>1, <2>2, UnchargedStep
<1>3. CASE External
  <2>1. UNCHANGED <<queue, tx, row, durable, faults>>
      BY <1>3, ExternalStep DEF OneWrite
  <2> QED BY <2>1 DEF ChargeInv, Booked
<1>4. CASE \E k \in held : LoseToken(k)
  <2>1. faults' = faults + 1 /\ UNCHANGED <<queue, tx, row, durable>>
      BY <1>4 DEF LoseToken
  <2>2. ASSUME NEW t \in Task
        PROVE  /\ queue'[t].spent <= Booked(t)' /\ Booked(t)' <= durable'[t]
               /\ durable'[t] <= Booked(t)' + MaxSteps[t] * faults'
    <3>1. Booked(t)' = Booked(t) /\ Booked(t) \in Nat
        BY <2>1, Amounts DEF Booked, IInv
    <3>2. /\ queue[t].spent <= Booked(t) /\ Booked(t) <= durable[t]
          /\ durable[t] <= Booked(t) + MaxSteps[t] * faults
        BY DEF ChargeInv
    <3> QED BY <2>1, <3>1, <3>2, Amounts DEF IInv
  <2> QED BY <2>1, <2>2 DEF ChargeInv
<1> QED BY <1>1, <1>2, <1>3, <1>4

LEMMA ChargeStep == IInv /\ ChargeInv /\ [Next]_vars => ChargeInv'
<1> SUFFICES ASSUME IInv, ChargeInv, [Next]_vars PROVE ChargeInv'
    OBVIOUS
<1>1. CASE Continue
    BY <1>1, RegisterCharge, AcquireCharge, LoadActiveCharge, SaveCharge, CommitCharge,
       OtherCharge DEF Continue
<1>2. CASE Abort \/ \E k \in held : LoseToken(k)
    BY <1>2, AbortCharge, OtherCharge
<1>3. CASE \/ \E t \in Task : BeginRegister(t) \/ BeginReconcile(t)
           \/ \E o \in Offer, t \in Task : BeginAcquire(o, t)
    BY <1>3, OpeningCharge
<1>4. CASE \E k \in held, used \in Steps : BeginComplete(k, used)
    BY <1>4, OpeningCharge
<1>5. CASE \E k \in held, used \in Steps, severe \in BOOLEAN, c \in CheckpointId :
              BeginCheckpoint(k, used, severe, c)
    BY <1>5, OpeningCharge
<1>6. CASE External
    BY <1>6, OtherCharge
<1>7. CASE UNCHANGED vars
    BY <1>7 DEF vars, ChargeInv, Booked
<1> QED
    BY <1>1, <1>2, <1>3, <1>4, <1>5, <1>6, <1>7 DEF Next, External

LEMMA ChargeInvariant == Spec => [](IInv /\ ChargeInv)
BY InitInv, StepInv, InitCharge, ChargeStep, PTL DEF Spec

\* A budget is charged for durable work only, and exactly for it as long as
\* nothing failed.
THEOREM Charges == Spec => []ChargesMatchWork
<1>1. IInv /\ ChargeInv => ChargesMatchWork
  <2> SUFFICES ASSUME IInv, ChargeInv, NEW t \in Task
               PROVE  /\ queue[t].spent <= durable[t]
                      /\ faults = 0 /\ tx = Idle => queue[t].spent = durable[t]
      BY DEF ChargesMatchWork
  <2>1. /\ queue[t].spent <= Booked(t) /\ Booked(t) <= durable[t]
        /\ durable[t] <= Booked(t) + MaxSteps[t] * faults
      BY DEF ChargeInv
  <2>2. Booked(t) \in Nat
      BY Amounts DEF Booked, IInv
  <2>3. faults = 0 => MaxSteps[t] * faults = 0
      BY SpecAssumption
  <2>4. tx = Idle => Booked(t) = queue[t].spent
      BY DEF Booked, Idle
  <2>5. queue[t].spent \in Nat /\ durable[t] \in Nat
      BY Amounts DEF IInv
  <2>6. faults = 0 => durable[t] <= Booked(t)
      BY <2>1, <2>2, <2>3
  <2> HIDE DEF Booked
  <2> QED BY <2>1, <2>2, <2>4, <2>5, <2>6
<1> QED BY <1>1, ChargeInvariant, PTL

\* A crash between the two COMMITs of a checkpoint hides at most one budget.
THEOREM Overrun == Spec => []OverrunBoundedByFaults
<1>1. IInv /\ ChargeInv => OverrunBoundedByFaults
  <2> SUFFICES ASSUME IInv, ChargeInv, NEW t \in Task
               PROVE  durable[t] <= MaxSteps[t] * (1 + faults)
      BY DEF OverrunBoundedByFaults
  <2>1. durable[t] <= Booked(t) + MaxSteps[t] * faults
      BY DEF ChargeInv
  <2>2. Booked(t) \in Nat /\ Booked(t) <= MaxSteps[t]
      BY Amounts DEF Booked, IInv, TxInv, ValidEntry
  <2>3. 1 + faults = faults + 1
      BY DEF IInv, TypeOK
  <2> QED BY <2>1, <2>2, <2>3, Amounts DEF IInv
<1> QED BY <1>1, ChargeInvariant, PTL

-----------------------------------------------------------------------------
\* The queue, the task store and the leases.

\* The projection and the epochs of the leases, over IInv.
StoreInv ==
    /\ ProjectionBehindStore
    /\ \A t \in Task : queue[t].status = "absent" => queue[t] = NoEntry
    /\ tx.pc = "create" => row.epoch = -1 /\ row.trev = -1
    /\ tx.pc = "commit" =>
          /\ tx.task \in created
          /\ row.epoch <= task[tx.task].epoch /\ row.trev <= task[tx.task].rev

EpochInv ==
    /\ \A k \in granted : k.task \in created /\ k.epoch <= task[k.task].epoch
    /\ \A k \in granted :
          queue[k.task].status = "leased" => k.epoch <= queue[k.task].epoch
    /\ tx.pc = "commit" /\ tx.kind = "acquire" =>
          \A k \in granted : k.task = tx.task => k.epoch < row.epoch
    /\ FreshLeaseEpochs

\* What a checkpoint loaded still holds unless its compare-and-swap fails.
SaveInv ==
    tx.pc = "save" /\ task[tx.task].rev = row.trev => Safe(task[tx.task])

LInv == IInv /\ StoreInv /\ EpochInv /\ SaveInv

-----------------------------------------------------------------------------
\* Types of what the invariants compare.
LEMMA Numbers ==
    ASSUME TypeOK
    PROVE  /\ \A t \in Task : task[t].epoch \in Nat /\ task[t].rev \in Nat
           /\ \A t \in Task : queue[t].epoch \in Int /\ queue[t].trev \in Int
           /\ row.epoch \in Int /\ row.trev \in Int
           /\ \A k \in granted : k \in Token /\ k.task \in Task /\ k.epoch \in Nat
<1>1. \A t \in Task : task[t] \in Snapshot /\ queue[t] \in Entry
    BY DEF TypeOK
<1> QED BY <1>1 DEF TypeOK, Snapshot, SnapshotOf, Entry, Token

LEMMA LInit == Init => LInv
<1> SUFFICES ASSUME Init PROVE LInv
    OBVIOUS
<1>1. StoreInv /\ EpochInv /\ SaveInv
    BY DEF Init, StoreInv, ProjectionBehindStore, EpochInv, FreshLeaseEpochs, SaveInv,
           NoEntry, Idle
<1> QED BY <1>1, InitInv DEF LInv

\* Only a transaction about to create, save or commit has claims to keep.
LEMMA QuietStep ==
    ASSUME LInv, UNCHANGED <<task, created, queue, granted>>,
           tx'.pc \notin {"create", "save", "commit"}
    PROVE  StoreInv' /\ EpochInv' /\ SaveInv'
BY DEF LInv, StoreInv, ProjectionBehindStore, EpochInv, FreshLeaseEpochs, SaveInv

LEMMA SameStep ==
    ASSUME LInv, UNCHANGED <<task, created, queue, granted, tx, row>>
    PROVE  StoreInv' /\ EpochInv' /\ SaveInv'
BY DEF LInv, StoreInv, ProjectionBehindStore, EpochInv, FreshLeaseEpochs, SaveInv, Safe

LEMMA RegisterStep ==
    ASSUME LInv, RegisterLoad \/ RegisterCreate
    PROVE  StoreInv' /\ EpochInv' /\ SaveInv'
<1> USE DEF LInv
<1>0. TypeOK /\ TxInv
    BY DEF IInv
<1>1. CASE RegisterLoad
  <2>1. /\ tx \in Tx /\ tx.pc = "load" /\ tx.kind = "register"
        /\ row = NoEntry /\ UNCHANGED stores
      BY <1>0, <1>1 DEF RegisterLoad, TypeOK, TxInv, StoreInv, Idle, Tx
  <2>2. CASE Close
    <3>1. tx'.pc = "idle"
        BY <2>2 DEF Close, Idle
    <3> QED BY <2>1, <3>1, QuietStep DEF stores, ghosts
  <2>3. CASE /\ tx' = [tx EXCEPT !.pc = IF tx.task \in created THEN "commit" ELSE "create"]
             /\ row' = [row EXCEPT !.status = "ready"]
    <3>1. /\ tx'.pc = "commit" => tx.task \in created
          /\ tx'.pc \in {"commit", "create"} /\ tx'.task = tx.task /\ tx'.kind = "register"
          /\ tx.task \in Task
        BY <2>1, <2>3 DEF Tx
    <3>2. row'.epoch = -1 /\ row'.trev = -1
        BY <2>1, <2>3 DEF NoEntry
    <3>3. StoreInv'
        BY <1>0, <2>1, <3>1, <3>2, Numbers DEF StoreInv, ProjectionBehindStore, stores
    <3>4. EpochInv' /\ SaveInv'
        BY <2>1, <3>1 DEF EpochInv, FreshLeaseEpochs, SaveInv, stores, ghosts
    <3> QED BY <3>3, <3>4
  <2> QED BY <1>1, <2>2, <2>3 DEF RegisterLoad
<1>2. CASE RegisterCreate
  <2>1. tx \in Tx /\ tx.pc = "create" /\ tx.kind = "register" /\ tx.task \in Task
      BY <1>0, <1>2 DEF RegisterCreate, TypeOK, TxInv, Idle, Tx
  <2>2. CASE Rollback
    <3>1. tx'.pc = "idle" /\ UNCHANGED stores
        BY <2>2 DEF Rollback, Close, Idle
    <3> QED BY <3>1, QuietStep DEF stores, ghosts
  <2>3. CASE /\ tx.task \notin created
             /\ created' = created \union {tx.task}
             /\ task' = [task EXCEPT ![tx.task] = NewTask("own", "queued")]
             /\ tx' = [tx EXCEPT !.pc = "commit"]
             /\ UNCHANGED <<row, queue, held, ghosts>>
    <3>1. tx'.pc = "commit" /\ tx'.task = tx.task /\ tx'.kind = "register"
        BY <2>1, <2>3 DEF Tx
    <3>2. /\ row.epoch = -1 /\ row.trev = -1
          /\ task'[tx.task].epoch = 0 /\ task'[tx.task].rev = 0
        BY <1>0, <2>1, <2>3 DEF StoreInv, NewTask, TypeOK
    <3>3. \A t \in created : t # tx.task /\ task'[t] = task[t] /\ t \in created'
        BY <1>0, <2>3 DEF TypeOK
    <3>4. StoreInv'
        BY <2>1, <2>3, <3>1, <3>2, <3>3 DEF StoreInv, ProjectionBehindStore
    <3>5. EpochInv' /\ SaveInv'
        BY <2>3, <3>1, <3>3 DEF EpochInv, FreshLeaseEpochs, SaveInv, ghosts
    <3> QED BY <3>4, <3>5
  <2> QED BY <1>2, <2>2, <2>3 DEF RegisterCreate
<1> QED BY <1>1, <1>2

LEMMA ResumeStep ==
    ASSUME LInv, Resume
    PROVE  StoreInv' /\ EpochInv' /\ SaveInv'
<1> USE DEF LInv
<1> DEFINE s == Resumed(task[tx.task])
<1>0. TypeOK /\ TxInv
    BY DEF IInv
<1>1. /\ tx \in Tx /\ tx.pc = "resume" /\ tx.task \in Task
      /\ row = queue[tx.task] /\ row.status # "absent"
    BY <1>0 DEF Resume, TypeOK, TxInv, Idle, Tx
<1>2. s.epoch = task[tx.task].epoch + 1 /\ s.rev = task[tx.task].rev + 1
    BY <1>0, <1>1, ResumedType DEF TypeOK
<1>3. /\ task' = [task EXCEPT ![tx.task] = s]
      /\ row' = NextRow(IF tx.kind = "acquire" THEN "leased" ELSE "ready",
                        row.spent, s.epoch, s.rev, "none")
      /\ tx' = [tx EXCEPT !.pc = "commit"]
      /\ UNCHANGED <<created, queue, held, ghosts>>
    BY DEF Resume
<1> HIDE DEF s
<1>4. /\ tx'.pc = "commit" /\ tx'.task = tx.task
      /\ row'.epoch = s.epoch /\ row'.trev = s.rev
    BY <1>1, <1>3 DEF Tx, NextRow
<1>5. /\ task'[tx.task] = s
      /\ \A t \in Task : t # tx.task => task'[t] = task[t]
    BY <1>0, <1>1, <1>3 DEF TypeOK
<1>6. \A t \in Task : task'[t].epoch >= task[t].epoch /\ task'[t].rev >= task[t].rev
    BY <1>0, <1>2, <1>5, Numbers
<1>7. \A t \in Task : task'[t].epoch \in Int /\ task'[t].rev \in Int
    BY <1>0, <1>2, <1>5, Numbers
<1>8. StoreInv'
    BY <1>0, <1>1, <1>3, <1>4, <1>5, <1>6, <1>7, Numbers DEF StoreInv, ProjectionBehindStore
<1>9. EpochInv'
    <2>1. UNCHANGED <<created, queue, granted>>
        BY <1>3 DEF ghosts
    <2>2. \A k \in granted :
             k.task \in Task /\ k.epoch \in Int /\ task[k.task].epoch \in Int
        BY <1>0, Numbers DEF TypeOK, Token
    <2>3. \A k \in granted : k.task \in created' /\ k.epoch <= task'[k.task].epoch
        BY <2>1, <2>2, <1>6, <1>7 DEF EpochInv
    <2>4. \A k \in granted : k.task = tx.task => k.epoch < row'.epoch
        BY <2>2, <1>1, <1>2, <1>4 DEF EpochInv
    <2> QED
        BY <2>1, <2>3, <2>4, <1>4 DEF EpochInv, FreshLeaseEpochs
<1>10. SaveInv'
    BY <1>4 DEF SaveInv
<1> QED BY <1>8, <1>9, <1>10

LEMMA LoadActiveStep ==
    ASSUME LInv, LoadActive
    PROVE  StoreInv' /\ EpochInv' /\ SaveInv'
<1> USE DEF LInv
<1>0. TypeOK /\ TxInv
    BY DEF IInv
<1>1. tx.pc = "load" /\ tx.kind \in {"checkpoint", "complete"} /\ UNCHANGED stores
    BY DEF LoadActive
<1>2. /\ tx \in Tx /\ tx.task \in Task
      /\ row = queue[tx.task] /\ row.status = "leased"
    BY <1>0, <1>1 DEF TypeOK, TxInv, Idle, Tx
<1>3. \/ Close
      \/ /\ StoreAccepts(TokenOf(tx.task, row))
         /\ tx' = [tx EXCEPT !.pc = "save"] /\ row' = row
      \/ /\ tx.kind = "complete" /\ tx' = [tx EXCEPT !.pc = "commit"]
         /\ row' = NextRow("done", Charged(row, tx.used), row.epoch, row.trev, "none")
    BY DEF LoadActive
<1>4. CASE Close
  <2>1. tx'.pc = "idle"
      BY <1>4 DEF Close, Idle
  <2> QED BY <1>1, <2>1, QuietStep DEF stores, ghosts
<1>5. CASE /\ StoreAccepts(TokenOf(tx.task, row))
           /\ tx' = [tx EXCEPT !.pc = "save"] /\ row' = row
  <2>1. tx'.pc = "save" /\ tx'.task = tx.task
      BY <1>2, <1>5 DEF Tx
  <2>2. Safe(task[tx.task])
      BY <1>5 DEF StoreAccepts, TokenOf
  <2>3. StoreInv' /\ EpochInv'
      BY <1>1, <2>1 DEF StoreInv, ProjectionBehindStore, EpochInv, FreshLeaseEpochs,
         stores, ghosts
  <2>4. SaveInv'
      BY <1>1, <2>1, <2>2 DEF SaveInv, Safe, stores
  <2> QED BY <2>3, <2>4
<1>6. CASE /\ tx.kind = "complete" /\ tx' = [tx EXCEPT !.pc = "commit"]
           /\ row' = NextRow("done", Charged(row, tx.used), row.epoch, row.trev, "none")
  <2>1. tx'.pc = "commit" /\ tx'.task = tx.task /\ tx'.kind = "complete"
      BY <1>2, <1>6 DEF Tx
  <2>2. row'.epoch = row.epoch /\ row'.trev = row.trev
      BY <1>6 DEF NextRow
  <2>3. StoreInv'
      BY <1>1, <1>2, <2>1, <2>2 DEF StoreInv, ProjectionBehindStore, stores
  <2>4. EpochInv' /\ SaveInv'
      BY <1>1, <2>1 DEF EpochInv, FreshLeaseEpochs, SaveInv, stores, ghosts
  <2> QED BY <2>3, <2>4
<1> QED BY <1>3, <1>4, <1>5, <1>6

LEMMA SaveStep ==
    ASSUME LInv, SaveCheckpoint
    PROVE  StoreInv' /\ EpochInv' /\ SaveInv'
<1> USE DEF LInv
<1> DEFINE s == Checkpointed(task[tx.task], "work", tx.ckpt, {})
           spent == Charged(row, tx.used)
           reason == PauseReason(tx.task, spent, tx.severe)
           status == IF reason = "none" THEN "ready" ELSE "paused"
<1>0. TypeOK /\ TxInv
    BY DEF IInv
<1>1. /\ tx \in Tx /\ tx.pc = "save" /\ tx.kind = "checkpoint" /\ tx.task \in Task
      /\ tx.ckpt \in CheckpointId \union {"initial"}
      /\ row = queue[tx.task] /\ row.status = "leased"
    BY <1>0 DEF SaveCheckpoint, TypeOK, TxInv, Idle, Tx
<1>2. s.epoch = task[tx.task].epoch /\ s.rev = task[tx.task].rev + 1
    BY <1>0, <1>1, CheckpointedType DEF TypeOK, StepId
<1>3. /\ task' = [task EXCEPT ![tx.task] = s]
      /\ row' = NextRow(status, spent, row.epoch, s.rev, reason)
      /\ tx' = [tx EXCEPT !.pc = "commit"]
      /\ UNCHANGED <<created, queue, granted>>
    BY DEF SaveCheckpoint
<1> HIDE DEF s, spent, reason, status
<1>4. /\ tx'.pc = "commit" /\ tx'.task = tx.task /\ tx'.kind = "checkpoint"
      /\ row'.epoch = row.epoch /\ row'.trev = s.rev
    BY <1>1, <1>3 DEF Tx, NextRow
<1>5. /\ task'[tx.task] = s
      /\ \A t \in Task : t # tx.task => task'[t] = task[t]
    BY <1>0, <1>1, <1>3 DEF TypeOK
<1>6. \A t \in Task : /\ task'[t].epoch = task[t].epoch /\ task'[t].rev >= task[t].rev
                     /\ task'[t].rev \in Int
    BY <1>0, <1>2, <1>5, Numbers
<1>7. StoreInv'
    BY <1>0, <1>1, <1>3, <1>4, <1>5, <1>6, Numbers DEF StoreInv, ProjectionBehindStore
<1>8. EpochInv' /\ SaveInv'
    BY <1>0, <1>3, <1>4, <1>6, Numbers DEF EpochInv, FreshLeaseEpochs, SaveInv
<1> QED BY <1>7, <1>8

LEMMA CommitStep ==
    ASSUME LInv, Commit
    PROVE  StoreInv' /\ EpochInv' /\ SaveInv'
<1> USE DEF LInv
<1>0. TypeOK /\ TxInv
    BY DEF IInv
<1>1. /\ tx \in Tx /\ tx.pc = "commit" /\ tx.task \in Task
      /\ (row.status = "leased" <=> tx.kind = "acquire")
      /\ row.status # "absent"
    BY <1>0 DEF Commit, TypeOK, TxInv, Idle, Tx
<1>2. /\ queue' = [queue EXCEPT ![tx.task] = row] /\ tx' = Idle
      /\ granted' = granted \union Returned /\ UNCHANGED <<task, created>>
    BY DEF Commit, Close
<1>3. /\ tx'.pc = "idle" /\ queue'[tx.task] = row
      /\ \A t \in Task : t # tx.task => queue'[t] = queue[t]
    BY <1>0, <1>1, <1>2 DEF Idle, TypeOK
<1>4. StoreInv' /\ SaveInv'
    BY <1>1, <1>2, <1>3 DEF StoreInv, ProjectionBehindStore, SaveInv
<1>5. CASE tx.kind # "acquire"
  <2>1. granted' = granted
      BY <1>2, <1>5 DEF Returned
  <2>2. EpochInv'
      BY <1>0, <1>1, <1>2, <1>3, <1>5, <2>1, Numbers DEF EpochInv, FreshLeaseEpochs
  <2> QED BY <1>4, <2>2
<1>6. CASE tx.kind = "acquire"
  <2> DEFINE k == TokenOf(tx.task, row)
  <2>1. granted' = granted \union {k} /\ k.task = tx.task /\ k.epoch = row.epoch
      BY <1>2, <1>6 DEF Returned, TokenOf
  <2> HIDE DEF k
  <2>2. /\ \A a \in granted : a.task = tx.task => a.epoch < k.epoch
        /\ tx.task \in created /\ k.epoch <= task[tx.task].epoch
      BY <1>1, <1>6, <2>1 DEF EpochInv, StoreInv
  <2>3. FreshLeaseEpochs'
      BY <1>0, <2>1, <2>2, Numbers DEF EpochInv, FreshLeaseEpochs
  <2>4. EpochInv'
      BY <1>0, <1>1, <1>2, <1>3, <2>1, <2>2, <2>3, Numbers DEF EpochInv
  <2> QED BY <1>4, <2>4
<1> QED BY <1>5, <1>6

LEMMA OutsideStep ==
    ASSUME LInv, External
    PROVE  StoreInv' /\ EpochInv' /\ SaveInv'
<1> USE DEF LInv
<1>0. TypeOK /\ TxInv
    BY DEF IInv
<1>1. PICK t \in Task, s \in Snapshot : OneWrite(t, s)
    BY ExternalStep
<1>2. UNCHANGED <<queue, tx, row, granted>> /\ created \subseteq created'
    BY <1>1 DEF OneWrite
<1>3. \A u \in created :
         /\ u \in Task /\ task'[u].epoch >= task[u].epoch /\ task'[u].rev >= task[u].rev
         /\ task'[u] # task[u] => task'[u].rev > task[u].rev
         /\ task'[u].epoch \in Nat /\ task'[u].rev \in Nat
  <2>1. s.epoch \in Nat /\ s.rev \in Nat
      BY DEF Snapshot, SnapshotOf
  <2> QED BY <1>0, <1>1, <2>1, Numbers DEF OneWrite, TypeOK
<1>4. StoreInv'
    BY <1>0, <1>2, <1>3, Numbers DEF StoreInv, ProjectionBehindStore, TypeOK, Tx, Idle
<1>5. EpochInv'
    BY <1>0, <1>2, <1>3, Numbers DEF EpochInv, FreshLeaseEpochs
<1>6. SaveInv'
  <2> SUFFICES ASSUME tx.pc = "save", task'[tx.task].rev = row.trev
               PROVE  Safe(task'[tx.task])
      BY <1>2 DEF SaveInv, Safe
  <2>1. /\ tx.task \in Task /\ row = queue[tx.task] /\ row.status = "leased"
      BY <1>0 DEF TypeOK, TxInv, Idle, Tx
  <2>2. tx.task \in created /\ row.trev <= task[tx.task].rev
      BY <2>1 DEF StoreInv, ProjectionBehindStore
  <2>3. task'[tx.task] = task[tx.task]
      BY <1>0, <1>3, <2>1, <2>2, Numbers
  <2> QED BY <2>3 DEF SaveInv
<1> QED BY <1>4, <1>5, <1>6

-----------------------------------------------------------------------------
\* The remaining steps open or close a transaction, or leave it alone.
LEMMA OpeningStep ==
    ASSUME LInv,
           \/ \E t \in Task : BeginRegister(t) \/ BeginReconcile(t)
           \/ \E o \in Offer, t \in Task : BeginAcquire(o, t)
           \/ \E k \in held, used \in Steps : BeginComplete(k, used)
           \/ \E k \in held, used \in Steps, severe \in BOOLEAN, c \in CheckpointId :
                 BeginCheckpoint(k, used, severe, c)
    PROVE  StoreInv' /\ EpochInv' /\ SaveInv'
<1>1. UNCHANGED stores /\ tx'.pc \in {"load", "scan"}
    BY DEF BeginRegister, BeginReconcile, BeginAcquire, BeginComplete, BeginCheckpoint, Open
<1> QED BY <1>1, QuietStep DEF stores, ghosts

LEMMA ScanStep ==
    ASSUME LInv, AcquireScan
    PROVE  StoreInv' /\ EpochInv' /\ SaveInv'
<1>1. tx.pc = "scan" /\ tx \in Tx /\ UNCHANGED stores
    BY DEF AcquireScan, LInv, IInv, TypeOK, Idle
<1>2. PICK u \in tx.todo :
         \/ tx' = [[tx EXCEPT !.pc = "resume"] EXCEPT !.task = u] /\ row' = queue[u]
         \/ tx' = [tx EXCEPT !.todo = @ \ {u}] /\ row' = row
         \/ Close
    BY DEF AcquireScan
<1>3. tx'.pc \in {"resume", "scan", "idle"}
  <2>1. CASE tx' = [[tx EXCEPT !.pc = "resume"] EXCEPT !.task = u]
      BY <1>1, <2>1 DEF Tx
  <2>2. CASE tx' = [tx EXCEPT !.todo = @ \ {u}]
      BY <1>1, <2>2 DEF Tx
  <2>3. CASE Close
      BY <2>3 DEF Close, Idle
  <2> QED BY <1>2, <2>1, <2>2, <2>3
<1> QED BY <1>1, <1>3, QuietStep DEF stores, ghosts

LEMMA QuietSteps ==
    ASSUME LInv,
           \/ SaveRefused \/ ReconcileLoad \/ ReconcileRefuse
           \/ Abort \/ \E k \in held : LoseToken(k)
    PROVE  StoreInv' /\ EpochInv' /\ SaveInv'
<1>1. CASE ReconcileLoad
  <2>1. tx \in Tx /\ tx' = [tx EXCEPT !.pc = "resume"] /\ UNCHANGED stores
      BY <1>1 DEF ReconcileLoad, LInv, IInv, TypeOK, Idle
  <2>2. tx'.pc = "resume"
      BY <2>1 DEF Tx
  <2> QED BY <2>1, <2>2, QuietStep DEF stores, ghosts
<1>2. CASE SaveRefused \/ ReconcileRefuse \/ Abort
  <2>1. tx'.pc = "idle" /\ UNCHANGED <<task, created, queue, granted>>
      BY <1>2 DEF SaveRefused, ReconcileRefuse, Abort, Rollback, Close, Idle, stores, ghosts
  <2> QED BY <2>1, QuietStep
<1>3. CASE \E k \in held : LoseToken(k)
    BY <1>3, SameStep DEF LoseToken
<1> QED BY <1>1, <1>2, <1>3

LEMMA LStep == LInv /\ [Next]_vars => LInv'
<1> SUFFICES ASSUME LInv, [Next]_vars PROVE StoreInv' /\ EpochInv' /\ SaveInv'
    BY StepInv DEF LInv
<1>1. CASE Continue
    BY <1>1, RegisterStep, ScanStep, ResumeStep, LoadActiveStep, SaveStep, CommitStep,
       QuietSteps DEF Continue
<1>2. CASE Abort \/ \E k \in held : LoseToken(k)
    BY <1>2, QuietSteps
<1>3. CASE \/ \E t \in Task : BeginRegister(t) \/ BeginReconcile(t)
           \/ \E o \in Offer, t \in Task : BeginAcquire(o, t)
    BY <1>3, OpeningStep
<1>4. CASE \E k \in held, used \in Steps : BeginComplete(k, used)
    BY <1>4, OpeningStep
<1>5. CASE \E k \in held, used \in Steps, severe \in BOOLEAN, c \in CheckpointId :
              BeginCheckpoint(k, used, severe, c)
    BY <1>5, OpeningStep
<1>6. CASE External
    BY <1>6, OutsideStep
<1>7. CASE UNCHANGED vars
    BY <1>7, SameStep DEF vars
<1> QED
    BY <1>1, <1>2, <1>3, <1>4, <1>5, <1>6, <1>7 DEF Next, External

LEMMA Invariant == Spec => []LInv
BY LInit, LStep, PTL DEF Spec

-----------------------------------------------------------------------------
\* A queue row always speaks of a task, an epoch and a revision TaskStore
\* has: whatever crash separates the two COMMITs, the queue only lags.
THEOREM Projection == Spec => []ProjectionBehindStore
<1>1. LInv => ProjectionBehindStore
    BY DEF LInv, StoreInv
<1> QED BY <1>1, Invariant, PTL

\* Two leases of a task never share a control epoch.
THEOREM EpochsFresh == Spec => []FreshLeaseEpochs
<1>1. LInv => FreshLeaseEpochs
    BY DEF LInv, EpochInv
<1> QED BY <1>1, Invariant, PTL

\* Only the token of a task's newest lease can pass _active.
THEOREM NewestToken == Spec => []OnlyNewestTokenAccepted
<1>1. LInv => OnlyNewestTokenAccepted
  <2> SUFFICES ASSUME LInv, NEW a \in granted, NEW b \in granted, a.task = b.task,
                      QueueAccepts(a)
               PROVE  b.epoch <= a.epoch
      BY DEF OnlyNewestTokenAccepted
  <2>1. queue[a.task].status = "leased" /\ queue[a.task].epoch = a.epoch
      BY DEF QueueAccepts, TokenOf
  <2> QED BY <2>1 DEF LInv, EpochInv
<1> QED BY <1>1, Invariant, PTL

\* tasks.checkpoint takes effect only on the snapshot its lease was issued for.
THEOREM ExactSave == Spec => SaveUnderExactLease
<1>1. ASSUME LInv, [Next]_vars, NEW t \in Task,
             tx.pc = "save", task'[t] # task[t], durable'[t] # durable[t]
      PROVE  /\ queue[t].status = "leased"
             /\ Current(task[t], queue[t].epoch, queue[t].trev)
             /\ Safe(task[t])
  <2>0. TypeOK /\ TxInv
      BY <1>1 DEF LInv, IInv
  <2>1. durable' # durable
      BY <1>1
  <2>2. SaveCheckpoint
      BY <1>1, <2>1 DEF Next, vars, Continue, RegisterLoad, RegisterCreate, AcquireScan,
         Resume, LoadActive, SaveRefused, ReconcileLoad, ReconcileRefuse, Commit, Abort,
         BeginRegister, BeginReconcile, ExternalResume, BeginAcquire, LoseToken,
         BeginComplete, BeginCheckpoint, ExternalCreate, ExternalReserve, ExternalIssue,
         ExternalResolve, Write, Open, Rollback, stores, ghosts
  <2>3. /\ tx.task \in Task /\ row = queue[tx.task] /\ row.status = "leased"
      BY <1>1, <2>0 DEF TypeOK, TxInv, Idle, Tx
  <2>4. t = tx.task
      BY <1>1, <2>0, <2>2, <2>3 DEF SaveCheckpoint, TypeOK
  <2>5. Current(task[t], row.epoch, row.trev)
      BY <2>2, <2>4 DEF SaveCheckpoint, MaySave
  <2>6. Safe(task[t])
      BY <1>1, <2>4, <2>5 DEF LInv, SaveInv, Current
  <2> QED BY <2>3, <2>4, <2>5, <2>6
<1>2. LInv /\ [Next]_vars =>
        [\A t \in Task :
          tx.pc = "save" /\ task'[t] # task[t] /\ durable'[t] # durable[t] =>
              /\ queue[t].status = "leased"
              /\ Current(task[t], queue[t].epoch, queue[t].trev)
              /\ Safe(task[t])]_vars
    BY <1>1
<1> QED BY <1>2, Invariant, PTL DEF Spec, SaveUnderExactLease

\* Done work and an exhausted budget are final.
THEOREM FinalRows == Spec => FinalRowsStay
<1>1. ASSUME LInv, [Next]_vars, NEW t \in Task,
             queue[t].status = "done" \/ queue[t].reason = "budget_exhausted"
      PROVE  queue'[t] = queue[t]
  <2>1. CASE queue' = queue
      BY <2>1
  <2>2. CASE queue' # queue
    <3>1. Commit
        BY <1>1, <2>2 DEF Next, vars, Continue, RegisterLoad, RegisterCreate, AcquireScan,
           Resume, LoadActive, SaveRefused, SaveCheckpoint, ReconcileLoad, ReconcileRefuse,
           Abort, BeginRegister, BeginReconcile, ExternalResume, BeginAcquire, LoseToken,
           BeginComplete, BeginCheckpoint, ExternalCreate, ExternalReserve, ExternalIssue,
           ExternalResolve, Write, Open, Rollback, stores, ghosts
    <3>2. tx.pc = "commit" /\ queue' = [queue EXCEPT ![tx.task] = row]
        BY <3>1 DEF Commit
    <3>3. t # tx.task
        BY <1>1, <3>2 DEF LInv, IInv, TxInv
    <3> QED BY <1>1, <3>2, <3>3 DEF LInv, IInv, TypeOK
  <2> QED BY <2>1, <2>2
<1>2. LInv /\ [Next]_vars =>
        [\A t \in Task :
          queue[t].status = "done" \/ queue[t].reason = "budget_exhausted" =>
              queue'[t] = queue[t]]_vars
    BY <1>1
<1> QED BY <1>2, Invariant, PTL DEF Spec, FinalRowsStay
=============================================================================
