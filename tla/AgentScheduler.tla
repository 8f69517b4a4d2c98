---------------------------- MODULE AgentScheduler ----------------------------
(***************************************************************************)
(* SchedulerStore of twelve_six_agent_runtime/scheduler.py over TaskStore  *)
(* of task_state.py: two SQLite databases with no common transaction.      *)
(*                                                                         *)
(*   task, created   the tasks database (one row per created task)         *)
(*   queue           the scheduler database (status "absent": no row)      *)
(*   tx              the one open scheduler transaction.  BEGIN IMMEDIATE  *)
(*                   admits one writer, so all scheduler transactions are  *)
(*                   serial; TaskStore operations made inside one commit   *)
(*                   at once and on their own, before the COMMIT of tx.    *)
(*   row             the queue row tx is working on, durable at COMMIT     *)
(*   held            lease tokens some live worker still has, current or   *)
(*                   stale; any worker may present any of them             *)
(*                                                                         *)
(* History variables: granted (every token an acquire has returned),       *)
(* durable (steps whose checkpoint or completion was made durable).        *)
(* Fuel: faults (transactions killed, workers lost) and external (writes   *)
(* to the tasks database by other hosts) are capped by MaxFaults and       *)
(* MaxExternal; MaxRev caps the revision a lease or a checkpoint can give. *)
(*                                                                         *)
(* A call the code refuses before it changes anything is no step.          *)
(***************************************************************************)
EXTENDS TaskState

CONSTANTS
    Task,         \* task ids, as numbers in the order of the id text
    Priority, Deadline, MaxSteps, Cpu, Mem,   \* the WorkSpec of each task
    Background,   \* tasks with WorkSpec.background set
    Offer,        \* [tick, cpu, mem, pressure] an acquire may be called with
    Steps,        \* used_steps a worker may report
    CheckpointId, \* checkpoint_id a worker may report
    CarefulHost,  \* TRUE: the verifier denies a lease a live worker can use
    MaxRev, MaxFaults, MaxExternal

\* 500_000 and 900_000 ppm separate the three bands.
Pressure == {"low", "high", "severe"}

ASSUME SpecAssumption ==
    /\ Task \subseteq Nat
    /\ Priority \in [Task -> 0..100]
    /\ Deadline \in [Task -> Nat]
    /\ MaxSteps \in [Task -> Nat \ {0}]
    /\ Cpu \in [Task -> Nat \ {0}]
    /\ Mem \in [Task -> Nat \ {0}]
    /\ Background \subseteq Task

ASSUME InputAssumption ==
    /\ Offer \subseteq [tick: Nat, cpu: Nat, mem: Nat, pressure: Pressure]
    /\ Steps \subseteq Nat
    /\ CarefulHost \in BOOLEAN
    /\ MaxRev \in Nat /\ MaxFaults \in Nat /\ MaxExternal \in Nat

VARIABLES task, created, queue, tx, row, held, granted, durable, faults, external

ghosts == <<granted, durable, faults, external>>
stores == <<task, created, queue, held, ghosts>>
vars == <<task, created, queue, tx, row, held, granted, durable, faults, external>>

-----------------------------------------------------------------------------
\* Types.  An epoch of -1 stands for None.

Plan == {"own", "foreign"}   \* the plan_id of the WorkSpec, any other
StepId == {"queued", "work"}
Snapshot == SnapshotOf(Plan, StepId, CheckpointId)

Status == {"absent", "ready", "leased", "paused", "done"}
Reason == {"none", "budget_exhausted", "resource_pressure"}

Entry == [status: Status, rev: Nat, spent: Nat, epoch: Nat \union {-1},
          trev: Nat \union {-1}, reason: Reason]

NoEntry == [status |-> "absent", rev |-> 0, spent |-> 0, epoch |-> -1,
            trev |-> -1, reason |-> "none"]

\* The class Lease.
Token == [task: Task, srev: Nat, epoch: Nat, trev: Nat]

\* pc names the next step of the transaction; todo holds the eligible tasks an
\* acquire has not yet tried.
Tx == [kind: {"register", "acquire", "checkpoint", "complete", "reconcile"},
       pc: {"scan", "load", "create", "resume", "save", "commit"},
       task: Task, todo: SUBSET Task, used: Nat,
       severe: BOOLEAN, ckpt: CheckpointId \union {"initial"}]

\* WorkEntry.validate, which raises whenever a row would break it.
ValidEntry(t, entry) ==
    /\ entry.spent <= MaxSteps[t]
    /\ entry.epoch = -1 <=> entry.trev = -1
    /\ entry.status = "leased" => entry.epoch # -1
    /\ entry.status = "paused" <=> entry.reason # "none"

Idle == [pc |-> "idle"]

\* BEGIN IMMEDIATE and the read of the row of t.
Open(kind, pc, t, todo, used, severe, ckpt) ==
    /\ tx = Idle
    /\ tx' = [kind |-> kind, pc |-> pc, task |-> t, todo |-> todo,
              used |-> used, severe |-> severe, ckpt |-> ckpt]
    /\ row' = queue[t]
    /\ UNCHANGED stores

\* The transaction ends without a COMMIT that changes anything.
Close == tx' = Idle /\ row' = NoEntry

\* replace(item, revision=item.revision + 1, ...)
NextRow(status, spent, epoch, trev, reason) ==
    [status |-> status, rev |-> row.rev + 1, spent |-> spent, epoch |-> epoch,
     trev |-> trev, reason |-> reason]

-----------------------------------------------------------------------------
\* Helpers.

TokenOf(t, entry) ==
    [task |-> t, srev |-> entry.rev, epoch |-> entry.epoch, trev |-> entry.trev]

\* A faulty _active that looks at the status of the row only.
AcceptsAnyToken(k) == queue[k.task].status = "leased"

\* The two halves of _active: the queue row, then the canonical snapshot.
QueueAccepts(k) ==
    queue[k.task].status = "leased" /\ TokenOf(k.task, queue[k.task]) = k
StoreAccepts(k) == Current(task[k.task], k.epoch, k.trev) /\ Safe(task[k.task])
Accepted(k) == QueueAccepts(k) /\ StoreAccepts(k)

\* acquire: one active lease at a time.  The faulty form does not look.
NotChecked == TRUE
NoneLeased == \A u \in Task : queue[u].status # "leased"

Eligible(o) ==
    {t \in Task :
        /\ queue[t].status = "ready"
        /\ queue[t].spent < MaxSteps[t]
        /\ o.tick <= Deadline[t]
        /\ Cpu[t] <= o.cpu /\ Mem[t] <= o.mem
        /\ ~(t \in Background /\ o.pressure # "low")}

\* acquire's sort key: priority first, then deadline, then task id.
Before(t, u) ==
    \/ Priority[t] > Priority[u]
    \/ Priority[t] = Priority[u] /\ Deadline[t] < Deadline[u]
    \/ Priority[t] = Priority[u] /\ Deadline[t] = Deadline[u] /\ t < u

First(S, t) == t \in S /\ \A u \in S \ {t} : Before(t, u)

\* register adopts only a task no one has touched.
Pristine(s) ==
    /\ s.plan = "own" /\ s.rev = 0 /\ s.step = "queued" /\ Listed(s) = {}

\* The charge of a checkpoint or completion, and the limit it is held to.
\* Faulty forms: the steps are not added; the limit is off by one.
NotCharged(entry, used) == entry.spent
Charged(entry, used) == entry.spent + used
OneTooMany(t, spent) == spent <= MaxSteps[t] + 1
Affordable(t, spent) == spent <= MaxSteps[t]

\* severe: the worker reports a pressure of 900_000 ppm or more.
PauseReason(t, spent, severe) ==
    IF spent = MaxSteps[t] THEN "budget_exhausted"
    ELSE IF severe THEN "resource_pressure" ELSE "none"

\* What reconcile takes up, and what it never replenishes.  Faulty forms: a
\* dead lease is not taken up; the reason of the pause is not looked at.
OnlyPaused == {"paused"}
Recoverable == {"leased", "paused"}
AnyReason(entry) == TRUE
Replenishable(entry) == entry.reason # "budget_exhausted"

Rollback == Close /\ UNCHANGED stores

-----------------------------------------------------------------------------
Init ==
    /\ created = {}
    /\ task = [t \in Task |-> NewTask("own", "queued")]
    /\ queue = [t \in Task |-> NoEntry]
    /\ tx = Idle /\ row = NoEntry
    /\ held = {} /\ granted = {}
    /\ durable = [t \in Task |-> 0]
    /\ faults = 0 /\ external = 0

-----------------------------------------------------------------------------
\* register

BeginRegister(t) ==
    /\ queue[t].status = "absent"
    /\ Open("register", "load", t, {}, 0, FALSE, "initial")

\* A faulty load that takes a missing task for an adopted one.
RegisterWithoutCreate ==
    /\ tx.pc = "load" /\ tx.kind = "register"
    /\ tx' = [tx EXCEPT !.pc = "commit"]
    /\ row' = [row EXCEPT !.status = "ready"]
    /\ UNCHANGED stores

\* The load, and what it finds: a missing task, one to adopt, or a refusal.
RegisterLoad ==
    /\ tx.pc = "load" /\ tx.kind = "register"
    /\ IF tx.task \in created /\ ~Pristine(task[tx.task])
       THEN Close
       ELSE /\ tx' = [tx EXCEPT !.pc = IF tx.task \in created THEN "commit" ELSE "create"]
            /\ row' = [row EXCEPT !.status = "ready"]
    /\ UNCHANGED stores

RegisterCreate ==
    /\ tx.pc = "create"
    /\ IF tx.task \in created
       THEN Rollback
       ELSE /\ created' = created \union {tx.task}
            /\ task' = [task EXCEPT ![tx.task] = NewTask("own", "queued")]
            /\ tx' = [tx EXCEPT !.pc = "commit"]
            /\ UNCHANGED <<row, queue, held, ghosts>>

-----------------------------------------------------------------------------
\* acquire

BeginAcquire(o, t) ==
    /\ NoneLeased
    /\ o.pressure # "severe"
    /\ First(Eligible(o), t)
    /\ Open("acquire", "scan", t, Eligible(o), 0, FALSE, "initial")

\* Load the first task left; one with an unresolved effect is passed over.
AcquireScan ==
    /\ tx.pc = "scan"
    /\ \E t \in tx.todo :
          /\ First(tx.todo, t)
          /\ \/ /\ Safe(task[t])
                /\ tx' = [[tx EXCEPT !.pc = "resume"] EXCEPT !.task = t]
                /\ row' = queue[t]
             \/ /\ ~Safe(task[t]) /\ tx.todo # {t}
                /\ tx' = [tx EXCEPT !.todo = @ \ {t}]
                /\ UNCHANGED row
             \/ ~Safe(task[t]) /\ tx.todo = {t} /\ Close
    /\ UNCHANGED stores

\* tasks.resume for an acquire (the lease) or a reconcile (back to ready).
Resume ==
    /\ tx.pc = "resume"
    /\ task[tx.task].rev < MaxRev
    /\ LET s == Resumed(task[tx.task])
           status == IF tx.kind = "acquire" THEN "leased" ELSE "ready"
       IN  /\ task' = [task EXCEPT ![tx.task] = s]
           /\ row' = NextRow(status, row.spent, s.epoch, s.rev, "none")
    /\ tx' = [tx EXCEPT !.pc = "commit"]
    /\ UNCHANGED <<created, queue, held, ghosts>>

-----------------------------------------------------------------------------
\* checkpoint and complete, both under a token

BeginCheckpoint(k, used, severe, ckpt) ==
    QueueAccepts(k) /\ Open("checkpoint", "load", k.task, {}, used, severe, ckpt)

BeginComplete(k, used) ==
    QueueAccepts(k) /\ Open("complete", "load", k.task, {}, used, FALSE, "initial")

\* The TaskStore half of _active, then the budget check.
LoadActive ==
    /\ tx.pc = "load" /\ tx.kind \in {"checkpoint", "complete"}
    /\ LET spent == Charged(row, tx.used)
           passes == StoreAccepts(TokenOf(tx.task, row)) /\ Affordable(tx.task, spent)
       IN  \/ ~passes /\ Close
           \/ /\ passes /\ tx.kind = "checkpoint"
              /\ tx' = [tx EXCEPT !.pc = "save"]
              /\ UNCHANGED row
           \/ /\ passes /\ tx.kind = "complete"
              /\ tx' = [tx EXCEPT !.pc = "commit"]
              /\ row' = NextRow("done", spent, row.epoch, row.trev, "none")
    /\ UNCHANGED stores

\* tasks.checkpoint: the compare-and-swap under the token's epoch and revision.
MaySave ==
    /\ Current(task[tx.task], row.epoch, row.trev)
    /\ MayCheckpoint(task[tx.task], tx.ckpt, {})

SaveCheckpoint ==
    /\ tx.pc = "save" /\ MaySave
    /\ task[tx.task].rev < MaxRev
    /\ LET s == Checkpointed(task[tx.task], "work", tx.ckpt, {})
           spent == Charged(row, tx.used)
           reason == PauseReason(tx.task, spent, tx.severe)
           status == IF reason = "none" THEN "ready" ELSE "paused"
       IN  /\ task' = [task EXCEPT ![tx.task] = s]
           /\ row' = NextRow(status, spent, row.epoch, s.rev, reason)
    /\ durable' = [durable EXCEPT ![tx.task] = @ + tx.used]
    /\ tx' = [tx EXCEPT !.pc = "commit"]
    /\ UNCHANGED <<created, queue, held, granted, faults, external>>

SaveRefused == tx.pc = "save" /\ ~MaySave /\ Rollback

-----------------------------------------------------------------------------
\* reconcile

BeginReconcile(t) ==
    /\ queue[t].status \in Recoverable
    /\ Open("reconcile", "load", t, {}, 0, FALSE, "initial")

\* The host's verifier.  A careful one denies a lease that can still be used.
Verifies(t) == CarefulHost => \A k \in held : k.task = t => ~Accepted(k)

\* The checks before the resume.
ReconcileLoad ==
    /\ tx.pc = "load" /\ tx.kind = "reconcile"
    /\ Safe(task[tx.task])
    /\ Verifies(tx.task)
    /\ Replenishable(row)
    /\ tx' = [tx EXCEPT !.pc = "resume"]
    /\ UNCHANGED <<row, stores>>

\* A check that failed, a verifier that said no, or release_pressure=False.
ReconcileRefuse == tx.pc = "load" /\ tx.kind = "reconcile" /\ Rollback

-----------------------------------------------------------------------------
\* COMMIT of the scheduler database.  An acquire then returns its token; a
\* completion makes its steps durable here, since it writes no TaskStore row.

Returned == IF tx.kind = "acquire" THEN {TokenOf(tx.task, row)} ELSE {}

Commit ==
    /\ tx.pc = "commit"
    /\ queue' = [queue EXCEPT ![tx.task] = row]
    /\ Close
    /\ held' = held \union Returned /\ granted' = granted \union Returned
    /\ durable' = IF tx.kind = "complete"
                  THEN [durable EXCEPT ![tx.task] = @ + tx.used] ELSE durable
    /\ UNCHANGED <<task, created, faults, external>>

\* The process dies inside the transaction, or SQLite refuses its write.
Abort ==
    /\ tx # Idle
    /\ faults < MaxFaults /\ faults' = faults + 1
    /\ Close
    /\ UNCHANGED <<task, created, queue, held, granted, durable, external>>

\* A worker dies, or never receives the token its acquire committed.
LoseToken(k) ==
    /\ faults < MaxFaults /\ faults' = faults + 1
    /\ held' = held \ {k}
    /\ UNCHANGED <<task, created, queue, tx, row, granted, durable, external>>

-----------------------------------------------------------------------------
(***************************************************************************)
(* Other hosts (tool drivers, the UI) call TaskStore directly.  They load  *)
(* a snapshot and present its epoch and revision; a stale pair changes     *)
(* nothing, so an operation that takes effect is one on the current row.   *)
(***************************************************************************)
Write(t, s) ==
    /\ t \in created
    /\ task' = [task EXCEPT ![t] = s]
    /\ UNCHANGED <<created, queue, tx, row, held, granted, durable, faults>>

ExternalCreate(t, plan) ==
    /\ t \notin created
    /\ external < MaxExternal /\ external' = external + 1
    /\ created' = created \union {t}
    /\ task' = [task EXCEPT ![t] = NewTask(plan, "queued")]
    /\ UNCHANGED <<queue, tx, row, held, granted, durable, faults>>

ExternalReserve(t, new, ckpt) ==
    /\ external < MaxExternal /\ external' = external + 1
    /\ MayCheckpoint(task[t], ckpt, new)
    /\ Write(t, Checkpointed(task[t], "work", ckpt, new))

ExternalResume(t) ==
    /\ external < MaxExternal /\ external' = external + 1
    /\ Write(t, Resumed(task[t]))

ExternalIssue(t, e) ==
    /\ MayIssue(task[t], e)
    /\ Write(t, Issued(task[t], e))
    /\ UNCHANGED external

ExternalResolve(t, e) ==
    /\ MayResolve(task[t], e)
    /\ Write(t, Resolved(task[t], e))
    /\ UNCHANGED external

-----------------------------------------------------------------------------
Continue ==
    \/ RegisterLoad \/ RegisterCreate \/ AcquireScan \/ Resume
    \/ LoadActive \/ SaveCheckpoint \/ SaveRefused
    \/ ReconcileLoad \/ ReconcileRefuse \/ Commit

Next ==
    \/ Continue
    \/ Abort
    \/ \E t \in Task : BeginRegister(t) \/ BeginReconcile(t) \/ ExternalResume(t)
    \/ \E o \in Offer, t \in Task : BeginAcquire(o, t)
    \/ \E k \in held : LoseToken(k)
    \/ \E k \in held, used \in Steps : BeginComplete(k, used)
    \/ \E k \in held, used \in Steps, severe \in BOOLEAN, c \in CheckpointId :
          BeginCheckpoint(k, used, severe, c)
    \/ \E t \in Task, plan \in Plan : ExternalCreate(t, plan)
    \/ \E t \in Task, new \in SUBSET Effect, c \in CheckpointId : ExternalReserve(t, new, c)
    \/ \E t \in Task, e \in Effect : ExternalIssue(t, e) \/ ExternalResolve(t, e)

Spec == Init /\ [][Next]_vars

(***************************************************************************)
(* Fairness for the liveness run.  A scheduler transaction that is open    *)
(* goes on (its process runs, or Abort takes it).  Hosts and workers that  *)
(* keep calling get the write lock in the end (busy_timeout is 10 s), so   *)
(* calls that are enabled again and again are made: strong fairness.  The  *)
(* host keeps offering a calm machine, reconciles what may be reconciled,  *)
(* and drives a reserved effect to its receipt.                            *)
(***************************************************************************)
FairSpec ==
    /\ Spec
    /\ WF_vars(Continue)
    /\ SF_vars(ReconcileLoad)
    /\ SF_vars(\E o \in Offer, t \in Task : o.pressure = "low" /\ BeginAcquire(o, t))
    /\ SF_vars(\E k \in held : Accepted(k) /\ BeginComplete(k, 0))
    /\ \A t \in Task : SF_vars(BeginReconcile(t))
    /\ WF_vars(\E t \in Task, e \in Effect : ExternalIssue(t, e) \/ ExternalResolve(t, e))

-----------------------------------------------------------------------------
\* Properties.

\* Types; WorkEntry.validate accepts every row the scheduler writes.
TypeOK ==
    /\ task \in [Task -> Snapshot]
    /\ created \subseteq Task
    /\ queue \in [Task -> Entry] /\ \A t \in Task : ValidEntry(t, queue[t])
    /\ tx \in {Idle} \union Tx /\ row \in Entry
    /\ held \subseteq Token /\ granted \subseteq Token
    /\ durable \in [Task -> Nat]
    /\ faults \in Nat /\ external \in Nat

\* "A single active lease is allowed": however acquisitions, reconciliations
\* and crashes interleave, at most one task is leased.
AtMostOneLease ==
    \A t, u \in Task :
        queue[t].status = "leased" /\ queue[u].status = "leased" => t = u

\* The queue is a projection that a crash between the two COMMITs may leave
\* behind TaskStore, never ahead of it: a row speaks of a task that exists,
\* and of an epoch and a revision the task has reached.
ProjectionBehindStore ==
    \A t \in Task :
        queue[t].status # "absent" =>
            /\ t \in created
            /\ queue[t].epoch <= task[t].epoch
            /\ queue[t].trev <= task[t].rev

\* Two leases of one task never carry the same control epoch, although an
\* acquire that dies after tasks.resume burns an epoch without a lease.
FreshLeaseEpochs ==
    \A a, b \in granted : a.task = b.task /\ a.epoch = b.epoch => a = b

\* Steps are charged to the budget only for work that is durable, and when
\* nothing ever failed the charge of a closed transaction is exact.
ChargesMatchWork ==
    \A t \in Task :
        /\ queue[t].spent <= durable[t]
        /\ faults = 0 /\ tx = Idle => queue[t].spent = durable[t]

\* What a crash between the COMMIT of tasks.checkpoint and the COMMIT of the
\* queue can hide is one budget per crash.
OverrunBoundedByFaults ==
    \A t \in Task : durable[t] <= MaxSteps[t] * (1 + faults)

\* tasks.checkpoint takes effect only on the snapshot the lease was issued
\* for, with every effect of it resolved, whatever other hosts wrote between
\* the load of _active and the compare-and-swap.
SaveUnderExactLease ==
    [][\A t \in Task :
          tx.pc = "save" /\ task'[t] # task[t] /\ durable'[t] # durable[t] =>
              /\ queue[t].status = "leased"
              /\ Current(task[t], queue[t].epoch, queue[t].trev)
              /\ Safe(task[t])]_vars

\* Of all tokens ever handed out for a task only that of its newest lease can
\* pass _active: a worker that slept through a reconcile changes nothing.
OnlyNewestTokenAccepted ==
    \A a, b \in granted : a.task = b.task /\ QueueAccepts(a) => b.epoch <= a.epoch

\* Done work and an exhausted budget are final: no transaction, reconcile
\* included, moves such a row again.
FinalRowsStay ==
    [][\A t \in Task :
          queue[t].status = "done" \/ queue[t].reason = "budget_exhausted" =>
              queue'[t] = queue[t]]_vars

\* The contract's "exhausted budget cannot be reset by recovery": the steps
\* made durable for a task never exceed its max_steps.
BudgetNotResetByRecovery == \A t \in Task : durable[t] <= MaxSteps[t]

\* The contract's "Unknown/pending effect states are ineligible for new
\* scheduling": the epoch of a new lease is issued over a safe snapshot.
LeaseIssuedOverSafeTask ==
    [][\A t \in Task :
          tx.pc = "resume" /\ tx.kind = "acquire" /\ tx.task = t
              /\ task'[t].epoch # task[t].epoch /\ tx'.pc = "commit" => Safe(task[t])]_vars

\* No crash, lost token, outside write or pressure pause stops the queue for
\* good: a task that was registered is done, or has used its budget, in the end.
EveryTaskSettles ==
    \A t \in Task :
        queue[t].status = "ready" ~>
            queue[t].status = "done" \/ queue[t].reason = "budget_exhausted"
=============================================================================
