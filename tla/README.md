# Verification of 12-6-ai

TLA+ models of the stateful parts of this repository, the TLC runs that check them on small
instances, and theorems about them that the TLA+ proof system proves for every instance. Paths
are below `src/`: `A/` stands for `src/twelve_six_agent_runtime/`, `T/` for `src/twelve_six/`.

The repository is a training and agent platform built out of evidence: most of its 1000 files
are validators of JSON documents, data sets and their tests. What carries state between calls,
and can go wrong in ways a unit test hardly reaches, is small: two agent stores on SQLite, a
recovery store on the file system, a training lease on a git ref, a distributed step ledger,
checkpoints, an exposure ledger, a champion chain. This project models those, but for the step
ledger and the champion chain (section 7).

## 1. Inventory

### The agent runtime

| Part | State | Operations | With whom | What is hard | What makes it correct |
|---|---|---|---|---|---|
| `TaskStore` (`A/task_state.py`) | SQLite: one snapshot per task (plan, step, checkpoint id, revision, control epoch, effects), an append-only history | create, checkpoint, issue_effect, resolve_effect, resume, load; each one transaction | everyone below writes through it | several hosts; compare-and-swap on (epoch, revision) for all but resume | a stale writer changes nothing; an effect is durably "unknown" before it is attempted |
| `SchedulerStore` (`A/scheduler.py`) | another SQLite file: one queue row per task (status, spent steps, epoch and revision of the task as last seen, pause reason) | register, acquire, checkpoint, complete, reconcile | each calls TaskStore inside its own transaction; a host-supplied verifier | two databases, no common commit: a crash between them; other hosts writing to TaskStore in between; sleeping workers with old leases | one lease at a time; the queue lags behind TaskStore and never leads it; stale leases are dead; budgets are charged for durable work; exhausted budgets stay exhausted; tasks settle |
| `FixtureRuntime` (`A/fixture_integration.py`) | none of its own; a host in the middle of `run` | run, reconcile_unknown | TaskStore, ToolRegistry, MemoryStore, a tool outside | hosts that race, die between any two store calls, and retry | an effect is dispatched at most once, resolved only if dispatched, remembered once, done only when remembered |
| `ToolRegistry` (`A/tools.py`) | descriptors | prepare, accept_result | TaskStore | a result that arrives in a later control epoch | a late result is refused |
| `MemoryStore` (`A/memory.py`) | SQLite: append-only records with a revision | append, history, retrieve, corrections | FixtureRuntime | revision races, duplicates | a record is appended once |
| evidence and projections (`A/self_model.py`, `world.py`, `context.py`, `security.py`, `ui_control.py`, `multimodal.py`) | an append-only table; otherwise none | pure validation of one call | | | |

### Training and recovery

| Part | State | Operations | With whom | What is hard | What makes it correct |
|---|---|---|---|---|---|
| recovery store (`T/scale141_recovery.py`, `T/scale141_resume_sidecar.py`) | `current.json`, `generations/`, `checkpoints/`, `resume-states/` | publish, cleanup, resolve | the lock; checkpoints; the trainer's exposure state | a death at any file-system step; content addressing with differing manifests; numbers that come back after a cleanup | the pointer always selects a whole generation; what cleanup spares stays restorable; the choice moves forward only; no leftover stops publication, a torn object only that of its own content |
| recovery lock (`T/checkpoint/recovery_lock.py`) | three nested flocks: by name, by the parent's inode, by the root's | exclusive_recovery_lock | the recovery store | parents and roots renamed and recreated while another process waits | one holder per logical path and per directory; no call waits for good |
| global training lease (`T/learned20m_global_training_lease.py`, `T/learned20m_training_lease.py`) | commits behind one git ref | inspect, acquire, renew, terminate | a git remote | lost answers, pushes that time out or land late, racing runners, hosts' clocks | the record is one lawful chain of one run; what a caller is told of its write is true |
| current run (`T/learned20m_current_run_authority.py`) | a pointer behind a second git ref | inspect, activate, refresh, retire | the global lease | every operation reads two refs at two instants; the lease moves between the read and the push | the pointer names a run that held the lease it binds and never goes back; "active" was true at one instant |
| distributed run (`T/distributed_control.py`, `T/distributed_transport.py`) | an append-only step ledger; published artifact directories | claim/complete steps, commit checkpoint, resume after loss; publish, fetch | workers that fail | elastic meshes, a second loss, rename races | an exposure is counted once; a resume starts from a whole checkpoint |
| checkpoints (`T/checkpoint/core.py`, `durability.py`, `root_snapshot.py` and their neighbours) | directories | save, load, verify, select, retain | all of the above | power failures between flushes and renames; directories removed or replaced while they are read | a save that returned is there and whole; what loads is one save |
| trainer (`T/training/trainer.py`, `T/checkpoint/progress_trainer.py`, `trainer_adapter.py`, `transactional_rng.py`) | weights, optimizer, counters, two flags that say the state is not to be trusted | run, train_microbatch, state_dict, load_state_dict, restore | exposure ledger, checkpoints | an update, a hook or a restore that stops half-way | a published checkpoint has been trained on a prefix of the plan, each batch once |
| exposure ledger (`T/data/unique_loss_ledger_v2.py` and its guards) | claimed loss positions, the place in the plan | authorize, bind to a checkpoint, save, restore | trainer | it claims before the trainer trains; it is bound to a checkpoint by a count | no position is trained on twice, none is skipped |
| champion lifecycle (`T/champion_lifecycle.py`) | a hash chain of decisions | promote, reject, rollback | an external trusted head | forks; a rollback of a rollback | the champion is the one of the trusted chain |
| research loop (`T/autonomous_research_loop.py`, `self_scaling_controller.py`, `research_engine.py`) | a bounded map of experiments | propose, observe | | | |
| candidate factories, swarm routing, launch authorities, operator tools, data admission, model and tokenizer | none between calls, or files read once | | | | |

`PROJECT.json` lists every part with its status and, for one that is not modelled, why; its
`hazards` list is the working list of what can really go wrong, each at its line, with the
property that would catch it.

## 2. What is modelled

| Module | Models | Abstract specification |
|---|---|---|
| `TaskState` | the snapshot of a task and what each TaskStore operation does to it (no variables; shared by the next two) | |
| `AgentScheduler` | SchedulerStore over TaskStore, outside hosts, crashes | |
| `FixtureRuntime` | hosts over TaskStore, ToolRegistry, MemoryStore and a tool | `EffectLifecycle` |
| `Recovery` | the recovery store and its sidecars, a file-system step at a time | `LastKnownGood` |
| `RecoveryLock` | the nested locks of the recovery store, under renames | |
| `GlobalLease` | runners over a git ref, a git command at a time | `LeaseChain`, `RunLease` |
| `CurrentRun` | clients over the pointer's ref and the refs of the leases (`RunLease`) | `RunSelection` |
| `TrainingResume` | trainer, ordered exposure guard and restore, under failures | `OnePass` |
| `CheckpointStore` | saves, loads, power failures and removals of checkpoint directories | |
| `MC*` | the constants and symmetries of the runs | |
| `*Proofs` | the theorems | |

How they fit. `CurrentRun` takes the leases as `RunLease` describes them and instantiates that
module for its `record`; that `GlobalLease` is an implementation of `RunLease` is a theorem.
`Recovery` takes one lock per root for granted, which is a theorem about `RecoveryLock`.
`Recovery` and `TrainingResume` take it that a published checkpoint is whole and stays so, which
`CheckpointStore` shows of saves that returned, and that a checkpoint is one save, which it shows
of loads that race a cleanup; both are theorems.

### AgentScheduler

`task` and `created` are the tasks database, `queue` the scheduler's. `tx` is the open scheduler
transaction (`BEGIN IMMEDIATE` admits one) and `row` the row it will write at COMMIT. A call of
the scheduler is one action that opens the transaction and makes the checks on the queue
(`BeginRegister`, `BeginAcquire`, `BeginCheckpoint`, `BeginComplete`, `BeginReconcile`), one
action for each TaskStore call it makes (`RegisterLoad`, `RegisterCreate`, `AcquireScan`,
`Resume`, `LoadActive`, `SaveCheckpoint`, `ReconcileLoad`), and `Commit`. TaskStore commits in a
database of its own, so each of these is durable at once and other hosts (`External...`) write
between any two. `Abort` is a process that dies inside the transaction, `LoseToken` a worker that
dies. Tokens stay in `held` until they are lost, so a worker may present any old lease at any
time. A call refused before it changes anything is no step. `granted` and `durable` are history
variables.

### FixtureRuntime

Every store call of `run` and `reconcile_unknown` is an action of one host: `Load`, `Create`,
`Reserve`, `Prepare`, `Issue`, `Dispatch`, `Accept`, `Resolve`, `VerifyReceipt`, `ReadHistory`,
`Append`, `Finish`. A host holds the snapshot it saw and presents its epoch and revision. `Stop`
is a death, an interruption point (`stop_after`) or a callback that refuses. The model proposal,
context and world checks are callbacks that may refuse. The independent verifier of
`reconcile_unknown` is external: it confirms a dispatch that took place (`Confirmed`).

### Recovery

The disk is four variables: `pointer`, `objects`, `generations`, `sidecars`. A directory has a
content id, a stamp for the rest of its manifest (two saves of one content differ in
`created_at_utc`), and is whole or torn: renames are atomic, `rmtree` passes through a torn
directory. `holder` is the call that has the lock, at its next step: publication goes object,
ordinal copy (`Clone`), sidecar, pointer; cleanup goes generation, its sidecar, orphan sidecars,
verification, objects. `Stop` ends the holder at any step; the kernel releases its lock. A killed
writer also leaves what it had staged: `.checkpoint-stage-*` and `.current.*.tmp` in the root,
`.generation-N.clone-*` in `generations`, `.generation-N.tmp-*` in `resume-states`. `litter` says
which of the four are there. Nothing ever removes them; only the last makes later calls (every
cleanup) refuse.

### GlobalLease

`lineage` is the commits behind the ref. A transition is a read and a local commit (`Acquire`,
`Renew`, `Terminate`), a push with its outcomes (`PushAccepted`, `PushRefused`, `PushFailed`: its
answer was lost or it never got there; `PushAbandoned`: killed by the 60 s timeout, or the runner
died), the `ls-remote` probe after a failed push, and the re-read. A push whose client has gone
may be on the `wire` and `Arrive` at any later moment. Instants are inputs of each call: hosts'
clocks need not agree, and nothing in the code makes them.

### RecoveryLock

A path is a parent's name and the root's name in it; `parentAt` and `rootIn` say where the
directories are, and `Move` renames one away or back at any time. `exclusive_recovery_lock` is one
action per system call that matters: open and lock the namespace guard (known by the names), make
or find the parent (`PinParent`), the root (`MakeRoot`, which goes by the path and may make it in
another parent), open the path guard in whatever parent is there by now (`OpenGuard`, `LockPath`),
open the root and lock the file in it (`PinRoot`, `LockRoot`), and compare both with what they
were (`CheckParent`, `CheckRoot`). What is compared after the critical section only decides between
returning and raising. It is the POSIX branch. From the docstring: lock files are never removed and
the namespace that contains the parents is stable. Directories are moved, not deleted, so no inode
comes back.

### CurrentRun

`pointers` is the commits behind the pointer's ref. `activate` reads the lease (`ActivateLease`)
and then the pointer (`ActivatePointer`), `refresh` the pointer and then the lease (`RefreshPointer`,
`RefreshLease`), `retire` the pointer only; the push, its outcomes and the probe are those of the
lease, except that this code probes after a push that was accepted, too. The re-read that verifies
a write is an inspection: the pointer (`ReadPointer`), then the lease (`ReadLease`). Expiry is an
answer that `ReadLease` may always give and a refusal, which is no step, elsewhere. A push that
landed, whose answer was lost, and which another client then followed is reported as a conflict
with `committed=False`, as with the lease. `held` is a history variable: whether the selection
was true when an inspection read the pointer.

### TrainingResume

A batch is its place in the plan; `model.applied` is the sequence of batches in the weights and
`model.grads` those whose gradients wait. `Yield` is the generator's `authorize_ordered_batch`, before
the trainer looks at `max_steps`, so the guard claims one batch more than the trainer needs;
`Backward`, `Update`, `Hook` and `Return` are the loop of `run`. What goes wrong is an action each:
a batch refused (`Refuse`), a loss that is not finite (`Diverge`), an update that raises or is
interrupted before or after the optimizer's step (`UpdateFails`), an interrupt between statements,
a publication that raises with or without effect (`HookFails`), a restore that stops between its
parts (`RestoreFails`), a process that dies. The driver is not in the repository: on an exception
it calls `run` again, builds a new trainer around the live model and guard, or starts a new
process, in any order. It takes the state that `bind_checkpoint_state` accepts for its
checkpoint and restores the last one published.

One thing that the model shows is an assumption about the driver: if the hook of the last step
fails and `run` is called again on that trainer, `run` returns at once (it is at `max_steps`) and
the final checkpoint is never published. `CallAgain` leaves that call out; with it `PlanCompletes`
is false.

### CheckpointStore

A directory is the state of its files (absent, cached, stable, torn) and whether their names are
on disk. `save` goes: staging directory, core save (`WriteFiles`), the flush of each file and of
the directory, rename without replacement (`Publish`), flush of the parent (`Confirm`). `onDisk`
is what a name may turn out to be after a power failure: every directory it stood for since the
parent's last flush. `load` opens the directory once, checks its inventory and reads each file from
what it opened. `Unlink` and `RemoveDirectory` are the `rmtree` of a recovery cleanup, a file at a time.
Simplified: a removal survives a power failure once made, the parent stays, staging directories are
never seen again, the POSIX branch.

## 3. What the runs check

| Run | Instance | Distinct states | Checks |
|---|---|---|---|
| `scheduler` | 2 tasks (one background), 1 effect, 2 checkpoint ids, used steps 1 or 2 against budgets 2 and 1, a calm and a busy offer, 1 fault, 1 outside write, revisions to 4 | 415,869 | `TypeOK`, `AtMostOneLease`, `ProjectionBehindStore`, `FreshLeaseEpochs`, `ChargesMatchWork`, `OverrunBoundedByFaults`, `OnlyNewestTokenAccepted`, `SaveUnderExactLease`, `FinalRowsStay` |
| `scheduler_live` | as above, calm offers, a careful host | 59,499 | `EveryTaskSettles` |
| `scheduler_budget` | careful host, 1 fault | violated | `BudgetNotResetByRecovery` |
| `scheduler_race` | no fault, 1 outside write | violated | `LeaseIssuedOverSafeTask` |
| `fixture` | 2 hosts, 2 faults, 2 outside writes | 81,787 | `TypeOK`, `ImplementsLifecycle`, `LateResultRefused`, `ReservedSettles` |
| `recovery` | 2 contents, 2 manifests, 3 generation numbers, keep 1 and 2, 2 deaths | 250,305 | `TypeOK`, `CurrentResolves`, `RetainedRestorable`, `ImplementsLastKnownGood`, `PublishingGoesOn`, `GarbageGoes` |
| `recovery_lock` | 2 processes, 2 paths, 2 parents, 2 roots, 2 moves | 33,484 | `TypeOK`, `OnePerPath`, `OnePerRoot`, `EveryCallEnds` |
| `lease` | 2 runners, 2 commits each, instants 0..2, ttl 1 and 2, 1 fault | 195,622 | `TypeOK`, `CommittedIsWritten`, `RejectedOnlyIfOvertaken`, `ImplementsLeaseChain` |
| `lease_report` | the same | violated | `CleanFailureMeansNoWrite` |
| `current_run` | 2 clients, 2 commits each, 2 manifests with leases of up to 2 commits, 1 fault | 738,554 | `TypeOK`, `ActiveWasHeld`, `BoundLeaseWasHeld`, `LeaseNeverGoesBack`, `ImplementsRunSelection` |
| `training` | 8 batches of 1 or 2 targets, accumulation 2, 3 steps, cadence 2, 5 faults | 10,518 | `TypeOK`, `CountsTellBatches`, `ImplementsOnePass`, `PlanCompletes` |
| `checkpoints` | 2 processes, 2 names, 3 directories, the manifest and one payload, 2 faults | 576,794 | `TypeOK`, `ReturnedSaveSurvives`, `LoadIsOneSave` |

Why these bounds. In the scheduler, two tasks are enough for one to be passed over and one to be
leased; used steps of 2 overrun a budget of 1 and exhaust one of 2 in one go, 1 does it in two;
revision 4 is register, lease, save, and a second lease and save after a fault, and one fault is
what a property that relates two COMMITs needs. In the fixture, two hosts are a runner and a
reconciler (or two runners) of one effect; two faults are a death after the dispatch and another
of the host that takes over. In the recovery store, two contents and two manifests meet every case
of the content-addressed object, three numbers leave room for an orphan above the pointer, its
removal, and the reuse of its number; two deaths are one that leaves an orphan and one that leaves
it torn. In the lock, two moves take a parent away and put another, or itself, in its place or at
the other path; three processes with the same moves were checked once for safety (272,080 states)
and add nothing. In the lease, one fault is one lost answer: the runner concerned and the one that
overtakes it are two, two commits each let one renew and the other terminate, and the instants 0..2
meet each boundary of a ttl of 1 and of 2. In the current run, two commits of each client are an
activation, a retirement and two more by the other, two commits of a lease are its grant and its
renewal or end. In training, batches of different sizes let two different sets of them add up to
the same count; three updates of which the second is on the cadence have a checkpoint in the middle,
one lost step after it and a final one; five faults put one in every phase of a run and its
restores. In the checkpoint store, a third directory is the one a save makes while the other two are
at the names; two faults are a failure at one step and the power failure or removal that meets it.
Where a property is also proved (section 5), the bounds of its run do not limit it.

`CHECK_DEADLOCK FALSE` in every run: queues empty, fuel and generation numbers run out, records
end.

### Fairness

- Scheduler: an open transaction goes on (weak). Hosts that keep calling `acquire`, `complete` and
  `reconcile` get the write lock in the end (strong; SQLite waits up to `busy_timeout`, 10 s, and
  the caller calls again). The host offers a calm machine again and again, and drives a reserved
  effect to its receipt. Without a host that reconciles, a dead worker's lease blocks the queue
  for ever, and the code leaves that to the host on purpose.
- Fixture: a host that is running goes on; an idle one is called again for run and for reconcile.
- Recovery: the holder of the lock goes on (weak), and nobody is bound to publish or clean up: who
  calls again is the premise of each property. `PublishingGoesOn` is stated for each content: if a
  trainer retries that content (strong, `flock` blocks), generation numbers are taken until they run
  out, or the content stays wedged. A content is wedged by a cleanup that died while it removed the
  content's object: each publication of it then fails to verify the half object
  (`scale141_recovery.py:544`), also when it is the same step of the same trainer again, until a
  cleanup has removed it. `GarbageGoes` says when one does: if cleanups with keep 1 begin again and
  again, superseded and orphaned objects, ordinal copies and installed sidecars, torn ones too, are
  gone again and again, unless a staging directory in `resume-states` makes every cleanup refuse; a
  content wedged before that stays wedged (with four numbers TLC finds such a run). The other staging leftovers are not part of it: no cleanup removes them.
- Recovery lock: a call that need not wait goes on and leaves its critical section (weak). A call
  that waits for a lock that is free again and again gets it (strong): `flock` hands the lock to one
  of those that wait, and a critical section is a bounded job.
- Training: the process goes on (weak) and the driver of a run that stops again and again starts a
  new process at some point (strong); it may do anything else before.
- Lease, current run, checkpoint store: no liveness property. A caller may stop at any moment and
  the code promises no progress.

### Where the documents and the code differ

- `scheduler_budget`: `docs/PLAN5_SCHEDULER_REFERENCE_CONTRACT.md:17` says "exhausted budget cannot
  be reset by recovery". A crash after `tasks.checkpoint` committed and before the queue row did
  hides the charge; the reconciled task is charged again. `OverrunBoundedByFaults` says how much:
  one budget per crash. Line 18 says that the two databases are not atomic together, which is where
  the window comes from; it does not say that a budget may be exceeded.
- `scheduler_race`: line 19 of the same document says pending effects make a task ineligible.
  `acquire` checks a snapshot and then calls `tasks.resume`, which takes no expected revision;
  an effect reserved in between is leased over.
- `lease_report`: `docs/C01_LEARNED20M_GLOBAL_GIT_REF_LEASE.md:33` says a mutation that succeeded is
  never reported as a clean failure. A push killed by its timeout skips the probe and is reported
  with `remote_write_outcome_unknown=False`.

## 4. What the abstract specifications say

- `EffectLifecycle`: reserve, issue, dispatch at most once, resolve only what was dispatched,
  remember once and only what is resolved, finish only what is remembered. `FixtureRuntime`
  implements it with the phase read off the task's row.
- `LastKnownGood`: whole generations appear above all others, may be dropped unless current, and
  the current one only moves forward, to one that is whole. `Recovery` implements it with "kept"
  read as "verifies": a step that tears a directory is the abstract drop, the clone (and neither
  the object nor the pointer) is the moment a generation appears.
- `LeaseChain`: a chain of leases that grows by one lawful transition at a time. `GlobalLease`
  implements it with the leases of its commits.
- `RunLease`: per manifest, a lease that one run takes, extends and ends for good. `GlobalLease`
  implements it for one manifest, and `CurrentRun` is built on it.
- `RunSelection`: a generation is one selection of one run of one manifest, from its activation to
  its retirement; while it lasts its lease only moves forward; the next begins when it is retired.
  `CurrentRun` implements it with the pointer states of its commits.
- `OnePass`: the weights of the saved checkpoint have been trained on a growing prefix of the plan,
  each batch once and in order. `TrainingResume` implements it with the batches of the saved model.

## 5. What is proved

All theorems hold for every value of the constants under the named assumptions: the types of the
scheduler's inputs (`SpecAssumption`, `InputAssumption`, `EffectLimitAssumption`), `keep >= 1`
(`KeepAssumption`; `_cleanup_recovery_generations_unlocked` refuses less), positive ttl
(`TTLAssumption`), a bound on instants (`TimeAssumption`), a manifest among a checkpoint's files
(`ManifestAssumption`), values that are no directory (`NothingAssumption`, `NowhereAssumption`), natural bounds on what
is counted (`FaultsAssumption`, `BoundsAssumption`, `MovesAssumption`), one effect of the fixture's
own (`OwnAssumption`), positive accumulation, max_steps and cadence (`ConfigAssumption`, which
`TrainerConfig` and `run` check) and a plan, of any length, whose batches each have a target
(`PlanAssumption`, which `_validated_plan_batches` checks).

| Module | Theorems | Argument |
|---|---|---|
| `AgentSchedulerProofs` | `TypeCorrect`, `SingleLease`, `Projection`, `EpochsFresh`, `NewestToken`, `ExactSave`, `FinalRows`, `Charges`, `Overrun` | None is inductive: whether the row to be committed is valid depends on the call and on the row it read. `TxInv` says what an open transaction knows at each next step (the row read is still the queue's, because no other scheduler transaction commits in between); `LeaseInv` that nothing is leased while an acquire is open. `StoreInv` bounds every row, and the row in flight, by TaskStore's epoch and revision; `EpochInv` puts every token ever granted below the row in flight (resume always increments the epoch, so a burned epoch is never reused); `SaveInv` says that the snapshot checked is still safe unless its revision moved, so the compare-and-swap is enough. `ChargeInv` counts what the open transaction is about to charge as booked: the booked steps lie between the steps charged and the steps durable, and a fault adds at most one budget to what is durable and not booked. |
| `FixtureRuntimeProofs` | `TypeCorrect`, `LifecycleRefinement`, `LateResult` | What a host does next depends on a snapshot it has held since an earlier step. `Claim` says of every call in progress that its snapshot is the row if the revisions agree, and what it has seen of the effect, the tool and the memory that no other host can undo; `TaskInv` relates the row, the tool and the memory; `OneDispatcher` says that only one host issued the effect. The refinement maps each host's write to one step of the lifecycle, or to none where the row changes in nothing the lifecycle sees. |
| `TrainingResumeProofs` | `TypeCorrect`, `CountsTell`, `OnePassRefinement`, `CheckpointsRestore` | `CountsAgree`: the trainer's count never exceeds the guard's, and where they are equal the trainer holds the claimed prefix, because a batch that was claimed and not trained leaves the trainer behind by its targets (at least one) and only a restore makes up for that. `SavedInv` and `RestoreInv` carry it through a checkpoint and the three steps of a restore, and keep the saved sequence at or below the live one outside a restore. So no sum over the plan is needed, and the sizes of its batches do not matter. `CheckpointsRestore` adds what the loaders check: none of them refuses what was published, wherever an earlier restore stopped. |
| `RecoveryProofs` | `Invariant`, `TypeCorrect`, `CurrentAlwaysResolves`, `RetainedStayRestorable`, `Refinement` | That the pointer may move rests on what each step of a publication has put on disk (`PublishInv`); that cleanup leaves the current generation alone rests on what it doomed (`CleanInv`); that it may delete objects rests on `RetainedRestorable`. The refinement maps the clone, the tearing and the pointer's rename to abstract steps and all others to stutters. |
| `GlobalLeaseProofs` | `Invariant`, `TypeCorrect`, `CommittedWasWritten`, `RejectedWasOvertaken`, `Refinement`, `RunLeaseRefinement` | `OnTheWay`: every commit being pushed or on the wire is lawful on the tip it names, so whatever lands, whenever, follows the rules; `Recorded`: a runner past its probe has its commit on record; `Authored`: nonces tell a runner's commits apart, so a rejected commit is not the tip later. `RunLeaseRefinement` reads the record as (the tip's run, whether it runs): appending to the chain is a step of `RunLease` or leaves the reading alone, and every step of a runner or of the remote appends or keeps the record. |
| `RecoveryLockProofs` | `Invariant`, `TypeCorrect`, `PathExclusion`, `RootExclusion` | `OneHolder`: flock gives a lock to one. `GuardHeld`, `RootHeld`: a call past its checks has the guard of its path's names and the lock of the root it remembers, whatever directory it opened the path guard in. So both exclusions rest on the outer and the inner lock; the path guard between them is not needed for either. |
| `CurrentRunProofs` | `Invariant`, `TypeCorrect`, `ActiveIsTrue`, `BindsHeldLeases`, `BindsForward`, `Refinement` | As in the lease, what lands was decided when its commit was made: `Drafted` says that it binds a lease that was held and is no older than any its ancestors bind, `Follows` that it may follow its parent. Both records only grow, so both stay true (`Keeps`). An inspection that found the lease moved on knows that it was overtaken, and an overtaken lease is never the tip again. |
| `CheckpointStoreProofs` | `Invariant`, `TypeCorrect`, `SavesSurvive`, `LoadsAreWhole` | `Prepared`: what is renamed to a name is flushed and listed already, and its directory is nobody else's. `KeptOK`: once the parent is flushed the name leads to it on disk and to nothing else, so a power failure brings it back as it was. `LoadsOK`: a load keeps to the directory it opened. |

TLC only: all liveness (`EveryTaskSettles`, `ReservedSettles`, `PublishingGoesOn`, `GarbageGoes`,
`EveryCallEnds`, `PlanCompletes`), because the prover does not reason about fairness and ENABLED.
Every invariant, action property and refinement of a run that passes is a theorem. What the three
runs with a counterexample show is not a matter for a proof. No module uses a RECURSIVE operator,
and no proof needs induction over data.

## 6. What is left out, and why

- Digests, canonical JSON, row encodings: read back what was written; corruption is refused on
  read. Receipts are the status they accompany.
- TaskStore's history table commits with the row. Memory corrections and retrieval ranking.
- The launch manifest of the lease and its authorities are one fixed valid manifest; the local
  exclusive-create guard (`acquire_training_run_lease`) and the idempotency keys.
- `Recovery` names the lock of its root as one lock; that the code's guards, inodes and lock files
  amount to one per root is `RecoveryLock`'s question, and the two are not composed in a run.
- `CurrentRun`: the verifiers of a run's identity, of a terminal outcome and of a candidate are pure
  checks of one document, and taken as passed.
- `TrainingResume`: losses, gradients, the random state, and the identity checks before a restore.
  The ledger's ordered guard only: the intervals of a plan that was preflighted are disjoint.
- `CheckpointStore`: tensors, schemas, manifests of content and `hf_export`; a checkpoint is a token.
- `complete` (`scheduler.py:340`) has no compare-and-swap after `_active`, but it writes nothing to
  TaskStore. No document promises that a lease lapses in real time on hosts whose clocks differ.
- `distributed_control.py` and the champion ledger are functions over chains and ledgers that the
  caller keeps; their hazards are noted in `PROJECT.json`.
- The other parts `PROJECT.json` marks `not_modelled` are pure functions of one call's input, batch
  jobs, or numerics.

## 7. Plan

Done, in this order: task store and scheduler, their first theorems; fixture runtime; recovery
store with refinement proof; global lease with refinement proof; the current run's pointer over the
lease, with a second refinement proof of the lease; the recovery lock; a training run with its
ledger and restores; checkpoint save and load against a directory that moves; then the theorems of
the recovery lock, the current run and the checkpoint store, the charges of the scheduler, and the
refinement proofs of the fixture runtime and of the training run.

1. Proofs: what the counterexamples leave open, as theorems with their conditions (a budget holds
   where no transaction was killed); what makes progress possible, as the safety part of the
   liveness properties (a state in which a call can go on).
2. `DistributedRun` (`T/distributed_control.py`, `distributed_transport.py`): steps, losses, resumes
   with other meshes, artifact publication by rename. Safety: an exposure counts once, a resume
   starts from a whole committed checkpoint. Hazards at `distributed_control.py:309` and
   `distributed_transport.py:226`.
3. `ChampionChain`: promotions and rollbacks under an external head (abstract: the stack of
   champions).
4. Memory corrections, the local lease guard, checkpoint selection and retention as operators
   checked against their definitions.
