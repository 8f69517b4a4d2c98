---------------------------- MODULE TrainingResume ----------------------------
(***************************************************************************)
(* One training run over a preflighted exposure plan: Trainer              *)
(* (training/trainer.py), the ExposureReplayGuard in its ordered form      *)
(* (data/unique_loss_ledger_v2.py, data/deterministic_exposure_order.py,   *)
(* data/ordered_exposure_resume.py) and load_trainer_checkpoint            *)
(* (checkpoint/progress_trainer.py), under failures and restarts.          *)
(*                                                                         *)
(*   at       what the driver is doing                                     *)
(*   model    applied: the batches in the weights, as they were applied;   *)
(*            grads: the batches whose gradients are accumulated in .grad  *)
(*   trainer  micro_step, optimizer_step, tokens_seen, _pending_tokens,    *)
(*            failed (_failure_reason is set) and _update_incomplete       *)
(*   guard    claim_sequence and consumed_loss_positions                   *)
(*   saved    the published checkpoint with its exposure state; step 0     *)
(*            when there is none                                           *)
(*                                                                         *)
(* A batch is its place in the plan.  The preflight has shown the plan's   *)
(* claims to be disjoint and inside the ledger, and the guard takes only   *)
(* the batch at claim_sequence, so its claims are that prefix of the plan. *)
(* The driver is not part of the repository: it takes its batches from a   *)
(* generator that authorizes each one, binds and publishes in the          *)
(* checkpoint hook, and on an exception stops, calls run again, builds a   *)
(* new trainer around the model or starts the process again.               *)
(***************************************************************************)
EXTENDS Naturals, Sequences

CONSTANTS
    Targets,            \* actual_nonignored_targets of each batch of the plan
    Accumulation,       \* gradient_accumulation_steps
    MaxSteps,           \* max_steps
    Cadence,            \* checkpoint_every_steps
    MaxFaults           \* bound on what goes wrong

ASSUME ConfigAssumption ==
    /\ Accumulation \in Nat \ {0} /\ MaxSteps \in Nat \ {0} /\ Cadence \in Nat \ {0}
    /\ MaxFaults \in Nat
ASSUME PlanAssumption == Targets \in Seq(Nat \ {0})

VARIABLES at, model, trainer, guard, saved, faults

vars == <<at, model, trainer, guard, saved, faults>>

FreshModel == [applied |-> <<>>, grads |-> <<>>]
FreshTrainer ==
    [micro |-> 0, step |-> 0, tokens |-> 0, pending |-> 0, failed |-> FALSE, incomplete |-> FALSE]
FreshGuard == [sequence |-> 0, consumed |-> 0]

Init ==
    /\ at = "run"
    /\ model = FreshModel /\ trainer = FreshTrainer /\ guard = FreshGuard
    /\ saved = [model |-> FreshModel, trainer |-> FreshTrainer, guard |-> FreshGuard]
    /\ faults = 0

Fault == faults < MaxFaults /\ faults' = faults + 1

\* optimizer.zero_grad(set_to_none=True); a faulty one leaves .grad as it is.
Left(m) == m
ZeroGrad(m) == [m EXCEPT !.grads = <<>>]

\* assert_checkpoint_safe, which run begins and ends with.
CheckpointSafe ==
    /\ ~trainer.failed /\ ~trainer.incomplete
    /\ trainer.step <= MaxSteps
    /\ trainer.micro = trainer.step * Accumulation
    /\ trainer.pending = 0

\* Faulty: one step too many.
PastMaxSteps == trainer.step > MaxSteps
MaxStepsReached == trainer.step >= MaxSteps

-----------------------------------------------------------------------------
\* The loop of run takes the next batch, which the generator authorizes first
\* (authorize_ordered_batch), before it looks at max_steps.
Yield ==
    /\ at = "run"
    /\ guard.sequence < Len(Targets)
    /\ guard' = [sequence |-> guard.sequence + 1,
                 consumed |-> guard.consumed + Targets[guard.sequence + 1]]
    /\ at' = "claimed"
    /\ UNCHANGED <<model, trainer, saved, faults>>

\* run ends: at max_steps, or with an exception when the plan is used up.
Return ==
    /\ MaxStepsReached
    /\ at = "claimed" \/ (at = "run" /\ guard.sequence = Len(Targets))
    /\ CheckpointSafe
    /\ at' = "returned"
    /\ UNCHANGED <<model, trainer, guard, saved, faults>>

Exhaust ==
    /\ at = "run" /\ guard.sequence = Len(Targets) /\ ~MaxStepsReached
    /\ at' = "stopped"
    /\ UNCHANGED <<model, trainer, guard, saved, faults>>

\* train_microbatch(batch), up to the accumulation boundary.
Backward ==
    LET targets == Targets[guard.sequence]
    IN /\ at = "claimed" /\ ~MaxStepsReached
       /\ model' = [model EXCEPT !.grads = Append(@, guard.sequence)]
       /\ IF (trainer.micro + 1) % Accumulation = 0
          THEN /\ at' = "update"
               /\ trainer' = [trainer EXCEPT !.micro = @ + 1, !.tokens = @ + targets,
                                             !.pending = @ + targets, !.incomplete = TRUE]
          ELSE /\ at' = "run"
               /\ trainer' = [trainer EXCEPT !.micro = @ + 1, !.tokens = @ + targets,
                                             !.pending = @ + targets]
       /\ UNCHANGED <<guard, saved, faults>>

\* The batch is refused (_prepare_batch, no valid target), or the process is
\* interrupted after backward and before the counters: the trainer stays usable.
Refuse ==
    /\ at = "claimed" /\ ~MaxStepsReached /\ Fault
    /\ model' \in {model, [model EXCEPT !.grads = Append(@, guard.sequence)]}
    /\ at' = "stopped"
    /\ UNCHANGED <<trainer, guard, saved>>

\* _mark_failed: the loss is not finite, or backward raises.
Diverge ==
    /\ at = "claimed" /\ ~MaxStepsReached /\ Fault
    /\ trainer' = [trainer EXCEPT !.failed = TRUE]
    /\ model' = ZeroGrad(model)
    /\ at' = "stopped"
    /\ UNCHANGED <<guard, saved>>

\* The update at the boundary: the optimizer's step and then the scheduler's.
Stepped == [model EXCEPT !.applied = @ \o model.grads]
Update ==
    LET step == trainer.step + 1
    IN /\ at = "update"
       /\ model' = ZeroGrad(Stepped)
       /\ trainer' = [trainer EXCEPT !.step = step, !.pending = 0, !.incomplete = FALSE]
       /\ at' = IF step % Cadence = 0 \/ step = MaxSteps THEN "hook" ELSE "run"
       /\ UNCHANGED <<guard, saved, faults>>

\* It raises before or after the optimizer's step; or it is interrupted there,
\* which no except clause sees, and only _update_incomplete tells.
UpdateFails ==
    /\ at = "update" /\ Fault
    /\ \E moved \in BOOLEAN, counted \in BOOLEAN, seen \in BOOLEAN :
          LET m == IF moved THEN Stepped ELSE model
          IN /\ counted => moved
             /\ trainer' = [trainer EXCEPT !.step = IF counted THEN @ + 1 ELSE @, !.failed = seen]
             /\ model' = IF seen THEN ZeroGrad(m) ELSE m
    /\ at' = "stopped"
    /\ UNCHANGED <<guard, saved>>

\* The process is interrupted between two batches, or after the counters of the
\* group's last one and before or after _update_incomplete is set.
Interrupt ==
    /\ at \in {"run", "update"} /\ Fault
    /\ trainer' \in {trainer, [trainer EXCEPT !.incomplete = FALSE]}
    /\ at' = "stopped"
    /\ UNCHANGED <<model, guard, saved>>

-----------------------------------------------------------------------------
\* bind_checkpoint_state compares two counts and nothing else.
BindAny == TRUE
MayBind == trainer.tokens = guard.consumed

Checkpoint == saved' = [model |-> ZeroGrad(model), trainer |-> trainer, guard |-> guard]

\* on_checkpoint: the trainer's state_dict, the binding, the publication.
Hook ==
    /\ at = "hook"
    /\ IF CheckpointSafe /\ MayBind
       THEN Checkpoint /\ at' = "run"
       ELSE at' = "stopped" /\ UNCHANGED saved
    /\ UNCHANGED <<model, trainer, guard, faults>>

\* The publication raises, with the checkpoint published or not.
HookFails ==
    /\ at = "hook" /\ CheckpointSafe /\ MayBind /\ Fault
    /\ Checkpoint \/ UNCHANGED saved
    /\ at' = "stopped"
    /\ UNCHANGED <<model, trainer, guard>>

-----------------------------------------------------------------------------
\* run again with the same trainer; run refuses it unless CheckpointSafe.  This
\* driver does not do so at max_steps, where run would return without a hook.
CallAgain ==
    /\ at = "stopped" /\ CheckpointSafe
    /\ trainer.step < MaxSteps
    /\ at' = "run"
    /\ UNCHANGED <<model, trainer, guard, saved, faults>>

\* A new Trainer around the live model, beside the live guard.
Rebuild ==
    /\ at = "stopped" /\ saved.trainer.step > 0
    /\ trainer' = FreshTrainer /\ model' = ZeroGrad(model)
    /\ at' = "weights"
    /\ UNCHANGED <<guard, saved, faults>>

\* A new process: initial weights, and a restore if there is a checkpoint.
NewProcess ==
    /\ model' = FreshModel /\ trainer' = FreshTrainer /\ guard' = FreshGuard
    /\ at' = IF saved.trainer.step > 0 THEN "weights" ELSE "run"
    /\ UNCHANGED saved
Restart == at = "stopped" /\ NewProcess /\ UNCHANGED faults
Crash == at # "returned" /\ Fault /\ NewProcess

\* load_trainer_checkpoint: the weights, then the trainer's own loader.
ApplyWeights ==
    /\ at = "weights"
    /\ ~trainer.failed /\ ~trainer.incomplete
    /\ model' = [model EXCEPT !.applied = saved.model.applied]
    /\ at' = "counters"
    /\ UNCHANGED <<trainer, guard, saved, faults>>

LoadTrainer ==
    /\ at = "counters"
    /\ saved.trainer.micro = saved.trainer.step * Accumulation
    /\ trainer' = [saved.trainer EXCEPT !.pending = 0]
    /\ model' = ZeroGrad(model)
    /\ at' = "exposure"
    /\ UNCHANGED <<guard, saved, faults>>

\* load_ordered_resume_state; a faulty driver keeps the guard it has.
LiveGuard == guard
SavedGuard == saved.guard
LoadGuard ==
    /\ at = "exposure"
    /\ saved.trainer.tokens = saved.guard.consumed
    /\ guard' = SavedGuard
    /\ at' = "run"
    /\ UNCHANGED <<model, trainer, saved, faults>>

\* A step of the restore raises; the driver restores again.
RestoreFails ==
    /\ at \in {"counters", "exposure"} /\ Fault
    /\ at' = "weights"
    /\ UNCHANGED <<model, trainer, guard, saved>>

Next ==
    \/ Yield \/ Return \/ Exhaust
    \/ Backward \/ Refuse \/ Diverge \/ Update \/ UpdateFails \/ Interrupt
    \/ Hook \/ HookFails
    \/ CallAgain \/ Rebuild \/ Restart \/ Crash
    \/ ApplyWeights \/ LoadTrainer \/ LoadGuard \/ RestoreFails

Spec == Init /\ [][Next]_vars

\* The process runs, and a driver that keeps failing starts it again some day.
Works ==
    \/ Yield \/ Return \/ Exhaust \/ Backward \/ Update \/ Hook
    \/ ApplyWeights \/ LoadTrainer \/ LoadGuard
FairSpec == Spec /\ WF_vars(Works) /\ SF_vars(Restart)

-----------------------------------------------------------------------------
Phases ==
    {"run", "claimed", "update", "hook", "stopped", "returned", "weights", "counters", "exposure"}
Models == [applied : Seq(1..Len(Targets)), grads : Seq(1..Len(Targets))]
Trainers ==
    [micro : Nat, step : 0..MaxSteps, tokens : Nat, pending : Nat,
     failed : BOOLEAN, incomplete : BOOLEAN]
Guards == [sequence : 0..Len(Targets), consumed : Nat]

\* The counters stay in their ranges, the optimizer's steps within max_steps,
\* and a saved checkpoint is never of a failed or half-updated trainer.
TypeOK ==
    /\ at \in Phases
    /\ model \in Models /\ trainer \in Trainers /\ guard \in Guards
    /\ saved \in [model : Models, trainer : Trainers, guard : Guards]
    /\ ~saved.trainer.failed /\ ~saved.trainer.incomplete
    /\ faults \in 0..MaxFaults

OnePassPlan == INSTANCE OnePass WITH PlanLength <- Len(Targets), saved <- saved.model.applied

\* bind_checkpoint_state may go by a count: in a trainer that is not being
\* restored and has not failed, the guard's count equals the trainer's only if
\* the weights and the pending gradients hold the claimed batches, each once.
CountsTellBatches ==
    /\ at \in {"run", "hook", "stopped"}
    /\ ~trainer.failed /\ ~trainer.incomplete
    /\ MayBind
    => model.applied \o model.grads = OnePassPlan!PlanPrefix(guard.sequence)

\* No refused batch, failed update, interruption, crash or half-done restore
\* makes a published checkpoint miss a batch, hold one twice or fall behind.
ImplementsOnePass == OnePassPlan!Spec

\* Once faults cease the run returns, with its last step published, if the plan
\* has Accumulation * MaxSteps batches.
PlanCompletes == <>[](at = "returned" /\ saved.trainer.step = MaxSteps)
===============================================================================
