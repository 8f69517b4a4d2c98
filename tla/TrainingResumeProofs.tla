------------------------ MODULE TrainingResumeProofs ------------------------
(***************************************************************************)
(* Theorems about TrainingResume, for every plan, accumulation, cadence,   *)
(* max_steps and number of faults.                                         *)
(*                                                                         *)
(* bind_checkpoint_state compares counts; the theorems say what the counts *)
(* tell of the batches.  That needs no sum over the plan.  CountsAgree     *)
(* says that trainer.tokens never exceeds guard.consumed, and that where   *)
(* the two are equal the trainer holds the claimed prefix: a batch claimed *)
(* and not trained leaves the trainer's count behind, for every batch has  *)
(* a target, and no later step but a restore makes up for it.  SavedInv    *)
(* and RestoreInv carry the same facts through the checkpoint.             *)
(***************************************************************************)
EXTENDS TrainingResume, SequenceTheorems, TLAPS

PlanPrefix(n) == OnePassPlan!PlanPrefix(n)

\* The batches in the weights and the pending gradients.
Held == model.applied \o model.grads

\* The counts never run ahead of the claims, and where they agree the trainer
\* holds the first n batches; `short` is the count of a batch just claimed.
CountsAgree(n, short) ==
    /\ trainer.tokens + short <= guard.consumed
    /\ trainer.tokens + short = guard.consumed => Held = PlanPrefix(n)

\* A published checkpoint is of a usable trainer that holds what is claimed.
SavedInv ==
    /\ ~saved.trainer.failed /\ ~saved.trainer.incomplete
    /\ saved.trainer.tokens = saved.guard.consumed
    /\ saved.model.applied = PlanPrefix(saved.guard.sequence)
    /\ saved.trainer.step = 0 => saved.guard.sequence = 0

\* What the driver may rely on between its steps.
TrainInv ==
    /\ at \in {"run", "claimed", "hook"} => ~trainer.failed /\ ~trainer.incomplete
    /\ at = "update" => ~trainer.failed /\ trainer.incomplete /\ trainer.step < MaxSteps
    /\ at = "hook" => trainer.step > 0 /\ model.grads = <<>>
    /\ at = "claimed" =>
          guard.sequence > 0 /\ CountsAgree(guard.sequence - 1, Targets[guard.sequence])
    /\ \/ at \in {"run", "update", "hook"}
       \/ at = "stopped" /\ ~trainer.failed /\ ~trainer.incomplete
       => CountsAgree(guard.sequence, 0)

\* What the steps of a restore have put in place so far.
RestoreInv ==
    /\ at \in {"counters", "exposure"} => model.applied = saved.model.applied
    /\ at = "exposure" =>
          /\ model.grads = <<>> /\ trainer.tokens = saved.trainer.tokens
          /\ ~trainer.failed /\ ~trainer.incomplete
    /\ at \notin {"weights", "counters", "exposure"} =>
          saved.guard.sequence <= guard.sequence

IInv == TypeOK /\ SavedInv /\ TrainInv /\ RestoreInv

-----------------------------------------------------------------------------
\* Operators.

LEMMA PlanPrefixProperties ==
    ASSUME NEW n \in Nat
    PROVE  PlanPrefix(n) \in Seq(Nat) /\ Len(PlanPrefix(n)) = n
<1>1. PlanPrefix(n) = [i \in 1..n |-> i]
    BY DEF PlanPrefix, OnePassPlan!PlanPrefix
<1>2. PlanPrefix(n) \in Seq(Nat)
  <2>1. \A i \in 1..n : i \in Nat
      OBVIOUS
  <2>2. [i \in 1..n |-> i] \in Seq(Nat)
      BY <2>1, IsASeq
  <2> QED BY <1>1, <2>2
<1>3. DOMAIN PlanPrefix(n) = 1..n /\ DOMAIN PlanPrefix(n) = 1..Len(PlanPrefix(n))
    BY <1>1, <1>2, LenProperties
<1> QED BY <1>2, <1>3, LenProperties

LEMMA PlanPrefixNone == PlanPrefix(0) = <<>>
BY PlanPrefixProperties, EmptySeq

\* One batch more.
LEMMA PlanPrefixNext ==
    ASSUME NEW n \in Nat
    PROVE  Append(PlanPrefix(n), n + 1) = PlanPrefix(n + 1)
<1>1. /\ PlanPrefix(n) \in Seq(Nat) /\ Len(PlanPrefix(n)) = n
      /\ PlanPrefix(n + 1) \in Seq(Nat) /\ Len(PlanPrefix(n + 1)) = n + 1
    BY PlanPrefixProperties
<1>2. /\ \A i \in 1..n : PlanPrefix(n)[i] = i
      /\ \A i \in 1..(n + 1) : PlanPrefix(n + 1)[i] = i
    BY DEF PlanPrefix, OnePassPlan!PlanPrefix
<1>3. /\ Append(PlanPrefix(n), n + 1) \in Seq(Nat)
      /\ Len(Append(PlanPrefix(n), n + 1)) = n + 1
      /\ \A i \in 1..n : Append(PlanPrefix(n), n + 1)[i] = PlanPrefix(n)[i]
      /\ Append(PlanPrefix(n), n + 1)[n + 1] = n + 1
    BY <1>1, AppendProperties
<1>4. \A i \in 1..(n + 1) : Append(PlanPrefix(n), n + 1)[i] = PlanPrefix(n + 1)[i]
  <2> SUFFICES ASSUME NEW i \in 1..(n + 1)
               PROVE  Append(PlanPrefix(n), n + 1)[i] = PlanPrefix(n + 1)[i]
      OBVIOUS
  <2>1. CASE i = n + 1
      BY <1>2, <1>3, <2>1
  <2>2. CASE i # n + 1
    <3>1. i \in 1..n
        BY <2>2
    <3> QED BY <1>2, <1>3, <3>1
  <2> QED BY <2>1, <2>2
<1> QED BY <1>1, <1>3, <1>4, SeqEqual

\* A batch appended to the pending ones is appended to what is held.
LEMMA AppendHeld ==
    ASSUME NEW S, NEW s \in Seq(S), NEW t \in Seq(S), NEW e \in S
    PROVE  s \o Append(t, e) = Append(s \o t, e)
OBVIOUS

-----------------------------------------------------------------------------
\* What the parts of the state are made of.
LEMMA Facts ==
    ASSUME IInv
    PROVE  /\ model \in Models /\ trainer \in Trainers /\ guard \in Guards
           /\ model.applied \in Seq(1..Len(Targets)) /\ model.grads \in Seq(1..Len(Targets))
           /\ Held \in Seq(1..Len(Targets))
           /\ trainer.tokens \in Nat /\ trainer.step \in 0..MaxSteps
           /\ guard.sequence \in 0..Len(Targets) /\ guard.consumed \in Nat
           /\ saved.model \in Models /\ saved.trainer \in Trainers /\ saved.guard \in Guards
           /\ saved.guard.sequence \in 0..Len(Targets)
           /\ Len(Targets) \in Nat /\ MaxSteps \in Nat \ {0}
           /\ \A i \in 1..Len(Targets) : Targets[i] \in Nat \ {0}
<1>1. model \in Models /\ trainer \in Trainers /\ guard \in Guards
    BY DEF IInv, TypeOK
<1>2. model.applied \in Seq(1..Len(Targets)) /\ model.grads \in Seq(1..Len(Targets))
    BY <1>1 DEF Models
<1>3. Held \in Seq(1..Len(Targets))
    BY <1>2, ConcatProperties DEF Held
<1>4. Len(Targets) \in Nat /\ \A i \in 1..Len(Targets) : Targets[i] \in Nat \ {0}
    BY PlanAssumption, LenProperties, ElementOfSeq
<1>5. saved \in [model : Models, trainer : Trainers, guard : Guards]
    BY DEF IInv, TypeOK
<1>6. saved.model \in Models /\ saved.trainer \in Trainers /\ saved.guard \in Guards
    BY <1>5
<1> QED
    BY <1>1, <1>2, <1>3, <1>4, <1>6, ConfigAssumption DEF Trainers, Guards

\* zero_grad: the weights stay, the gradients go.
LEMMA ZeroGradType ==
    ASSUME NEW m \in Models
    PROVE  ZeroGrad(m) \in Models /\ ZeroGrad(m).applied = m.applied /\ ZeroGrad(m).grads = <<>>
<1>1. <<>> \in Seq(1..Len(Targets))
    BY EmptySeq
<1> QED BY <1>1 DEF Models, ZeroGrad

\* backward: the batch's gradients join the pending ones.
LEMMA GradsType ==
    ASSUME NEW m \in Models, NEW n \in 1..Len(Targets)
    PROVE  LET r == [m EXCEPT !.grads = Append(@, n)]
           IN  r \in Models /\ r.applied = m.applied /\ r.grads = Append(m.grads, n)
<1>1. Append(m.grads, n) \in Seq(1..Len(Targets))
    BY AppendProperties DEF Models
<1> QED BY <1>1 DEF Models

\* optimizer.step: the pending gradients go into the weights.
LEMMA SteppedType ==
    ASSUME model \in Models
    PROVE  /\ Stepped \in Models /\ Stepped.applied = model.applied \o model.grads
           /\ Stepped.grads = model.grads
<1>1. model.applied \o model.grads \in Seq(1..Len(Targets))
    BY ConcatProperties DEF Models
<1> QED BY <1>1 DEF Models, Stepped

\* The records a new process starts with.
LEMMA FreshTypes ==
    /\ FreshModel \in Models /\ FreshTrainer \in Trainers /\ FreshGuard \in Guards
    /\ FreshModel.applied = PlanPrefix(0) /\ FreshModel.applied \o FreshModel.grads = PlanPrefix(0)
<1>1. <<>> \in Seq(1..Len(Targets)) /\ <<>> \o <<>> = <<>>
    BY EmptySeq
<1>2. MaxSteps \in Nat /\ Len(Targets) \in Nat
    BY ConfigAssumption, PlanAssumption, LenProperties
<1>3. FreshModel \in Models
    BY <1>1 DEF FreshModel, Models
<1>4. FreshTrainer \in Trainers /\ FreshGuard \in Guards
    BY <1>2 DEF FreshTrainer, FreshGuard, Trainers, Guards
<1> QED BY <1>1, <1>3, <1>4, PlanPrefixNone DEF FreshModel

LEMMA InitInv == Init => IInv
<1> SUFFICES ASSUME Init PROVE IInv
    OBVIOUS
<1>1. TypeOK
    BY FreshTypes, ConfigAssumption DEF Init, TypeOK, Phases, FreshTrainer
<1>2. SavedInv
    BY FreshTypes DEF Init, SavedInv, FreshTrainer, FreshGuard
<1>3. TrainInv
    BY FreshTypes DEF Init, TrainInv, CountsAgree, Held, FreshTrainer, FreshGuard
<1>4. RestoreInv
    BY DEF Init, RestoreInv, FreshGuard
<1> QED BY <1>1, <1>2, <1>3, <1>4 DEF IInv

\* A step that publishes nothing keeps the checkpoint as it was.
LEMMA SavedSame == ASSUME SavedInv, UNCHANGED saved PROVE SavedInv'
BY DEF SavedInv

-----------------------------------------------------------------------------
\* The loop of run.

LEMMA YieldInv == ASSUME IInv, Yield PROVE IInv'
<1> DEFINE n == guard.sequence + 1
<1>0. /\ at = "run" /\ at' = "claimed" /\ guard.sequence < Len(Targets)
      /\ guard' = [sequence |-> n, consumed |-> guard.consumed + Targets[n]]
      /\ UNCHANGED <<model, trainer, saved, faults>>
    BY DEF Yield
<1>1. /\ n \in 1..Len(Targets) /\ n - 1 = guard.sequence /\ n > 0
      /\ Targets[n] \in Nat \ {0}
  <2>1. guard.sequence \in Nat /\ Len(Targets) \in Nat
      BY Facts
  <2>2. n \in 1..Len(Targets) /\ n - 1 = guard.sequence /\ n > 0
      BY <1>0, <2>1
  <2> QED BY <2>2, Facts
<1>2. CountsAgree(guard.sequence, 0) /\ ~trainer.failed /\ ~trainer.incomplete
    BY <1>0 DEF IInv, TrainInv
<1> HIDE DEF n
<1>3. guard'.sequence = n /\ guard'.consumed = guard.consumed + Targets[n]
    BY <1>0
<1>4. TypeOK'
    BY <1>0, <1>1, Facts DEF IInv, TypeOK, Phases, Guards
<1>5. CountsAgree(guard.sequence - 1, Targets[guard.sequence])'
  <2>1. Held' = Held /\ trainer' = trainer
      BY <1>0 DEF Held
  <2>2. trainer.tokens \in Nat /\ guard.consumed \in Nat /\ Targets[n] \in Nat
      BY <1>1, Facts
  <2>3. /\ trainer.tokens <= guard.consumed
        /\ trainer.tokens = guard.consumed => Held = PlanPrefix(n - 1)
      BY <1>1, <1>2, <2>2 DEF CountsAgree
  <2>4. /\ trainer.tokens + Targets[n] <= guard.consumed + Targets[n]
        /\ trainer.tokens + Targets[n] = guard.consumed + Targets[n] =>
              trainer.tokens = guard.consumed
      BY <2>2, <2>3
  <2> QED BY <1>3, <2>1, <2>3, <2>4 DEF CountsAgree
<1>6. TrainInv'
    BY <1>0, <1>1, <1>2, <1>3, <1>5 DEF TrainInv
<1>7. RestoreInv'
    BY <1>0, <1>1, <1>3, Facts DEF IInv, RestoreInv
<1> QED BY <1>0, <1>4, <1>6, <1>7, SavedSame DEF IInv

LEMMA ReturnInv == ASSUME IInv, Return \/ Exhaust PROVE IInv'
<1>1. /\ at \in {"run", "claimed"} /\ at' \in {"returned", "stopped"}
      /\ at' = "stopped" => at = "run"
      /\ UNCHANGED <<model, trainer, guard, saved, faults>>
    BY DEF Return, Exhaust
<1>2. TypeOK'
    BY <1>1 DEF IInv, TypeOK, Phases
<1>3. TrainInv'
    BY <1>1 DEF IInv, TrainInv, CountsAgree, Held
<1>4. RestoreInv'
    BY <1>1 DEF IInv, RestoreInv
<1> QED BY <1>1, <1>2, <1>3, <1>4, SavedSame DEF IInv

\* The trainer counts the batch just claimed, and holds it.
LEMMA BackwardInv == ASSUME IInv, Backward PROVE IInv'
<1> DEFINE n == guard.sequence
           targets == Targets[n]
           boundary == (trainer.micro + 1) % Accumulation = 0
           incomplete == IF boundary THEN TRUE ELSE trainer.incomplete
           t == [micro |-> trainer.micro + 1, step |-> trainer.step,
                 tokens |-> trainer.tokens + targets, pending |-> trainer.pending + targets,
                 failed |-> trainer.failed, incomplete |-> incomplete]
<1>0. at = "claimed" /\ trainer.step < MaxSteps /\ UNCHANGED <<guard, saved, faults>>
    BY Facts DEF Backward, MaxStepsReached
<1>1. /\ n \in 1..Len(Targets) /\ targets \in Nat \ {0}
      /\ ~trainer.failed /\ ~trainer.incomplete
      /\ CountsAgree(n - 1, targets)
    BY <1>0, Facts DEF IInv, TrainInv
<1>2. /\ model' = [model EXCEPT !.grads = Append(@, n)]
      /\ at' = IF boundary THEN "update" ELSE "run"
    BY DEF Backward
<1>3. trainer' = t
  <2>1. CASE boundary
      BY <2>1, Facts DEF Backward, Trainers
  <2>2. CASE ~boundary
      BY <2>2, Facts DEF Backward, Trainers
  <2> QED BY <2>1, <2>2
<1>4. /\ trainer' \in Trainers /\ trainer'.tokens = trainer.tokens + targets
      /\ ~trainer'.failed /\ trainer'.step = trainer.step
      /\ trainer'.incomplete = incomplete
  <2>1. incomplete \in BOOLEAN
      BY Facts DEF Trainers
  <2>2. /\ trainer.micro + 1 \in Nat /\ trainer.step \in 0..MaxSteps
        /\ trainer.tokens + targets \in Nat /\ trainer.pending + targets \in Nat
        /\ trainer.failed \in BOOLEAN
    <3>1. trainer \in Trainers /\ targets \in Nat
        BY <1>1, Facts
    <3> HIDE DEF targets
    <3> QED BY <3>1 DEF Trainers
  <2> HIDE DEF incomplete, targets
  <2> QED BY <1>1, <1>3, <2>1, <2>2 DEF Trainers
<1>5. /\ model' \in Models /\ model'.applied = model.applied
      /\ model'.grads = Append(model.grads, n)
    BY <1>1, <1>2, GradsType, Facts
<1>6. Held' = Append(Held, n)
  <2>1. model.applied \o Append(model.grads, n) = Append(model.applied \o model.grads, n)
    <3>1. model.applied \in Seq(1..Len(Targets)) /\ model.grads \in Seq(1..Len(Targets))
        BY Facts
    <3>2. n \in 1..Len(Targets)
        BY <1>1
    <3> DEFINE S == 1..Len(Targets)
               s == model.applied
               g == model.grads
    <3>3. s \in Seq(S) /\ g \in Seq(S) /\ n \in S
        BY <3>1, <3>2
    <3> HIDE DEF n, S, s, g
    <3>4. s \o Append(g, n) = Append(s \o g, n)
        BY <3>3, AppendHeld
    <3> QED BY <3>4 DEF s, g
  <2> QED BY <1>5, <2>1 DEF Held
<1>7. Append(PlanPrefix(n - 1), n) = PlanPrefix(n)
  <2>1. n - 1 \in Nat /\ (n - 1) + 1 = n
      BY <1>1, Facts
  <2> QED BY <2>1, PlanPrefixNext
<1>8. CountsAgree(guard.sequence, 0)'
  <2>1. /\ trainer.tokens + targets <= guard.consumed
        /\ trainer.tokens + targets = guard.consumed => Held = PlanPrefix(n - 1)
      BY <1>1 DEF CountsAgree
  <2>2. trainer'.tokens + 0 = trainer.tokens + targets /\ guard' = guard
      BY <1>0, <1>1, <1>4, Facts
  <2> HIDE DEF targets
  <2> QED BY <1>6, <1>7, <2>1, <2>2 DEF CountsAgree
<1>9. at' \in {"update", "run"} /\ (at' = "update" => incomplete) /\ (at' = "run" => ~incomplete)
    BY <1>1, <1>2
<1> HIDE DEF n, t, incomplete, boundary, targets
<1>10. TypeOK'
    BY <1>0, <1>4, <1>5, <1>9 DEF IInv, TypeOK, Phases
<1>11. TrainInv'
    BY <1>0, <1>4, <1>8, <1>9 DEF TrainInv
<1>12. RestoreInv'
    BY <1>0, <1>9 DEF IInv, RestoreInv
<1> QED BY <1>0, <1>10, <1>11, <1>12, SavedSame DEF IInv

\* A batch that was claimed and not trained leaves the counts apart.
LEMMA RefuseInv == ASSUME IInv, Refuse PROVE IInv'
<1>0. /\ at = "claimed" /\ at' = "stopped" /\ faults' \in 0..MaxFaults
      /\ UNCHANGED <<trainer, guard, saved>>
    BY ConfigAssumption DEF Refuse, Fault, IInv, TypeOK
<1>1. /\ guard.sequence \in 1..Len(Targets) /\ Targets[guard.sequence] \in Nat \ {0}
      /\ trainer.tokens + Targets[guard.sequence] <= guard.consumed
    BY <1>0, Facts DEF IInv, TrainInv, CountsAgree
<1>2. model' \in Models
  <2>1. [model EXCEPT !.grads = Append(@, guard.sequence)] \in Models
      BY <1>1, GradsType, Facts
  <2> QED BY <2>1, Facts DEF Refuse
<1>3. TypeOK'
    BY <1>0, <1>2 DEF IInv, TypeOK, Phases
<1>4. trainer.tokens <= guard.consumed /\ trainer.tokens # guard.consumed
    BY <1>1, Facts
<1>5. CountsAgree(guard.sequence, 0)'
    BY <1>0, <1>4, Facts DEF CountsAgree
<1>6. TrainInv'
    BY <1>0, <1>5 DEF TrainInv
<1>7. RestoreInv'
    BY <1>0 DEF IInv, RestoreInv
<1> QED BY <1>0, <1>3, <1>6, <1>7, SavedSame DEF IInv

LEMMA DivergeInv == ASSUME IInv, Diverge PROVE IInv'
<1>0. /\ at = "claimed" /\ at' = "stopped" /\ faults' \in 0..MaxFaults
      /\ trainer' = [trainer EXCEPT !.failed = TRUE] /\ model' = ZeroGrad(model)
      /\ UNCHANGED <<guard, saved>>
    BY ConfigAssumption DEF Diverge, Fault, IInv, TypeOK
<1>1. trainer' \in Trainers /\ trainer'.failed
    BY <1>0, Facts DEF Trainers
<1>2. model' \in Models
    BY <1>0, ZeroGradType, Facts
<1>3. TypeOK'
    BY <1>0, <1>1, <1>2 DEF IInv, TypeOK, Phases
<1>4. TrainInv' /\ RestoreInv'
    BY <1>0, <1>1 DEF IInv, TrainInv, RestoreInv
<1> QED BY <1>0, <1>3, <1>4, SavedSame DEF IInv

\* The pending gradients move into the weights: the trainer holds the same.
LEMMA UpdateInv == ASSUME IInv, Update PROVE IInv'
<1> DEFINE step == trainer.step + 1
           t == [micro |-> trainer.micro, step |-> step, tokens |-> trainer.tokens,
                 pending |-> 0, failed |-> trainer.failed, incomplete |-> FALSE]
<1>0. /\ at = "update" /\ at' \in {"hook", "run"} /\ model' = ZeroGrad(Stepped)
      /\ UNCHANGED <<guard, saved, faults>>
    BY DEF Update
<1>1. /\ ~trainer.failed /\ trainer.step < MaxSteps /\ CountsAgree(guard.sequence, 0)
    BY <1>0 DEF IInv, TrainInv
<1>2. trainer' = t
    BY Facts DEF Update, Trainers
<1>3. step \in 0..MaxSteps /\ step > 0
    BY <1>1, Facts
<1>4. /\ trainer' \in Trainers /\ trainer'.tokens = trainer.tokens /\ trainer'.step = step
      /\ ~trainer'.failed /\ ~trainer'.incomplete
    BY <1>1, <1>2, <1>3, Facts DEF Trainers
<1> HIDE DEF t, step
<1>5. model' \in Models /\ model'.applied = Held /\ model'.grads = <<>>
    BY <1>0, SteppedType, ZeroGradType, Facts DEF Held
<1>6. Held' = Held
    BY <1>5, ConcatEmptySeq, Facts DEF Held
<1>7. TypeOK'
    BY <1>0, <1>4, <1>5 DEF IInv, TypeOK, Phases
<1>8. CountsAgree(guard.sequence, 0)'
    BY <1>0, <1>1, <1>4, <1>6 DEF CountsAgree
<1>9. TrainInv'
    BY <1>0, <1>3, <1>4, <1>5, <1>8 DEF TrainInv
<1>10. RestoreInv'
    BY <1>0 DEF IInv, RestoreInv
<1> QED BY <1>0, <1>7, <1>9, <1>10, SavedSame DEF IInv

\* An update that failed leaves _update_incomplete set, seen or not.
LEMMA UpdateFailsInv == ASSUME IInv, UpdateFails PROVE IInv'
<1>0. /\ at = "update" /\ at' = "stopped" /\ faults' \in 0..MaxFaults
      /\ UNCHANGED <<guard, saved>>
    BY ConfigAssumption DEF UpdateFails, Fault, IInv, TypeOK
<1>1. trainer.step < MaxSteps /\ trainer.incomplete
    BY <1>0 DEF IInv, TrainInv
<1>2. PICK moved \in BOOLEAN, counted \in BOOLEAN, seen \in BOOLEAN :
         LET m == IF moved THEN Stepped ELSE model
         IN /\ trainer' = [trainer EXCEPT !.step = IF counted THEN @ + 1 ELSE @, !.failed = seen]
            /\ model' = IF seen THEN ZeroGrad(m) ELSE m
    BY DEF UpdateFails
<1> DEFINE step == IF counted THEN trainer.step + 1 ELSE trainer.step
           t == [micro |-> trainer.micro, step |-> step, tokens |-> trainer.tokens,
                 pending |-> trainer.pending, failed |-> seen,
                 incomplete |-> trainer.incomplete]
<1>3. trainer' = t
    BY <1>2, Facts DEF Trainers
<1>4. step \in 0..MaxSteps
    BY <1>1, Facts
<1>5. trainer' \in Trainers /\ trainer'.incomplete
    BY <1>1, <1>3, <1>4, Facts DEF Trainers
<1> HIDE DEF t, step
<1>6. model' \in Models
    BY <1>2, SteppedType, ZeroGradType, Facts
<1>7. TypeOK'
    BY <1>0, <1>5, <1>6 DEF IInv, TypeOK, Phases
<1>8. TrainInv' /\ RestoreInv'
    BY <1>0, <1>5 DEF IInv, TrainInv, RestoreInv
<1> QED BY <1>0, <1>7, <1>8, SavedSame DEF IInv

LEMMA InterruptInv == ASSUME IInv, Interrupt PROVE IInv'
<1>0. /\ at \in {"run", "update"} /\ at' = "stopped" /\ faults' \in 0..MaxFaults
      /\ trainer' \in {trainer, [trainer EXCEPT !.incomplete = FALSE]}
      /\ UNCHANGED <<model, guard, saved>>
    BY ConfigAssumption DEF Interrupt, Fault, IInv, TypeOK
<1>1. trainer' \in Trainers /\ trainer'.tokens = trainer.tokens
    BY <1>0, Facts DEF Trainers
<1>2. TypeOK'
    BY <1>0, <1>1 DEF IInv, TypeOK, Phases
<1>3. CountsAgree(guard.sequence, 0)
    BY <1>0 DEF IInv, TrainInv
<1>4. CountsAgree(guard.sequence, 0)'
    BY <1>0, <1>1, <1>3 DEF CountsAgree, Held
<1>5. TrainInv' /\ RestoreInv'
    BY <1>0, <1>4 DEF IInv, TrainInv, RestoreInv
<1> QED BY <1>0, <1>2, <1>5, SavedSame DEF IInv

-----------------------------------------------------------------------------
\* The checkpoint hook.

\* What is published: counts that agree, so the weights hold what is claimed.
LEMMA CheckpointSaves ==
    ASSUME IInv, at = "hook", CheckpointSafe, MayBind, Checkpoint
    PROVE  /\ saved' \in [model : Models, trainer : Trainers, guard : Guards]
           /\ saved'.trainer = trainer /\ saved'.guard = guard
           /\ saved'.model.applied = PlanPrefix(guard.sequence)
           /\ trainer.step > 0 /\ ~trainer.failed /\ ~trainer.incomplete
           /\ saved.guard.sequence <= guard.sequence
<1>1. /\ trainer.step > 0 /\ ~trainer.failed /\ ~trainer.incomplete
      /\ model.grads = <<>> /\ CountsAgree(guard.sequence, 0)
    BY DEF IInv, TrainInv
<1>2. trainer.tokens + 0 = guard.consumed
    BY Facts DEF MayBind
<1>3. model.applied = PlanPrefix(guard.sequence)
  <2>1. Held = PlanPrefix(guard.sequence)
      BY <1>1, <1>2 DEF CountsAgree
  <2>2. Held = model.applied
      BY <1>1, ConcatEmptySeq, Facts DEF Held
  <2> QED BY <2>1, <2>2
<1>4. saved' = [model |-> ZeroGrad(model), trainer |-> trainer, guard |-> guard]
    BY DEF Checkpoint
<1>5. ZeroGrad(model) \in Models /\ ZeroGrad(model).applied = model.applied
    BY ZeroGradType, Facts
<1>6. saved.guard.sequence <= guard.sequence
    BY DEF IInv, RestoreInv
<1>7. saved' \in [model : Models, trainer : Trainers, guard : Guards]
    BY <1>4, <1>5, Facts
<1> QED BY <1>1, <1>3, <1>4, <1>5, <1>6, <1>7

\* A hook that publishes, whether its driver goes on or stops.
LEMMA PublishInv ==
    ASSUME IInv, at = "hook", CheckpointSafe, MayBind, Checkpoint,
           at' \in {"run", "stopped"}, faults' \in 0..MaxFaults,
           UNCHANGED <<model, trainer, guard>>
    PROVE  IInv'
<1>0. /\ saved' \in [model : Models, trainer : Trainers, guard : Guards]
      /\ saved'.trainer = trainer /\ saved'.guard = guard
      /\ saved'.model.applied = PlanPrefix(guard.sequence)
      /\ trainer.step > 0 /\ ~trainer.failed /\ ~trainer.incomplete
    BY CheckpointSaves
<1>1. TypeOK'
    BY <1>0, Facts DEF TypeOK, Phases
<1>2. SavedInv'
    BY <1>0, Facts DEF SavedInv, MayBind
<1>3. CountsAgree(guard.sequence, 0)'
    BY DEF IInv, TrainInv, CountsAgree, Held
<1>4. TrainInv'
    BY <1>0, <1>3 DEF TrainInv
<1>5. RestoreInv'
    BY <1>0, Facts DEF RestoreInv
<1> QED BY <1>1, <1>2, <1>4, <1>5 DEF IInv

\* A hook that publishes nothing.
LEMMA UnpublishedInv ==
    ASSUME IInv, at = "hook", at' = "stopped", faults' \in 0..MaxFaults,
           UNCHANGED <<model, trainer, guard, saved>>
    PROVE  IInv'
<1>1. TypeOK'
    BY DEF IInv, TypeOK, Phases
<1>2. CountsAgree(guard.sequence, 0)'
    BY DEF IInv, TrainInv, CountsAgree, Held
<1>3. TrainInv' /\ RestoreInv'
    BY <1>2 DEF IInv, TrainInv, RestoreInv
<1> QED BY <1>1, <1>3, SavedSame DEF IInv

LEMMA HookInv == ASSUME IInv, Hook PROVE IInv'
<1>0. at = "hook" /\ UNCHANGED <<model, trainer, guard, faults>> /\ faults' \in 0..MaxFaults
    BY DEF Hook, IInv, TypeOK
<1>1. CASE CheckpointSafe /\ MayBind
    BY <1>0, <1>1, PublishInv DEF Hook
<1>2. CASE ~(CheckpointSafe /\ MayBind)
    BY <1>0, <1>2, UnpublishedInv DEF Hook
<1> QED BY <1>1, <1>2

LEMMA HookFailsInv == ASSUME IInv, HookFails PROVE IInv'
<1>0. /\ at = "hook" /\ CheckpointSafe /\ MayBind /\ at' = "stopped"
      /\ faults' \in 0..MaxFaults /\ UNCHANGED <<model, trainer, guard>>
    BY ConfigAssumption DEF HookFails, Fault, IInv, TypeOK
<1>1. CASE Checkpoint
    BY <1>0, <1>1, PublishInv
<1>2. CASE UNCHANGED saved
    BY <1>0, <1>2, UnpublishedInv
<1> QED BY <1>1, <1>2 DEF HookFails

-----------------------------------------------------------------------------
\* Calling again, starting again and restoring.

LEMMA CallAgainInv == ASSUME IInv, CallAgain PROVE IInv'
<1>0. /\ at = "stopped" /\ at' = "run" /\ ~trainer.failed /\ ~trainer.incomplete
      /\ UNCHANGED <<model, trainer, guard, saved, faults>>
    BY DEF CallAgain, CheckpointSafe
<1>1. TypeOK'
    BY <1>0 DEF IInv, TypeOK, Phases
<1>2. CountsAgree(guard.sequence, 0)'
    BY <1>0 DEF IInv, TrainInv, CountsAgree, Held
<1>3. TrainInv' /\ RestoreInv'
    BY <1>0, <1>2 DEF IInv, TrainInv, RestoreInv
<1> QED BY <1>0, <1>1, <1>3, SavedSame DEF IInv

LEMMA RebuildInv == ASSUME IInv, Rebuild PROVE IInv'
<1>0. /\ at' = "weights" /\ trainer' = FreshTrainer /\ model' = ZeroGrad(model)
      /\ UNCHANGED <<guard, saved, faults>>
    BY DEF Rebuild
<1>1. TypeOK'
    BY <1>0, FreshTypes, ZeroGradType, Facts DEF IInv, TypeOK, Phases
<1>2. TrainInv' /\ RestoreInv'
    BY <1>0 DEF TrainInv, RestoreInv
<1> QED BY <1>0, <1>1, <1>2, SavedSame DEF IInv

\* A new process has trained nothing and claimed nothing.
LEMMA NewProcessInv == ASSUME IInv, NewProcess, faults' \in 0..MaxFaults PROVE IInv'
<1>0. /\ model' = FreshModel /\ trainer' = FreshTrainer /\ guard' = FreshGuard
      /\ at' = (IF saved.trainer.step > 0 THEN "weights" ELSE "run")
      /\ saved' = saved
    BY DEF NewProcess
<1>1. TypeOK'
    BY <1>0, FreshTypes DEF IInv, TypeOK, Phases
<1>2. ~(saved.trainer.step > 0) => saved.guard.sequence = 0
  <2>1. saved.trainer.step \in Nat
    <3>1. saved.trainer.step \in 0..MaxSteps
        BY Facts DEF Trainers
    <3> QED BY <3>1, ConfigAssumption
  <2>2. ~(saved.trainer.step > 0) => saved.trainer.step = 0
      BY <2>1
  <2> QED BY <2>2 DEF IInv, SavedInv
<1>3. CountsAgree(guard.sequence, 0)'
    BY <1>0, FreshTypes DEF CountsAgree, Held, FreshTrainer, FreshGuard
<1>4. TrainInv'
    BY <1>0, <1>3 DEF TrainInv, FreshTrainer
<1>5. RestoreInv'
    BY <1>0, <1>2 DEF RestoreInv, FreshGuard
<1> QED BY <1>0, <1>1, <1>4, <1>5, SavedSame DEF IInv

LEMMA RestartInv == ASSUME IInv, Restart \/ Crash PROVE IInv'
<1>1. NewProcess /\ faults' \in 0..MaxFaults
    BY ConfigAssumption DEF Restart, Crash, Fault, IInv, TypeOK
<1> QED BY <1>1, NewProcessInv

LEMMA ApplyWeightsInv == ASSUME IInv, ApplyWeights PROVE IInv'
<1>0. /\ at' = "counters" /\ model' = [model EXCEPT !.applied = saved.model.applied]
      /\ UNCHANGED <<trainer, guard, saved, faults>>
    BY DEF ApplyWeights
<1>1. model' \in Models /\ model'.applied = saved.model.applied
    BY <1>0, Facts DEF Models
<1>2. TypeOK'
    BY <1>0, <1>1 DEF IInv, TypeOK, Phases
<1>3. TrainInv' /\ RestoreInv'
    BY <1>0, <1>1 DEF TrainInv, RestoreInv
<1> QED BY <1>0, <1>2, <1>3, SavedSame DEF IInv

LEMMA LoadTrainerInv == ASSUME IInv, LoadTrainer PROVE IInv'
<1>0. /\ at = "counters" /\ at' = "exposure" /\ model' = ZeroGrad(model)
      /\ trainer' = [saved.trainer EXCEPT !.pending = 0]
      /\ UNCHANGED <<guard, saved, faults>>
    BY DEF LoadTrainer
<1>1. /\ trainer' \in Trainers /\ trainer'.tokens = saved.trainer.tokens
      /\ trainer'.failed = saved.trainer.failed
      /\ trainer'.incomplete = saved.trainer.incomplete
    BY <1>0, Facts DEF Trainers
<1>2. model' \in Models /\ model'.applied = model.applied /\ model'.grads = <<>>
    BY <1>0, ZeroGradType, Facts
<1>3. TypeOK'
    BY <1>0, <1>1, <1>2 DEF IInv, TypeOK, Phases
<1>4. ~trainer'.failed /\ ~trainer'.incomplete
    BY <1>1 DEF IInv, SavedInv
<1>5. TrainInv' /\ RestoreInv'
    BY <1>0, <1>1, <1>2, <1>4 DEF IInv, TrainInv, RestoreInv
<1> QED BY <1>0, <1>3, <1>5, SavedSame DEF IInv

\* The restore is whole: weights, counters and claims are the checkpoint's.
LEMMA LoadGuardInv == ASSUME IInv, LoadGuard PROVE IInv'
<1>0. /\ at = "exposure" /\ at' = "run" /\ guard' = saved.guard
      /\ UNCHANGED <<model, trainer, saved, faults>>
    BY DEF LoadGuard, SavedGuard
<1>1. /\ model.applied = saved.model.applied /\ model.grads = <<>>
      /\ trainer.tokens = saved.trainer.tokens /\ ~trainer.failed /\ ~trainer.incomplete
    BY <1>0 DEF IInv, RestoreInv
<1>2. /\ saved.trainer.tokens = saved.guard.consumed
      /\ saved.model.applied = PlanPrefix(saved.guard.sequence)
    BY DEF IInv, SavedInv
<1>3. Held = PlanPrefix(saved.guard.sequence)
    BY <1>1, <1>2, ConcatEmptySeq, Facts DEF Held
<1>4. TypeOK'
    BY <1>0, Facts DEF IInv, TypeOK, Phases
<1>5. CountsAgree(guard.sequence, 0)'
    BY <1>0, <1>1, <1>2, <1>3, Facts DEF CountsAgree, Held
<1>6. TrainInv'
    BY <1>0, <1>1, <1>5 DEF TrainInv
<1>7. RestoreInv'
    BY <1>0, Facts DEF RestoreInv
<1> QED BY <1>0, <1>4, <1>6, <1>7, SavedSame DEF IInv

LEMMA RestoreFailsInv == ASSUME IInv, RestoreFails PROVE IInv'
<1>0. at' = "weights" /\ faults' \in 0..MaxFaults /\ UNCHANGED <<model, trainer, guard, saved>>
    BY ConfigAssumption DEF RestoreFails, Fault, IInv, TypeOK
<1>1. TypeOK'
    BY <1>0 DEF IInv, TypeOK, Phases
<1>2. TrainInv' /\ RestoreInv'
    BY <1>0 DEF TrainInv, RestoreInv
<1> QED BY <1>0, <1>1, <1>2, SavedSame DEF IInv

-----------------------------------------------------------------------------
\* The invariant of every behaviour.

LEMMA StepInv == ASSUME IInv, [Next]_vars PROVE IInv'
<1>1. CASE UNCHANGED vars
    BY <1>1 DEF vars, IInv, TypeOK, SavedInv, TrainInv, RestoreInv, CountsAgree, Held
<1>2. CASE Next
    BY <1>2, YieldInv, ReturnInv, BackwardInv, RefuseInv, DivergeInv, UpdateInv,
       UpdateFailsInv, InterruptInv, HookInv, HookFailsInv, CallAgainInv, RebuildInv,
       RestartInv, ApplyWeightsInv, LoadTrainerInv, LoadGuardInv, RestoreFailsInv DEF Next
<1> QED BY <1>1, <1>2

LEMMA Invariant == Spec => []IInv
<1>1. IInv /\ [Next]_vars => IInv'
    BY StepInv
<1> QED BY InitInv, <1>1, PTL DEF Spec

\* Every part of the training state keeps its type, the optimizer's steps stay
\* within max_steps whatever fails, is interrupted or is restored (Trainer.run,
\* _apply_update), and what _checkpoint publishes is never of a failed or a
\* half-updated trainer (assert_checkpoint_safe).
THEOREM TypeCorrect == Spec => []TypeOK
<1>1. IInv => TypeOK
    BY DEF IInv
<1> QED BY Invariant, <1>1, PTL

\* Whatever plan, accumulation and cadence, bind_checkpoint_state may go by the
\* two counts: in a trainer that is usable and not being restored they agree
\* only if the weights and the pending gradients hold the claimed batches, each
\* once and in order.
THEOREM CountsTell == Spec => []CountsTellBatches
<1>1. IInv => CountsTellBatches
  <2> SUFFICES ASSUME IInv, at \in {"run", "hook", "stopped"},
                      ~trainer.failed, ~trainer.incomplete, MayBind
               PROVE  Held = PlanPrefix(guard.sequence)
      BY DEF CountsTellBatches, Held, PlanPrefix
  <2>1. CountsAgree(guard.sequence, 0)
      BY DEF IInv, TrainInv
  <2>2. trainer.tokens + 0 = guard.consumed
      BY Facts DEF MayBind
  <2> QED BY <2>1, <2>2 DEF CountsAgree
<1> QED BY Invariant, <1>1, PTL

-----------------------------------------------------------------------------
\* The refinement of OnePass.

\* A publication advances the saved prefix or publishes the same one again.
LEMMA PublishAdvances ==
    ASSUME IInv, at = "hook", CheckpointSafe, MayBind, Checkpoint
    PROVE  [OnePassPlan!Advance]_(saved.model.applied)
<1> DEFINE n == guard.sequence
           k == saved.guard.sequence
<1>1. saved'.model.applied = PlanPrefix(n) /\ k <= n
    BY CheckpointSaves
<1>2. saved.model.applied = PlanPrefix(k)
    BY DEF IInv, SavedInv
<1>3. n \in 0..Len(Targets) /\ k \in Nat /\ Len(Targets) \in Nat
  <2>1. n \in 0..Len(Targets) /\ k \in 0..Len(Targets) /\ Len(Targets) \in Nat
      BY Facts
  <2> HIDE DEF n, k
  <2> QED BY <2>1
<1>4. Len(saved.model.applied) = k
    BY <1>2, <1>3, PlanPrefixProperties
<1> HIDE DEF n, k
<1>5. CASE k = n
    BY <1>1, <1>2, <1>5
<1>6. CASE k # n
  <2>1. n \in Len(saved.model.applied) + 1..Len(Targets)
      BY <1>1, <1>3, <1>4, <1>6
  <2>2. OnePassPlan!Advance
      BY <1>1, <2>1 DEF OnePassPlan!Advance, PlanPrefix
  <2> QED BY <2>2
<1> QED BY <1>5, <1>6

\* Only the hook publishes, and only what it has checked.
LEMMA Publishes ==
    ASSUME [Next]_vars, saved' # saved
    PROVE  at = "hook" /\ CheckpointSafe /\ MayBind /\ Checkpoint
<1>1. Hook \/ HookFails
    BY DEF Next, vars, Yield, Return, Exhaust, Backward, Refuse, Diverge, Update,
       UpdateFails, Interrupt, CallAgain, Rebuild, Restart, Crash, NewProcess,
       ApplyWeights, LoadTrainer, LoadGuard, RestoreFails
<1> QED BY <1>1 DEF Hook, HookFails

LEMMA StepAdvances ==
    ASSUME IInv, [Next]_vars
    PROVE  [OnePassPlan!Advance]_(saved.model.applied)
BY Publishes, PublishAdvances

\* Every behaviour of the trainer, the guard and their driver is one of
\* OnePass: no refused batch, failed update, interruption, crash or half-done
\* restore makes the checkpoint that on_checkpoint published miss a batch, hold
\* one twice or fall behind, for every plan and every number of faults.
THEOREM OnePassRefinement == Spec => ImplementsOnePass
<1>1. Init => OnePassPlan!Init
    BY DEF Init, OnePassPlan!Init, FreshModel
<1>2. IInv /\ [Next]_vars => [OnePassPlan!Advance]_(saved.model.applied)
    BY StepAdvances
<1> QED BY Invariant, <1>1, <1>2, PTL DEF Spec, ImplementsOnePass, OnePassPlan!Spec

-----------------------------------------------------------------------------
\* What a restore asks for.

\* load_trainer_checkpoint, Trainer.load_state_dict and load_ordered_resume_state
\* find what they check before they change anything.
Restorable ==
    /\ saved.trainer.micro = saved.trainer.step * Accumulation
    /\ saved.trainer.tokens = saved.guard.consumed
    /\ at \in {"weights", "counters"} => ~trainer.failed /\ ~trainer.incomplete

LEMMA StepRestorable ==
    ASSUME IInv, Restorable, [Next]_vars
    PROVE  Restorable'
<1>1. saved'.trainer.tokens = saved'.guard.consumed
    BY StepInv DEF IInv, SavedInv
<1>2. saved'.trainer.micro = saved'.trainer.step * Accumulation
  <2>1. CASE UNCHANGED saved
      BY <2>1 DEF Restorable
  <2>2. CASE saved' # saved
    <3>1. at = "hook" /\ CheckpointSafe /\ MayBind /\ Checkpoint
        BY <2>2, Publishes
    <3>2. saved'.trainer = trainer
        BY <3>1, CheckpointSaves
    <3> QED BY <3>1, <3>2 DEF CheckpointSafe
  <2> QED BY <2>1, <2>2
<1>3. at' \in {"weights", "counters"} => ~trainer'.failed /\ ~trainer'.incomplete
  <2>1. CASE UNCHANGED vars
      BY <2>1 DEF Restorable, vars
  <2>2. CASE Rebuild \/ Restart \/ Crash
      BY <2>2 DEF Rebuild, Restart, Crash, NewProcess, FreshTrainer
  <2>3. CASE ApplyWeights
      BY <2>3 DEF ApplyWeights
  <2>4. CASE RestoreFails
      BY <2>4 DEF RestoreFails, Restorable, IInv, RestoreInv
  <2>5. CASE Yield \/ Return \/ Exhaust \/ Backward \/ Refuse \/ Diverge \/ Update
      BY <2>5 DEF Yield, Return, Exhaust, Backward, Refuse, Diverge, Update
  <2>6. CASE UpdateFails \/ Interrupt \/ Hook \/ HookFails \/ CallAgain
      BY <2>6 DEF UpdateFails, Interrupt, Hook, HookFails, CallAgain
  <2>7. CASE LoadTrainer \/ LoadGuard
      BY <2>7 DEF LoadTrainer, LoadGuard
  <2> QED BY <2>1, <2>2, <2>3, <2>4, <2>5, <2>6, <2>7 DEF Next
<1> QED BY <1>1, <1>2, <1>3 DEF Restorable

\* No check refuses a restore of what on_checkpoint published, wherever an
\* earlier restore stopped: counts and boundary were checked when it was saved,
\* and a half-done restore leaves a trainer that is not failed.
THEOREM CheckpointsRestore == Spec => []Restorable
<1>1. Init => Restorable
  <2> SUFFICES ASSUME Init PROVE Restorable
      OBVIOUS
  <2>1. 0 = 0 * Accumulation
      BY ConfigAssumption
  <2> QED BY <2>1 DEF Init, Restorable, FreshTrainer, FreshGuard
<1>2. IInv /\ Restorable /\ [Next]_vars => Restorable'
    BY StepRestorable
<1> QED BY Invariant, <1>1, <1>2, PTL DEF Spec
===============================================================================
