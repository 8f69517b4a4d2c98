------------------------------ MODULE TaskState ------------------------------
(***************************************************************************)
(* The durable task snapshot of twelve_six_agent_runtime/task_state.py and *)
(* the transitions TaskStore applies to it.  TaskStore runs each operation *)
(* in one BEGIN IMMEDIATE transaction with synchronous=FULL, so an         *)
(* operation is one atomic, durable change of one snapshot; modules that   *)
(* use this one keep the table of snapshots as a variable and apply the    *)
(* operators below to its rows.                                            *)
(*                                                                         *)
(* Identifiers are abstracted to strings, receipts to the status           *)
(* "resolved", which a receipt always accompanies.  The append-only        *)
(* history table commits with the row and is left out.                     *)
(***************************************************************************)
EXTENDS Integers, FiniteSets

CONSTANTS Effect,       \* identities of external effects
          EffectLimit   \* 128 in the code: effects a snapshot may list

ASSUME EffectLimitAssumption == EffectLimit \in Nat

\* "absent": the effect is not listed in pending_effects.
EffectStatus == {"absent", "pending", "unknown", "resolved"}

\* Snapshots over the plan, step and checkpoint ids a host uses.
SnapshotOf(plans, steps, ckpts) ==
    [plan: plans, step: steps, ckpt: ckpts \union {"initial"},
     rev: Nat, epoch: Nat, eff: [Effect -> EffectStatus]]

\* create: the row a new task starts with.
NewTask(plan, step) ==
    [plan |-> plan, step |-> step, ckpt |-> "initial", rev |-> 0, epoch |-> 0,
     eff |-> [e \in Effect |-> "absent"]]

\* A faulty _change that compares the epoch alone.
CurrentEpoch(s, epoch, rev) == s.epoch = epoch

\* _change: the compare-and-swap on both the control epoch and the revision.
Current(s, epoch, rev) == s.epoch = epoch /\ s.rev = rev

Listed(s) == {e \in Effect : s.eff[e] # "absent"}

\* checkpoint: what it accepts beyond the compare-and-swap.  Effects already
\* listed are carried over unchanged, `new` are the ones it adds.
MayCheckpoint(s, ckpt, new) ==
    /\ ckpt # s.ckpt
    /\ \A e \in new : s.eff[e] = "absent"
    /\ Cardinality(Listed(s) \union new) <= EffectLimit

Checkpointed(s, step, ckpt, new) ==
    [s EXCEPT !.rev = @ + 1, !.step = step, !.ckpt = ckpt,
              !.eff = [e \in Effect |-> IF e \in new THEN "pending" ELSE s.eff[e]]]

\* issue_effect: durably "unknown" before anything external is done.
\* The faulty form writes a status PendingEffect.validate does not know.
MayIssue(s, e) == s.eff[e] = "pending"
IssuedWrongStatus(s, e) == [s EXCEPT !.rev = @ + 1, !.eff[e] = "issued"]
Issued(s, e) == [s EXCEPT !.rev = @ + 1, !.eff[e] = "unknown"]

\* resolve_effect: only an issued effect accepts a receipt.
MayResolve(s, e) == s.eff[e] = "unknown"
Resolved(s, e) == [s EXCEPT !.rev = @ + 1, !.eff[e] = "resolved"]

\* A faulty resume that keeps the old control epoch.
ResumedSameEpoch(s) == [s EXCEPT !.rev = @ + 1]

\* resume: a new control epoch; step, checkpoint and effects are preserved.
\* It takes no expected epoch or revision.
Resumed(s) == [s EXCEPT !.rev = @ + 1, !.epoch = @ + 1]

\* SchedulerStore._safe: no effect is waiting to be issued or reconciled.
Safe(s) == \A e \in Effect : s.eff[e] \in {"absent", "resolved"}
=============================================================================
