------------------------------- MODULE OnePass --------------------------------
(***************************************************************************)
(* What a resumable training run promises, whatever interrupts it: the     *)
(* weights of its saved checkpoint have been trained on a prefix of the    *)
(* exposure plan, each batch once and in order, and that prefix only grows.*)
(***************************************************************************)
EXTENDS Naturals, Sequences

CONSTANT PlanLength     \* batches in the plan

VARIABLE saved          \* the batches in the saved weights, as they were applied

PlanPrefix(n) == [i \in 1..n |-> i]

Init == saved = <<>>

Advance == \E n \in Len(saved) + 1..PlanLength : saved' = PlanPrefix(n)

Spec == Init /\ [][Advance]_saved
===============================================================================
