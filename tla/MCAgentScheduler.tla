-------------------------- MODULE MCAgentScheduler --------------------------
(***************************************************************************)
(* Two tasks: 1 is foreground, 2 is background work with a higher priority *)
(* and the earlier deadline.  Calm offers admit both, 2 first; Busy ones,  *)
(* late and under pressure, admit only 1.                                  *)
(***************************************************************************)
EXTENDS AgentScheduler, TLC

MCTask == {1, 2}
MCPriority == (1 :> 1 @@ 2 :> 2)
MCDeadline == (1 :> 1 @@ 2 :> 0)
MCMaxSteps == (1 :> 2 @@ 2 :> 1)
MCCpu == (1 :> 1 @@ 2 :> 1)
MCMem == (1 :> 2 @@ 2 :> 1)
MCBackground == {2}
\* Nothing tells one checkpoint id from another.
MCSymmetry == Permutations(CheckpointId)

Calm == [tick |-> 0, cpu |-> 1, mem |-> 2, pressure |-> "low"]
Busy == [tick |-> 1, cpu |-> 1, mem |-> 2, pressure |-> "high"]
MCOffer == {Calm, Busy}
MCCalmOffer == {Calm}
=============================================================================
