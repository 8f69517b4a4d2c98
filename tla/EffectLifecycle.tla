--------------------------- MODULE EffectLifecycle ---------------------------
(***************************************************************************)
(* What docs/PLAN5_SECTION11_FIXTURE_INTEGRATION.md promises of one effect *)
(* of an agent task: it is reserved, issued, dispatched at most once,      *)
(* resolved only after it was dispatched, remembered once and only when it *)
(* is resolved, and done only when it is remembered.                       *)
(***************************************************************************)
EXTENDS Naturals

VARIABLES phase,       \* of the effect in the task store
          dispatches,  \* calls the host tool has received
          memories     \* memory records about the effect

lifecycle == <<phase, dispatches, memories>>

Init == phase = "unreserved" /\ dispatches = 0 /\ memories = 0

Reserve == phase = "unreserved" /\ phase' = "reserved" /\ UNCHANGED <<dispatches, memories>>

Issue == phase = "reserved" /\ phase' = "issued" /\ UNCHANGED <<dispatches, memories>>

Dispatch ==
    /\ phase = "issued" /\ dispatches = 0
    /\ dispatches' = 1
    /\ UNCHANGED <<phase, memories>>

Resolve ==
    /\ phase = "issued" /\ dispatches = 1
    /\ phase' = "resolved"
    /\ UNCHANGED <<dispatches, memories>>

Remember ==
    /\ phase = "resolved" /\ memories = 0
    /\ memories' = 1
    /\ UNCHANGED <<phase, dispatches>>

Finish ==
    /\ phase = "resolved" /\ memories = 1
    /\ phase' = "done"
    /\ UNCHANGED <<dispatches, memories>>

Next == Reserve \/ Issue \/ Dispatch \/ Resolve \/ Remember \/ Finish

Spec == Init /\ [][Next]_lifecycle
=============================================================================
