---------------------------- MODULE FixtureRuntime ----------------------------
(***************************************************************************)
(* FixtureRuntime of twelve_six_agent_runtime/fixture_integration.py with  *)
(* the ToolRegistry of tools.py: hosts that carry one effect of one task   *)
(* through reservation, issue, dispatch, result and memory, over TaskStore *)
(* and MemoryStore (two databases) and a tool outside of both.             *)
(*                                                                         *)
(*   created, task   the row of the scenario's task                        *)
(*   own, others     memory records of the scenario, and of anyone else    *)
(*   host[h]         a call of run or reconcile_unknown in progress: its   *)
(*                   next step, the TaskSnapshot `seen` it holds, the      *)
(*                   control epoch of its ToolCall, and the memory         *)
(*                   revision it will present                              *)
(*   tool            dispatches the host tool has received                 *)
(*                                                                         *)
(* Each TaskStore or MemoryStore call is one step; hosts interleave and    *)
(* may die between any two.  stop_after is such a death.  Host callbacks   *)
(* (verify_host, verify_result) may refuse, which ends the call.  Fuel:    *)
(* faults counts deaths and refusals, external counts writes by others.    *)
(***************************************************************************)
EXTENDS TaskState

CONSTANTS Host,
          Own,   \* the effect_id of the scenario
          MaxFaults, MaxExternal

ASSUME OwnAssumption == Own \in Effect

VARIABLES created, task, own, others, host, tool, faults, external

vars == <<created, task, own, others, host, tool, faults, external>>

Snapshot == SnapshotOf({"plan5", "foreign"}, {"fixture-start", "fixture-reserved", "fixture-done"},
                       {"fixture", "fixture-done"})

Start == NewTask("plan5", "fixture-start")
Nobody == [pc |-> "idle", kind |-> "run", seen |-> Start, epoch |-> 0, expected |-> 0]

Pc == {"idle", "load", "create", "reserve", "prepare", "issue", "dispatch", "accept",
       "resolve", "verify", "history", "append", "finish"}

-----------------------------------------------------------------------------
\* Helpers.

Mapped(s) ==
    /\ s.plan = "plan5" /\ s.ckpt \in {"fixture", "fixture-done"}
    /\ Listed(s) = {Own}

\* What run does with a reserved snapshot: nothing for done or unknown (the
\* latter raises), _finish for resolved, a tool call for pending.  The faulty
\* form retries an unknown effect.
RetriesUnknown(s) ==
    IF s.step = "fixture-done" THEN "idle"
    ELSE IF s.eff[Own] = "resolved" THEN "history"
    ELSE IF s.eff[Own] = "unknown" THEN "dispatch" ELSE "prepare"
RunStep(s) ==
    IF s.step = "fixture-done" THEN "idle"
    ELSE CASE s.eff[Own] = "resolved" -> "history"
           [] s.eff[Own] = "unknown" -> "idle"
           [] s.eff[Own] = "pending" -> "prepare"

\* reconcile_unknown takes up an unknown effect only; the faulty one none.
NeverReconciles(s) == "idle"
ReconcileStep(s) == IF s.eff[Own] = "unknown" THEN "verify" ELSE "idle"

\* The end of _load_or_reserve: the identity check, then the caller goes on.
Loaded(kind, s) ==
    IF ~Mapped(s) THEN "idle" ELSE IF kind = "run" THEN RunStep(s) ELSE ReconcileStep(s)

Go(h, pc) == host' = [host EXCEPT ![h].pc = pc]
Hold(h, pc, s) == host' = [host EXCEPT ![h].pc = pc, ![h].seen = s]

\* The compare-and-swap of h's snapshot against the row.
Fresh(h) == Current(task, host[h].seen.epoch, host[h].seen.rev)

\* A TaskStore write by h, which then holds the result; a stale one raises.
Swap(h, pc, s) ==
    /\ Fresh(h)
    /\ task' = s
    /\ Hold(h, pc, s)
Stale(h) == ~Fresh(h) /\ Go(h, "idle") /\ UNCHANGED task

At(h, pc) == host[h].pc = pc

-----------------------------------------------------------------------------
Init ==
    /\ created = FALSE /\ task = Start
    /\ own = 0 /\ others = 0
    /\ host = [h \in Host |-> Nobody]
    /\ tool = 0 /\ faults = 0 /\ external = 0

-----------------------------------------------------------------------------
\* _load_or_reserve

Call(h, kind) ==
    /\ At(h, "idle")
    /\ host' = [host EXCEPT ![h] = [Nobody EXCEPT !.pc = "load", !.kind = kind]]
    /\ UNCHANGED <<created, task, own, others, tool, faults, external>>

\* A missing task is created; a snapshot of revision 0 has its lineage checked
\* and goes on to the model and the reservation.
Load(h) ==
    /\ At(h, "load")
    /\ \/ ~created /\ Go(h, "create")
       \/ /\ created /\ task.rev = 0
          /\ Hold(h, IF task = Start THEN "reserve" ELSE "idle", task)
       \/ created /\ task.rev # 0 /\ Hold(h, Loaded(host[h].kind, task), task)
    /\ UNCHANGED <<created, task, own, others, tool, faults, external>>

Create(h) ==
    /\ At(h, "create")
    /\ IF created THEN Go(h, "idle") /\ UNCHANGED <<created, task>>
       ELSE created' = TRUE /\ task' = Start /\ Hold(h, "reserve", Start)
    /\ UNCHANGED <<own, others, tool, faults, external>>

Reserve(h) ==
    /\ At(h, "reserve")
    /\ LET s == Checkpointed(task, "fixture-reserved", "fixture", {Own})
       IN  \/ MayCheckpoint(task, "fixture", {Own}) /\ Swap(h, Loaded(host[h].kind, s), s)
           \/ Stale(h)
    /\ UNCHANGED <<created, own, others, tool, faults, external>>

-----------------------------------------------------------------------------
\* The tool call.  prepare loads the task again and binds the call to its
\* control epoch; the effect is durably unknown before it is dispatched.

Prepare(h) ==
    /\ At(h, "prepare")
    /\ IF Fresh(h) /\ task.eff[Own] = "pending"
       THEN host' = [host EXCEPT ![h].pc = "issue", ![h].epoch = task.epoch]
       ELSE Go(h, "idle")
    /\ UNCHANGED <<created, task, own, others, tool, faults, external>>

Issue(h) ==
    /\ At(h, "issue")
    /\ \/ MayIssue(task, Own) /\ Swap(h, "dispatch", Issued(task, Own))
       \/ Stale(h)
    /\ UNCHANGED <<created, own, others, tool, faults, external>>

Dispatch(h) ==
    /\ At(h, "dispatch")
    /\ tool' = tool + 1
    /\ Go(h, "accept")
    /\ UNCHANGED <<created, task, own, others, faults, external>>

\* accept_result: a result is taken only in the control epoch of its call.
\* The faulty form looks at the status of the effect alone.
AnyEpoch(h) == task.eff[Own] = "unknown"
Acceptable(h) == task.epoch = host[h].epoch /\ task.eff[Own] = "unknown"

Accept(h) ==
    /\ At(h, "accept")
    /\ IF Acceptable(h) THEN Hold(h, "resolve", task) ELSE Go(h, "idle")
    /\ UNCHANGED <<created, task, own, others, tool, faults, external>>

\* resolve_effect, for accept_result or reconcile_unknown.
Resolve(h) ==
    /\ At(h, "resolve")
    /\ \/ /\ MayResolve(task, Own)
          /\ Swap(h, IF host[h].kind = "run" THEN "history" ELSE "idle", Resolved(task, Own))
       \/ Stale(h)
    /\ UNCHANGED <<created, own, others, tool, faults, external>>

\* The independent verifier of reconcile_unknown: it confirms the receipt of a
\* dispatch that took place.  The faulty one confirms whatever it is asked.
BlindVerifier == TRUE
Confirmed == tool > 0

VerifyReceipt(h) ==
    /\ At(h, "verify")
    /\ Go(h, IF Confirmed THEN "resolve" ELSE "idle")
    /\ UNCHANGED <<created, task, own, others, tool, faults, external>>

-----------------------------------------------------------------------------
\* _finish: the memory record, then the closing checkpoint.

\* A faulty _finish that does not look for the record of an earlier run.
NeverRemembered == FALSE
Remembered == own > 0

ReadHistory(h) ==
    /\ At(h, "history")
    /\ host' = [host EXCEPT ![h].pc = IF Remembered THEN "finish" ELSE "append",
                            ![h].expected = own + others]
    /\ UNCHANGED <<created, task, own, others, tool, faults, external>>

\* append: a stale revision or a duplicate memory_id raises.
Append(h) ==
    /\ At(h, "append")
    /\ IF host[h].expected = own + others /\ ~Remembered
       THEN own' = own + 1 /\ Go(h, "finish")
       ELSE Go(h, "idle") /\ UNCHANGED own
    /\ UNCHANGED <<created, task, others, tool, faults, external>>

Finish(h) ==
    /\ At(h, "finish")
    /\ \/ /\ host[h].seen.step # "fixture-done" /\ MayCheckpoint(task, "fixture-done", {})
          /\ Swap(h, "idle", Checkpointed(task, "fixture-done", "fixture-done", {}))
       \/ Stale(h)
    /\ UNCHANGED <<created, own, others, tool, faults, external>>

-----------------------------------------------------------------------------
\* A host dies or stops at an interruption point, or a callback refuses.
Stop(h) ==
    /\ ~At(h, "idle")
    /\ faults < MaxFaults /\ faults' = faults + 1
    /\ Go(h, "idle")
    /\ UNCHANGED <<created, task, own, others, tool, external>>

Outside == external < MaxExternal /\ external' = external + 1

\* Recovery code resumes the task: outstanding calls belong to an old epoch.
ExternalResume ==
    /\ created /\ Outside
    /\ task' = Resumed(task)
    /\ UNCHANGED <<created, own, others, host, tool, faults>>

ExternalCreate ==
    /\ ~created /\ Outside
    /\ created' = TRUE
    /\ \E plan \in {"plan5", "foreign"}, step \in {"fixture-start", "fixture-reserved"} :
          task' = NewTask(plan, step)
    /\ UNCHANGED <<own, others, host, tool, faults>>

ExternalMemory ==
    /\ Outside
    /\ others' = others + 1
    /\ UNCHANGED <<created, task, own, host, tool, faults>>

-----------------------------------------------------------------------------
Continue(h) ==
    \/ Load(h) \/ Create(h) \/ Reserve(h) \/ Prepare(h) \/ Issue(h) \/ Dispatch(h)
    \/ Accept(h) \/ Resolve(h) \/ VerifyReceipt(h)
    \/ ReadHistory(h) \/ Append(h) \/ Finish(h)

Next ==
    \/ \E h \in Host : Continue(h) \/ Stop(h)
    \/ \E h \in Host, kind \in {"run", "reconcile"} : Call(h, kind)
    \/ ExternalResume \/ ExternalCreate \/ ExternalMemory

Spec == Init /\ [][Next]_vars

(***************************************************************************)
(* A host that is running goes on, and an idle one is called again: hosts  *)
(* are restarted and retry.  Each kind of call is made again and again.    *)
(***************************************************************************)
FairSpec ==
    /\ Spec
    /\ \A h \in Host : WF_vars(Continue(h))
    /\ \A h \in Host, kind \in {"run", "reconcile"} : SF_vars(Call(h, kind))

-----------------------------------------------------------------------------
\* Properties.

TypeOK ==
    /\ created \in BOOLEAN /\ task \in Snapshot
    /\ own \in Nat /\ others \in Nat /\ tool \in Nat
    /\ host \in [Host -> [pc: Pc, kind: {"run", "reconcile"}, seen: Snapshot,
                          epoch: Nat, expected: Nat]]
    /\ faults \in Nat /\ external \in Nat

\* The refinement mapping: the phase of the effect as TaskStore has it.
Phase ==
    IF ~created \/ task.eff[Own] = "absent" THEN "unreserved"
    ELSE IF task.step = "fixture-done" THEN "done"
    ELSE CASE task.eff[Own] = "pending" -> "reserved"
           [] task.eff[Own] = "unknown" -> "issued"
           [] task.eff[Own] = "resolved" -> "resolved"

Lifecycle == INSTANCE EffectLifecycle WITH
    phase <- Phase, dispatches <- tool, memories <- own

\* However hosts interleave, die, retry and reconcile over the two databases,
\* the effect goes through the lifecycle the contract states: one dispatch,
\* after issue; a receipt only for a dispatch; one memory record, only of a
\* resolved effect; done only when remembered.
ImplementsLifecycle == Lifecycle!Spec

\* "stale epoch cannot accept old tool result": when a run resolves the effect,
\* no one has resumed the task since its call was prepared.
LateResultRefused ==
    [][\A h \in Host :
          /\ host[h].pc = "resolve" /\ host[h].kind = "run"
          /\ host'[h].pc = "history"
          => task'.epoch = host[h].epoch]_vars

\* The effect was issued by a host that died before the dispatch: nothing but
\* an operator can tell it from one that took place.
Lost ==
    /\ created /\ task.eff[Own] = "unknown" /\ tool = 0
    /\ \A h \in Host : host[h].pc # "dispatch"

\* A reserved effect is carried to the end by whatever hosts are left, with one
\* exception the contract makes on purpose: it is never retried once unknown.
ReservedSettles == Phase = "reserved" ~> Phase = "done" \/ Lost
=============================================================================
