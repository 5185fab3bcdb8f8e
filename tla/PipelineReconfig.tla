-------------------------- MODULE PipelineReconfig --------------------------
(***************************************************************************)
(* The epoch-based reconfiguration of the layered pipeline                 *)
(* (core/pipeline_controller.py) together with the state it coordinates:   *)
(* the stage runtimes of the nodes, the layer ledger of the model manager, *)
(* the placement policy that binds new requests to an epoch, and the       *)
(* liveness flags of the node manager.                                     *)
(*                                                                         *)
(* apply_plan is one coroutine: prepare every stage, update the ledger,    *)
(* copy KV, activate every stage, switch the entry.  Each await of the     *)
(* StageRuntime and KVStore interfaces is a place where other coroutines   *)
(* (departures, revivals, a drain) run, so each is a step of its own.  The *)
(* order in which the loops walk the plan's nodes is the order of the      *)
(* caller's list, which is arbitrary.                                      *)
(*                                                                         *)
(* A plan is a function from nodes to half-open layer ranges; a node       *)
(* outside the plan is mapped to NoRange.  Epoch 0 stands for "none".      *)
(***************************************************************************)
EXTENDS Naturals

CONSTANTS
  Nodes,      \* identities of the nodes that may ever be registered
  NumLayers,  \* ModelSpec.num_layers
  MaxEpoch    \* bound: number of epochs that may be committed

ASSUME NumLayersAssumption == NumLayers \in Nat \ {0}
ASSUME MaxEpochAssumption == MaxEpoch \in Nat \ {0}

VARIABLES
  alive,      \* nodes that are registered with state.alive set
  runtimes,   \* keys of coordinator.runtimes
  assigned,   \* assigned[n][e]: layers runtime n has prepared for epoch e
  active,     \* active[n]: runtime n's _active_epoch
  current,    \* coordinator.current_plan
  policy,     \* plan and epoch of LayeredPipelinePlacement
  ledger,     \* layer ranges in ModelManager._placements
  call,       \* the apply_plan call in progress
  drain       \* the drain_old_epoch call in progress

vars == <<alive, runtimes, assigned, active, current, policy, ledger, call, drain>>

-----------------------------------------------------------------------------
(* Plans *)

Layers == 0..(NumLayers - 1)
Ranges == {r \in (0..NumLayers) \X (0..NumLayers) : r[1] < r[2]}
NoRange == <<0, 0>>
Epochs == 1..MaxEpoch

Plans == [Nodes -> Ranges \cup {NoRange}]
NoPlan == [n \in Nodes |-> NoRange]
Members(p) == {n \in Nodes : p[n] # NoRange}
LayersOf(r) == r[1]..(r[2] - 1)

\* ModelManager.validate_pipeline_coverage accepts exactly the plans that give
\* every layer to one node.
CoversModel(p) ==
  \A l \in Layers : \E n \in Nodes :
    /\ l \in LayersOf(p[n])
    /\ \A m \in Nodes : l \in LayersOf(p[m]) => m = n

CompletePlans == {p \in Plans : CoversModel(p)}

\* PipelineReconfigurationCoordinator._validate_plan
ValidPlan(p) == CoversModel(p) /\ Members(p) \subseteq alive

-----------------------------------------------------------------------------
Phases == {"idle", "prepare", "copy", "activate"}
Idle == [phase |-> "idle", epoch |-> 0, plan |-> NoPlan, done |-> {}]
NoDrain == [epoch |-> 0, todo |-> {}]
Unset == [epoch |-> 0, plan |-> NoPlan]

TypeOK ==
  /\ alive \subseteq Nodes
  /\ runtimes \subseteq Nodes
  /\ assigned \in [Nodes -> [Epochs -> Ranges \cup {NoRange}]]
  /\ active \in [Nodes -> 0..MaxEpoch]
  /\ current \in [epoch : 0..MaxEpoch, plan : Plans]
  /\ policy \in [epoch : 0..MaxEpoch, plan : Plans]
  /\ ledger \in Plans
  /\ call \in [phase : Phases, epoch : 0..MaxEpoch, plan : Plans, done : SUBSET Nodes]
  /\ drain \in [epoch : 0..MaxEpoch, todo : SUBSET Nodes]

Init ==
  /\ alive = Nodes
  /\ runtimes \in SUBSET Nodes
  /\ assigned = [n \in Nodes |-> [e \in Epochs |-> NoRange]]
  /\ active = [n \in Nodes |-> 0]
  /\ current = Unset
  /\ policy = Unset
  /\ ledger = NoPlan
  /\ call = Idle
  /\ drain = NoDrain

-----------------------------------------------------------------------------
(* apply_plan *)

\* Faulty variant: a later plan takes the number of the one in force.
nextEpochReused == IF current.epoch = 0 THEN 1 ELSE current.epoch

\* _next_epoch is only written together with current_plan: it is the epoch of
\* the plan in force, and a failed attempt does not consume its number.
nextEpoch == current.epoch + 1

StartApply(p) ==
  /\ call.phase = "idle"
  /\ nextEpoch <= MaxEpoch
  /\ ValidPlan(p)
  /\ call' = [phase |-> "prepare", epoch |-> nextEpoch, plan |-> p, done |-> {}]
  /\ UNCHANGED <<alive, runtimes, assigned, active, current, policy, ledger, drain>>

\* runtime.prepare_epoch of one member; it overwrites what the runtime may have
\* kept for this number from a failed attempt.
Prepare(n) ==
  /\ call.phase = "prepare"
  /\ n \in Members(call.plan) \ call.done
  /\ n \in runtimes
  /\ assigned' = [assigned EXCEPT ![n][call.epoch] = call.plan[n]]
  /\ call' = [call EXCEPT !.done = @ \cup {n}]
  /\ UNCHANGED <<alive, runtimes, active, current, policy, ledger, drain>>

\* ModelManager.apply_pipeline_plan: liveness is checked again, the ledger is
\* replaced as a whole.
UpdateLedger ==
  /\ call.phase = "prepare"
  /\ call.done = Members(call.plan)
  /\ Members(call.plan) \subseteq alive
  /\ ledger' = call.plan
  /\ call' = [call EXCEPT !.phase = "copy", !.done = {}]
  /\ UNCHANGED <<alive, runtimes, assigned, active, current, policy, drain>>

\* _copy_reusable_kv has returned; what it does to the catalog is not part of
\* this module.
CopyReusableKV ==
  /\ call.phase = "copy"
  /\ call' = [call EXCEPT !.phase = "activate"]
  /\ UNCHANGED <<alive, runtimes, assigned, active, current, policy, ledger, drain>>

\* runtime.activate_epoch refuses an epoch that it has not prepared.
Activate(n) ==
  /\ call.phase = "activate"
  /\ n \in Members(call.plan) \ call.done
  /\ assigned[n][call.epoch] # NoRange
  /\ active' = [active EXCEPT ![n] = call.epoch]
  /\ call' = [call EXCEPT !.done = @ \cup {n}]
  /\ UNCHANGED <<alive, runtimes, assigned, current, policy, ledger, drain>>

\* Faulty variant: the switch does not wait for the activations.
CommitEarly ==
  /\ call.phase = "activate"
  /\ current' = [epoch |-> call.epoch, plan |-> call.plan]
  /\ policy' = [epoch |-> call.epoch, plan |-> call.plan]
  /\ call' = Idle
  /\ UNCHANGED <<alive, runtimes, assigned, active, ledger, drain>>

\* Faulty variant: set_plan is called before current_plan is replaced.
CommitStalePolicy ==
  /\ call.phase = "activate"
  /\ call.done = Members(call.plan)
  /\ current' = [epoch |-> call.epoch, plan |-> call.plan]
  /\ policy' = current
  /\ call' = Idle
  /\ UNCHANGED <<alive, runtimes, assigned, active, ledger, drain>>

Commit ==
  /\ call.phase = "activate"
  /\ call.done = Members(call.plan)
  /\ current' = [epoch |-> call.epoch, plan |-> call.plan]
  /\ policy' = [epoch |-> call.epoch, plan |-> call.plan]
  /\ call' = Idle
  /\ UNCHANGED <<alive, runtimes, assigned, active, ledger, drain>>

\* An exception leaves apply_plan without undoing any step already taken.
Abandon ==
  /\ call' = Idle
  /\ UNCHANGED <<alive, runtimes, assigned, active, current, policy, ledger, drain>>

\* A member has no runtime.
PrepareRefused ==
  /\ call.phase = "prepare"
  /\ Members(call.plan) \ (call.done \cup runtimes) # {}
  /\ Abandon

\* A member has died since the plan was validated.
LedgerRefused ==
  /\ call.phase = "prepare"
  /\ call.done = Members(call.plan)
  /\ ~(Members(call.plan) \subseteq alive)
  /\ Abandon

\* A stage fails to load, a member lacks memory, the KV store raises, or the
\* bus is stopped and cancels the handler: whatever an await before the
\* activations may raise.
CallFails ==
  /\ call.phase \in {"prepare", "copy"}
  /\ Abandon

-----------------------------------------------------------------------------
(* drain_old_epoch *)

\* Faulty variant: the epoch in force is not refused.
StartDrainUnchecked(e) ==
  /\ drain = NoDrain
  /\ e \in 1..current.epoch
  /\ drain' = [epoch |-> e, todo |-> runtimes]
  /\ UNCHANGED <<alive, runtimes, assigned, active, current, policy, ledger, call>>

\* The entry passes an epoch that it has bound requests to.
StartDrain(e) ==
  /\ drain = NoDrain
  /\ e \in 1..current.epoch
  /\ e # current.epoch
  /\ drain' = [epoch |-> e, todo |-> runtimes]
  /\ UNCHANGED <<alive, runtimes, assigned, active, current, policy, ledger, call>>

\* Faulty variants of retire_epoch: it releases every epoch of the runtime; it
\* leaves the retired epoch active; it deactivates whatever epoch is active.
RetireEverything(n) ==
  /\ drain.epoch # 0
  /\ n \in drain.todo
  /\ assigned' = [assigned EXCEPT ![n] = [e \in Epochs |-> NoRange]]
  /\ active' = [active EXCEPT ![n] = IF @ = drain.epoch THEN 0 ELSE @]
  /\ drain' = [drain EXCEPT !.todo = @ \ {n}]
  /\ UNCHANGED <<alive, runtimes, current, policy, ledger, call>>

RetireKeepsActive(n) ==
  /\ drain.epoch # 0
  /\ n \in drain.todo
  /\ assigned' = [assigned EXCEPT ![n][drain.epoch] = NoRange]
  /\ drain' = [drain EXCEPT !.todo = @ \ {n}]
  /\ UNCHANGED <<alive, runtimes, active, current, policy, ledger, call>>

RetireDeactivates(n) ==
  /\ drain.epoch # 0
  /\ n \in drain.todo
  /\ assigned' = [assigned EXCEPT ![n][drain.epoch] = NoRange]
  /\ active' = [active EXCEPT ![n] = 0]
  /\ drain' = [drain EXCEPT !.todo = @ \ {n}]
  /\ UNCHANGED <<alive, runtimes, current, policy, ledger, call>>

\* runtime.retire_epoch of one runtime
Retire(n) ==
  /\ drain.epoch # 0
  /\ n \in drain.todo
  /\ assigned' = [assigned EXCEPT ![n][drain.epoch] = NoRange]
  /\ active' = [active EXCEPT ![n] = IF @ = drain.epoch THEN 0 ELSE @]
  /\ drain' = [drain EXCEPT !.todo = @ \ {n}]
  /\ UNCHANGED <<alive, runtimes, current, policy, ledger, call>>

EndDrain ==
  /\ drain.epoch # 0
  /\ drain.todo = {}
  /\ drain' = NoDrain
  /\ UNCHANGED <<alive, runtimes, assigned, active, current, policy, ledger, call>>

-----------------------------------------------------------------------------
(* The environment *)

\* NodeManager.unregister, also from the stale monitor
NodeLeaves(n) ==
  /\ n \in alive
  /\ alive' = alive \ {n}
  /\ UNCHANGED <<runtimes, assigned, active, current, policy, ledger, call, drain>>

\* NodeManager.register or a heartbeat of a known node
NodeReturns(n) ==
  /\ n \in Nodes \ alive
  /\ alive' = alive \cup {n}
  /\ UNCHANGED <<runtimes, assigned, active, current, policy, ledger, call, drain>>

\* A runtime added under a running drain changes the dictionary that its loop
\* iterates over: the loop raises and the remaining runtimes keep the epoch.
AttachRuntime(n) ==
  /\ n \in Nodes \ runtimes
  /\ runtimes' = runtimes \cup {n}
  /\ drain' = NoDrain
  /\ UNCHANGED <<alive, assigned, active, current, policy, ledger, call>>

-----------------------------------------------------------------------------
Next ==
  \/ \E p \in CompletePlans : StartApply(p)
  \/ \E n \in Nodes : Prepare(n)
  \/ UpdateLedger
  \/ CopyReusableKV
  \/ \E n \in Nodes : Activate(n)
  \/ Commit
  \/ PrepareRefused
  \/ LedgerRefused
  \/ CallFails
  \/ \E e \in Epochs : StartDrain(e)
  \/ \E n \in Nodes : Retire(n)
  \/ EndDrain
  \/ \E n \in Nodes : NodeLeaves(n)
  \/ \E n \in Nodes : NodeReturns(n)
  \/ \E n \in Nodes : AttachRuntime(n)

Spec == Init /\ [][Next]_vars

-----------------------------------------------------------------------------
(* Properties *)

\* Every stage of the plan that new requests are bound to is resident with
\* exactly the layers of the plan, and its runtime accepts the epoch; only while
\* the next plan is being activated may it already have moved on to that one.
ServingPlanReady ==
  \A n \in Members(policy.plan) :
    /\ assigned[n][policy.epoch] = policy.plan[n]
    /\ \/ active[n] = policy.epoch
       \/ call.phase = "activate" /\ n \in call.done /\ active[n] = call.epoch

\* activate_epoch never raises inside apply_plan: whatever drains and failed
\* attempts happened since, each member still holds what this call prepared.
\* A refusal there would leave the nodes split between two epochs.
ActivationNeverRefused ==
  call.phase \in {"copy", "activate"} =>
    \A n \in Members(call.plan) : assigned[n][call.epoch] = call.plan[n]

\* A runtime never names as active an epoch whose layers it has released.
ActiveStageHeld ==
  \A n \in Nodes : active[n] # 0 => assigned[n][active[n]] # NoRange

\* The inductive invariant behind the properties above.  The call in progress is
\* for the epoch after the one in force; what it has prepared and activated so
\* far is what its plan says; drains are for superseded epochs.
CallConsistent ==
  /\ call.phase = "idle" => call = Idle
  /\ call.phase # "idle" =>
       /\ call.epoch = current.epoch + 1
       /\ CoversModel(call.plan)
       /\ call.done \subseteq Members(call.plan)
  /\ call.phase = "prepare" =>
       \A n \in call.done : assigned[n][call.epoch] = call.plan[n]
  /\ call.phase = "copy" => call.done = {}
  /\ call.phase = "activate" => \A n \in call.done : active[n] = call.epoch

ServingConsistent ==
  /\ policy = current
  /\ policy.epoch = 0 => policy.plan = NoPlan
  /\ policy.epoch # 0 => CoversModel(policy.plan)
  /\ drain.epoch # 0 => drain.epoch < current.epoch

IInv ==
  /\ TypeOK
  /\ CallConsistent
  /\ ServingConsistent
  /\ ActivationNeverRefused
  /\ ServingPlanReady
  /\ ActiveStageHeld

\* Stage copies resident on the runtimes, for the abstract specification.
Held == {[node |-> x[1], epoch |-> x[2], layers |-> assigned[x[1]][x[2]]] :
           x \in {y \in Nodes \X Epochs : assigned[y[1]][y[2]] # NoRange}}

Abstract == INSTANCE BlueGreen WITH
  Complete <- CompletePlans, serving <- policy, held <- Held

\* The coordinator implements the blue-green switch that it is documented as.
ImplementsBlueGreen == Abstract!Spec
=============================================================================
