# Formal model of the elastic edge-LLM pipeline

This directory holds a TLA+ development of `edge_llm_scheduler`: models of the
parts whose correctness depends on interleaving, failure and ordering, the TLC
configurations that check them on small instances, and TLAPS proofs for every
value of the constants.

```
tlc -workers 2 -config ReconfigSafety.cfg MCPipelineReconfig     # a run
tlapm PipelineReconfigProofs.tla                                 # a proof module
```

`PROJECT.json` is the index: components, runs, the source lines behind every
definition (`map`), the hazards and the properties that cover them, findings,
theorems, and one faulty variant of the code (`mutants`) per property that TLC
must catch.

## 1. The system

A model of `num_layers` transformer layers is spread over edge nodes that come
and go. Everything on the entry runs in asyncio: within one process only an
`await` lets another coroutine run, so the interleavings that matter are those at
awaits. The stage agents and their controller use threads and sockets.

| Component | State it keeps | Operations | Modelled in |
|---|---|---|---|
| Reconfiguration coordinator (`core/pipeline_controller.py`, `core/stage_runtime.py`) | `runtimes`, `current_plan`, `_next_epoch` | `attach_runtime`, `apply_plan`, `drain_old_epoch`, `reconfigure_for_topology` | PipelineReconfig, KVMigration (the copy) |
| Stage runtimes (`backends/*_layered_engine.py`) | `_assignments` per epoch, `_active_epoch`, KV caches | `prepare_epoch`, `activate_epoch`, `retire_epoch`, `generate`, `prefill`, `decode` | PipelineReconfig, PipelineServing, RealPipeline |
| Placement policies (`policies/placement.py`) | plan and epoch that new requests get | `set_plan`, `place` | PipelineServing (layered), Routing (the others) |
| Task scheduler, request flow (`core/task_scheduler.py`, `core/request_flow.py`) | tasks per request, pending ids, results | `handle_request`, `_run_pipeline`, `_run_task`, `_deliver_activation`, `_on_node_joined`, `_on_node_left` | PipelineServing, RequestFlow, KVMigration, ElasticPipeline |
| Recovery policies (`policies/recovery.py`) | none (the retry count travels in the task) | `recover` | PipelineServing, KVMigration |
| Node manager (`core/node_manager.py`) | nodes, liveness, last heartbeat | `register`, `unregister`, `update_heartbeat`, stale monitor | ElasticPipeline, KVMigration, ModelLedger, RequestFlow |
| Event bus (`core/event_bus.py`) | queue, subscribers | `publish`, `run`, `_dispatch` | ElasticPipeline, KVMigration |
| Model manager (`core/model_manager.py`) | layer ledger, placements, reserved bytes | `apply_pipeline_plan`, `validate_pipeline_coverage`, `load_placement`, `unload` | PipelineReconfig (the plan), ModelLedger (the memory) |
| Reparallelization (`policies/reparallelization.py`) | none | `reconfigure` | ModelLedger, ElasticPipeline |
| KV store and catalog (`core/storage.py`, `backends/*_storage.py`) | locations per block | `save`, `load`, `move`, `evict`, `list`, `lookup` | KVMigration, RequestFlow (the lookup) |
| Migration policies (`policies/migration.py`) | none | `plan_migration` | KVMigration |
| Transport (`core/transport.py`, `backends/*_transport.py`) | connections, one store per receiver | `push`, `pull`, `_get_writer`, the receiver's handler | RequestFlow |
| Stage agent and client (`agents/stage_agent.py`, `experiments/run_real_pipeline.py`) | engine behind a socket, connection per thread, epoch, caches | hello, prepare, activate, prefill, decode, retire, shutdown; `AgentClient.call`, `apply_plan`, `split_layers`, `run_request`, `run_concurrent` | RealPipeline |
| vLLM gateway (`gateway/vllm_gateway.py`) | `PipelineState`, text sent per stream | proxy, wait, probe, replay, `/admin/drain`, `/admin/resume` | Gateway |
| Core types, whole-model engines, configuration, scripts | none of their own | data, adapters, wiring, benchmarks | the records of the modules; see §7 |

What is hard in it, and what makes each part correct:

* **Reconfiguration.** `apply_plan` awaits once per stage and once for the KV
  copy, while nodes leave, other epochs are drained and the attempt may fail at
  any await. Correct means: the plan that new requests are bound to stays
  resident and active on all its nodes; the switch never stops half-way for a
  refusal; no stage in force or in preparation is drained; and seen from outside there are only whole,
  consecutive switches (blue-green).
* **Requests.** A request is routed with a list of healthy nodes read before an
  await, carries its epoch through several stages, may be refused, fail and be
  retried between them, and overlaps the next reconfiguration. Correct means: it
  runs only on layers held for its epoch, skips no stage, and is answered.
* **Activations.** They travel on connections shared by all requests while the
  question for them takes a connection of its own; either may be lost, and a
  caller may submit the same id again; a node may fall silent. Correct means: what
  a stage computes on was sent by the stage before it, and is used once.
* **Elasticity.** Joins and departures are queued events, handled one at a time
  against the plan at handling time; nodes keep changing during `apply_plan`, and a
  handler that raises loses its event. Correct means: no join or departure is lost
  but for the ones that the code overlooks, which are named.
* **KV blocks.** The departure handler lists a node's blocks, then awaits whole
  engine runs, then migrates by the list, while tasks save blocks and nodes
  leave. Correct means: no catalog entry is forgotten on a node that is gone, no
  block is lost but by decision, and each stage of the next plan gets its blocks.
* **Memory.** The account is written by loads, half-failed loads, plans and
  unloads, and the object that holds it is replaced by heartbeats. Correct means:
  it counts on no memory that is not there.
* **Agents.** Calls are sent again over a new connection, some take the lock and
  some do not, agents restart, frames carry no epoch. Correct means: a pass goes
  through every layer, on the cache of exactly the tokens before it.
* **Gateway.** Handlers share one availability flag; each may mark it down, and
  only a handler that waits probes the upstream. A broken stream is submitted
  again and spliced into what the client already has. Correct means: every
  request ends, the client sees each part of the answer once and in order, the
  gateway opens again when the upstream is back.

## 2. Modules

```
BlueGreen                    abstract: what the coordinator promises
   ^ implemented by
PipelineReconfig             the coordinator            <--- PipelineReconfigProofs
   ^ extended by
   +-- PipelineServing       requests through the pipeline  <--- PipelineServingProofs
   +-- ElasticPipeline       node manager, bus, handlers   <--- ElasticPipelineProofs
Routing                      the other placement policies, as functions
   ^ extended by
   RequestFlow               routing, stages, transport     <--- RequestFlowProofs
KVMigration                  catalog, tasks, departures     <--- KVMigrationProofs
ModelLedger                  memory account, layer shares   <--- ModelLedgerProofs
RealPipeline                 controller, client, agents     <--- RealPipelineProofs
Gateway                      proxy and replay               <--- GatewayProofs
MC*                          constants for TLC
```

PipelineServing, KVMigration and RequestFlow look at one handler,
`handle_request`, with different eyes: the first at epochs and refusals, the
second at the blocks that runs leave behind, the third at what passes between
stages. What one of them leaves open (an engine that may fail at any time, a plan
that may change) the other has in detail.

**PipelineReconfig** is the coordinator with the state it coordinates. `call` is
the `apply_plan` in progress with its phases `prepare`, `copy`, `activate`; each
`await` of the loops is one step (`Prepare(n)`, `CopyReusableKV`, `Activate(n)`),
as other coroutines run there. `CallFails`, `PrepareRefused`, `LedgerRefused` are
the exceptions of the code, each leaving behind exactly what the code leaves
behind (prepared stages on some runtimes, possibly the new ledger).
`drain_old_epoch` is `StartDrain`, `Retire(n)`, `EndDrain`. `assigned[n][e]` and
`active[n]` are a runtime's `_assignments` and `_active_epoch`. A plan is a
function from nodes to half-open layer ranges; any plan that passes the code's
validation may be applied, whatever policy produced it.

**BlueGreen** says the same with two variables: `held`, the stage copies resident
on the nodes, and `serving`, the plan and epoch that new requests get. Serving
may only advance to the next epoch, with a complete plan that is held completely,
and what serves is never released.

**PipelineServing** adds `req[r]`, one record per request: the nodes seen at
routing, the chain that `place` built, the task in hand with its epoch, the
retry counter and the activation from the stage before. `Strict` is the set of
nodes with the admission checks of the Torch engine; the others have those of the
mock. A step of the
coordinator is `ControlStep`; a drain starts only for an epoch without requests
in flight, which is what its docstring asks of the caller.

**ElasticPipeline** closes the loop: `Register`, `Unregister`, `Heartbeat` put
events on `queue`; `Dispatch` takes one and applies the handlers' early returns;
`Reconfigure` asks `PlanOver` (the policy) for a plan over the nodes alive and
runs the coordinator's actions until `CallEnds`. While a handler runs, events
queue up but none is dispatched, as in `EventBus.run`. A handler may raise: before
it asks for a plan (`HandlerRaises`), for want of a runtime (`CallRefused`), or for
want of memory or of a KV store that answers (`CallRaises`); the bus logs that and
drops the event (`EventDropped`), and nobody retries. Two history variables keep
account of it: `due`, the nodes whose change the handler at work is to bring into
the plan, and `overlooked`, those for which no handler is responsible any more.

**Gateway** has one record per client connection (`conn[c]`): the phase of its
handler, the connection to the upstream, the attempts used, the text sent.
Phases follow the code: `calling` (`_stream_once` or the plain post), `waiting`
and `probing` (`_wait_for_pipeline`), `replaying` (`_collect_stream_text`). The
upstream is external: it goes down and comes back, and answers a replay with the
answer from its start, with its continuation, or with something else.
`SkipAlreadySent` is the splice of the code.

**RequestFlow** has `flow[r]`, the coroutine of a request, at one of its awaits:
`lookup`, `place`, `weigh` (the second lookup of E2Placement, `LookupAgain`),
`compute`, `deliver`, `connect`, `pull`. TCP and WiFi push on
`writer[n]`, the connection of `TCPTransport._writers`; two requests that find
none open one each, and the later one stays (`PushOnNewWriter`). `wire[n][c]` is
what the receiver has not read, so a `Pull`, on its own connection, may come
first. `store[n]` is the receiver's table, keyed by `Tag`. A request that ended
with an error may be submitted again under its id, which is what makes leftovers
dangerous. A node may fall silent without resetting a connection (`FallSilent`); who
waits for it `Hangs`. `PlaceOnNode` uses the functions of **Routing**: `DefaultTarget`,
`CapabilityTarget` and `E2Target` with its lookup hit, exploitation and
exploration. `Heartbeat`, `Unregister`, `CatalogChanges` and `SetPlan` are what
happens during the awaits.

**KVMigration** has the catalog, one coroutine per request and one of the bus
(`run[x]`: engine call, first save, second save), the ids in
`NodeState.pending_tasks`, and `handler`, the topology handler with its phases
`recover` (the tasks that were pending, each a whole run), `move` (moves, then
evictions, by the plan decided after the recoveries), `prepare` and `copy` (the
next plan and `_copy_reusable_kv`). `config` chooses the migration policy and
whether there is a pipeline controller, as the configuration does. `stray` is a
history variable that names the leaks the code has by design; `StrandedIsPending`
says there are no others.

**ModelLedger** has no interleaving inside an operation (the manager never
suspends) but arbitrary sequences of them: `LoadPlacement` in its order (check
against the total, layers booked, experts that may not fit and raise), `Unload`,
`ApplyPipelinePlan`, heartbeats that replace the state, departures.
`Reparallelize` is the largest-remainder rule with ties left open.

**RealPipeline** is the experiment of `run_real_pipeline` as `Script`, a list of
plans, rounds of requests, a departure and a retirement; `main` is the thread that
executes it, `worker[r]` a thread in `run_request`, `calls[c]` the call a thread
waits for, `frames` what agents have received. `Break` is a connection that breaks
before the answer: the client sends the frame again although the first may be
executed too. `AgentPrepare`, `ForwardBegins` and `ForwardEnds` hold the service's
lock, `AgentActivate` and `AgentRetire` do not. A prepare is refused for an illegal
range or when the weights do not load. A `cache` is its length; what a
pass did wrong is remembered in `worker[r].gap` (layers skipped) and `.skew`
(a cache that did not hold the tokens before the pass). `SplitStage` is one round
of `split_layers`.

Definitions introduced as *Faulty variant* are deliberate mistakes: `mutants` in
`PROJECT.json` puts each in place of the definition after it, and TLC must see
the property fail.

## 3. Runs

| Run | Instance | Expect | What it shows |
|---|---|---|---|
| `reconfig_safety` | 2 nodes, 2 layers, 3 epochs, symmetry | pass | `ServingPlanReady`, `ActivationNeverRefused`, `ActiveStageHeld`, the inductive invariant `IInv`, and `ImplementsBlueGreen` |
| `serving` | 2 nodes (one strict), 1 request, 2 layers, 2 epochs, 1 retry | pass | `DoneMeansAllStages`, `DrainedEpochUnused`, `RunsOnHeldLayers`, `LeaversServeOldEpoch`; `RequestsSettle` under fairness |
| `elastic_converges` | 3 nodes, 3 layers, 4 epochs, 3 registrations/departures, handlers may raise | pass | `DivergenceIsPending`; `JoinsAndDeparturesTakeEffect` under fairness |
| `gateway_recovers` | 1 stream, 1 plain request, 2 replays, 1 outage, 3 answers | pass | `StreamsAreFaithful`, `DownIsWatched`, its inductive invariant `GatewayInv`; `RequestsEnd` and `ReopensWhileWatched` under fairness |
| `real_pipeline` | 3 agents, 4 layers, prompt of 2, 2 tokens, 1 + 1 + (1, 2) requests, 1 break, 1 restart | pass | `PlanTilesModel`, `CallerKeepsStage`, `PassesCoverModel`, `CacheMatchesPass`; `ExperimentEnds` under fairness |
| `kv_migration` | 2 nodes, 1 request and 1 older block, 1 retry, 3 events, both policies, with and without a controller | pass | `StrandedIsPending`, `OnlyPlannedLosses`, `CopiesReachOwners`; `EverythingSettles` under fairness |
| `model_ledger` | 3 nodes, 2 layers, 1 expert, 2 units of memory, flops up to 2, 3 operations | pass | `NoPhantomMemory`, `PlacedIsReserved`, `PlanIsProportional` |
| `request_flow` | 2 nodes, 2 stages, 2 requests, 2 tries, 2 epochs, 2 connections to a node, 1 fault (a connection that breaks or a node that falls silent), a prompt of 3 tokens in blocks of 2, all policies and transports | pass | `StageInputFits`, `ReadOnce`; `FlowEnds` under fairness |
| `serving_old_epoch` | as `serving`, both nodes strict | violation | `OldRequestsAreServed` (finding 1) |
| `elastic_revival` | 3 nodes, 2 registrations/departures | violation | `PlanFollowsTopology` (finding 2) |
| `gateway_stuck` | 2 plain requests, no outage | violation | `ReopensWhenUp` (finding 3) |
| `pipeline_rerun` | 2 agents, 2 layers, no break, no restart | violation | `PositionCountsTokens` (finding 4) |

### Bounds, and why they are enough

* **Nodes, layers.** Two nodes and two layers give plans on one node and on
  both, in either order: a node that stays, joins, leaves or changes its range.
  The elastic run has three so that a node can join while another leaves and a
  third stays. The ledger has three nodes for two layers so that a weak node gets
  none, the real pipeline three agents so that two are left after the departure,
  with four layers that do not divide evenly.
* **`MaxEpoch`.** Three epochs are needed for a drain of the first to overlap
  the preparation of the third while the second serves. The requests have two:
  the old and the new epoch. `MaxEpoch` is 4 in the elastic run: one first plan
  and one per event, so the epoch bound never stops a reconfiguration.
* **`MaxEvents`** bounds calls of `register` and `unregister` (heartbeats are
  free in the elastic run). Three events let two overtake the handler of the first
  and cancel each other, or let a handler succeed after one that raised; the proof of
  `DivergenceIsPending` lifts the bound. In `kv_migration`, three let a node leave, another leave while the
  first is handled, and one return.
* **Requests.** In `PipelineServing` they share nothing, so one suffices: what it
  meets is its own interleaving with the coordinator. In `KVMigration` the task
  and its recovery by the handler are two coroutines of one request; the older
  block is one that nobody saves meanwhile. In `RequestFlow` two requests share
  connections and stores. One retry reaches the first attempt, the retry and the
  limit; two tries are a submission and its repetition.
* **Breaks, restarts, faults, beats.** One each (`MaxFaults` counts connections that
  break and nodes that fall silent together): it may come at any point, and what
  the next one would meet is the state after the first. What a second would add
  (a frame sent three times) the code does not do: it sends a frame twice at most.
* **Operations on the ledger.** Three: a placement, a second one or a plan over
  it, and an unload, state or plan after that. The proofs lift this bound.
* **Gateway.** Two handlers are what it takes for one to mark the pipeline down,
  up or give up under the other. `MaxReplays` = 2 is the code's default. One
  outage suffices because a call may fail at any time also without one. The
  answers have repeated and common beginnings, on which the splice depends.
* **Deadlock** is checked in the reconfiguration and serving runs. The other
  systems may really stop: events, clients, operations or the experiment are used
  up and nothing is left to do.

### Fairness, and why the code justifies it

* `FairServingSpec`: weak fairness of a request's steps. The request is a
  coroutine that the event loop resumes; an engine call returns or raises.
  Nothing is assumed of the coordinator. There is no fairness of failures:
  `EngineFails` may happen but need not.
* `FairElasticSpec`: weak fairness of the bus task and of the handler it awaits
  (`Dispatch`, `Reconfigure`, `NothingToReconfigure`, `CallStep`, `CallEnds`,
  `CallRefused`). Nodes owe nothing: they may stop changing at any point. Nor do
  handlers have to raise, except where a runtime is missing.
* `FairGatewaySpec`: weak fairness of each handler and of time passing towards
  its deadline. Every upstream call has a read timeout, a connection timeout or
  both. Neither the upstream's return nor the operator is fair.
* `FairSpec` of `KVMigration`: weak fairness of the bus's handler and of each
  coroutine. An engine call returns or raises, a store call returns. Of nodes and
  events nothing is assumed.
* `FairSpec` of `RequestFlow`: weak fairness of each request's coroutine, which is
  resumed when its await has ended, by a result or an exception. That an await ends
  is assumed only while the node asked still answers or resets its connections:
  `TCPTransport` sets no timeout for opening, writing or reading
  (`tcp_transport.py:49-64`), so nothing is assumed of a request that `Hangs`. The
  network is not fair: a push may never arrive, and the pull then misses.
* `FairSpec` of `RealPipeline`: threads are scheduled, agents serve their
  connections, and a call to an agent that is gone ends by the reset of the
  connection or the 600 s timeout of the client.

## 4. What is proved

All theorems hold for every number of nodes, layers, epochs, clients and
replays, and likewise for the parameters of the other modules, from the `ASSUME`s on
constants (sizes positive, names distinct, answers are sequences), each of which TLC
evaluates.

**Coordinator** (`PipelineReconfigProofs`): `TypeCorrect`, `Inductive`,
`ServingPlanAlwaysReady`, `NoActivationRefused`, `ActiveStagesHeld`. The safety properties are not inductive by themselves: that
the plan in force stays resident depends on which numbers a call in progress and
a drain may touch. `IInv` adds what connects them:

* a call in progress is for epoch `current.epoch + 1`, so what it prepares
  overwrites only leftovers of failed attempts, never what serves;
* every node it has prepared holds exactly its range of the plan, and stays so
  until the switch, so activation cannot be refused;
* a drain is for an epoch below the current one; when a runtime's active epoch is
  the one drained, it is switched off in the same step.

Each action preserves each conjunct: one step per action in the proof. The
temporal theorems then follow by PTL.

**Refinement** (`PipelineReconfigProofs`): `Refinement` shows that every behaviour
of the coordinator is one of `BlueGreen`, with `serving <- policy` and `held <-
Held`, the assignments of the runtimes as a set of stage copies. `Prepare` maps to
`Load`, `Retire` to `Release` (which needs the invariant: what is drained does not
serve), `Commit` to `Switch` (which needs it again: the plan is held completely),
everything else to a stutter.

**Requests across reconfigurations** (`PipelineServingProofs`): `ServingInvariant`,
`DrainedEpochNeverUsed`, `AlwaysRunsOnHeldLayers`, `DoneAlwaysMeansAllStages`,
`ServingTypeCorrect`, `LeaversAlwaysServe`. `SInv` is `IInv` of the coordinator, the
types, and `Sound(req[r])` for each request: the task in hand has the epoch that the
request was bound to, or none; the stages left start at different layers, and those
no longer left have run; what runs on a strict node runs on what is held for it. A
drain starts only without requests in the epoch, and no request enters it because
new ones get the epoch in force, which `IInv` keeps above what is drained.
`LeaversAlwaysServe`, an action property, needs to know besides that a request in
flight is `Timely`: until a second reconfiguration its stages are active in its
epoch or a later one, a task that is no retry has its epoch, and so has the
activation that it starts from; a retry, which carries no epoch, passes only where
none is active.

**The reconfiguration loop** (`ElasticPipelineProofs`): `LoopInvariant`,
`ElasticTypeCorrect`, `DivergenceAlwaysPending`, `LoopSwitchesBlueGreen`. The
handlers look at `current_plan` when their event is dispatched and never again, and
nodes change while they wait. `LoopConsistent` says of every node that is not
overlooked: the plan in force agrees with its being alive, or an event of this node
is queued that no handler would ignore under that plan, or the node is `due`; and
the plan being applied, if there is one, agrees or has such an event for the `due`
nodes as well, since it was made over all the nodes alive. So the end of a handler
settles what was due, and its exception, which leaves the plan in force as it was,
moves what was due to the overlooked and nothing else. `IInv` holds as every step of
the loop that touches the coordinator is one of its own actions, exceptions included,
from which follows that the loop, too, only makes blue-green switches.

**Gateway** (`GatewayProofs`): `GatewayInductive`, `GatewayTypeCorrect`,
`DownAlwaysWatched`, `StreamsAlwaysFaithful`. Types depend on `AttemptsLeft` (a
handler under way has not used up its attempts) and on the fact that a longest
common prefix exists (`LongestExists`, by well-foundedness of the strict subset
order on what a prefix leaves over). `DownIsWatched` is preserved because a handler
that leaves the wait without giving up does so with the pipeline up. `StreamInv` is
`GatewayInv`, `StreamsAreFaithful` and `ReplayedOnce`: a stream that was replayed
has ended, so no step adds to a text that has its gap already. That
`SkipAlreadySent` leaves one gap at most is a lemma about prefixes: what is dropped
is a common prefix of the answer and of the text at hand.

**Activations** (`RequestFlowProofs`): `FlowInvariant`, `FlowTypeCorrect`,
`StageInputAlwaysFits`, `AlwaysReadOnce`. None of the properties is inductive:
leftovers lie about on wires and in stores. `FInv` says of each of them that it
was sent to where it is, by an earlier try or up to the stage its request is at,
that it has not been read, that it is in one place only, and in a store alone
under its tag. An activation that is being sent is therefore new, and what a pull
finds under a tag has the request, epoch, stage, source and destination that the
stage asked for. The try it does not have.

**KV blocks** (`KVMigrationProofs`): `KVInvariant`, `KVTypeCorrect`,
`NothingForgotten`, `StagesGetTheirBlocks`, `LossesArePlanned`. `KInv` adds to
`StrandedIsPending` what the handler relies on over its awaits: a listed block
stays at the departed node until the handler itself moves or evicts it, because
everybody else only adds locations (so a move never finds its source gone); a
target of PriorityMigration and an owner in the next plan are alive or their
departure is queued (so a block put there is not forgotten); evictions are of
blocks the plan gave up. The handler runs tasks only while it recovers, so the ids
it recovers are those of requests.

**Memory** (`ModelLedgerProofs`): `LedgerTypeCorrect`, `NeverPhantomMemory`,
`PlacedAlwaysReserved`, `PlanAlwaysProportional`, for all sizes and sequences of
operations. The first three together are inductive. The proof uses nothing of a plan
but that the model manager validates it (`Covers`), so it holds whatever policy made
the plan. For the proportional plan the largest-remainder rule is proved to give out
every layer. Sums over a set of nodes are folds, and the induction over the set is
beyond the prover; so the layers are laid out as a finite set of units (`<<node,
k>>` with `k` up to the share) whose cardinality is the sum, and what an induction
would show is shown by taking a least counterexample (`WFMin`). The order of shares
then follows from that of the weights by arithmetic, remainders included.

**Layer split** (`RealPipelineProofs`): `SplitInductive`, `PlanAlwaysTilesModel`.
The loop invariant of `split_layers`: the stages done tile the layers below the
cursor, and as many layers as stages are left. No weights are assumed. With more
stages than layers the cursor may fall below zero; the agents refuse such ranges.

**Passes** (`RealPipelineProofs`): `PipelineInvariant`, `RealPipelineTypeCorrect`,
`CallersAlwaysKeepStage`, `PassesAlwaysCoverModel`. A frame of a request names no
epoch: what an agent does with it depends on when it is executed, which after a
broken connection may be long after the answer was given up. `PipelineInv` collects
why this is the plan that the request was sent under:

* `ControlInv`: the split, and the epoch as the number of plans the script has made
  (`LineInv`), the ranges of the stages alive linked from the first layer to the last
  (`ChainInv`);
* `WorkerInv`: threads run only in the round that has their id, and wait only for
  the first stage of those left; `MainCallInv`: the same for the main thread;
* `FrameInv`: what is under way (frames, calls not read, passes that run) was
  planned by now: a prepare has the range of its plan, a retire an older epoch, a
  pass belongs to an earlier round or to a node of the present one;
* `AgentInv`: so was what agents have prepared, and what is active is prepared;
* `SteadyInv`, unless an activation was sent twice: an agent that has confirmed the
  activation stays with the epoch or, restarted, has lost everything and refuses;
  each thread has reached the first layer of the stage it waits for (`GapFree`).

**Caches** (`RealPipelineProofs`): `CacheInvariant`, `CachesAlwaysMatchPass`.
`CacheInv` is about the requests to which none of the exceptions applies (`Clean`).
Their call waits for the only frame or pass of them there is, and each stage that is
still in the epoch has seen a number of tokens that their thread could compute
(`Expected`): those of the present pass where the thread has been or where its answer
waits to be read, those of the passes before elsewhere.

**Only model-checked**: the liveness properties (`RequestsSettle`,
`JoinsAndDeparturesTakeEffect`, `RequestsEnd`, `ReopensWhileWatched`,
`ExperimentEnds`, `EverythingSettles`, `FlowEnds`), as fairness is out of the
prover's reach, and of course the runs that show a violation. Every invariant and
every action property of a passing run, and the refinement, is a theorem.

## 5. Assumptions of the models

* `apply_plan` is not called while another call is in progress. The code has no
  lock; within the system it is called from the bus's handlers, which run one at
  a time, and from start-up.
* Runtimes are attached, never replaced by another object for the same node.
* A drain is requested by the entry for an epoch older than the one in force, and
  only once no request bound to it is in flight, as `drain_old_epoch` says.
* A node has one runtime, and in the serving and elastic models every node has
  one, as the experiments and tests arrange.
* In `ElasticPipeline` the in-process runtimes and the model manager do not
  suspend, so other coroutines run only between calls and in the KV copy; drains are
  left out; with comparable capabilities every node alive gets a stage
  (`PlanOverAssumption`). Which nodes have a runtime is fixed at the start and may be
  fewer than the nodes that join; memory may be short and the KV store may raise at
  any time. `elastic_revival` does without exceptions (`MayRaise` is FALSE), so that
  its trace shows the revival alone.
* In `KVMigration` a call of the store takes effect at the end of its await. This
  is sound because between the start and the end of `move` nobody but the one
  topology handler removes a location. The blocks of a request are taken as one,
  the engine behind `LMCacheStore` holds what the catalog lists, and which blocks
  PriorityMigration keeps, by priority and time budget, is left open.
* In `ModelLedger` bytes and flops are integers and the shares exact; the experts
  have one size.
* In `RequestFlow` engines fail but do not retry (they do in `PipelineServing`),
  loads are multiples of 1/20, and what a configuration cannot read is fixed.
* In `RealPipeline` a message is a frame: sockets deliver it whole or not at all.
* In `Gateway`, `drain_on_error` is on (the default), a text is cut into
  letters, and a serving upstream answers the probe. A client of a stream that
  disconnects may have its generator cancelled; whether that happens depends on
  the server, so it is a possible step, and the stuck run does without it.

## 6. Findings

1. **Old epochs are refused by nodes that stay** (`serving_old_epoch`).
   `placement.py:280` says that old requests go on executing with their old epoch.
   A runtime has one active epoch and refuses every other
   (`torch_layered_engine.py:116`), so after the switch they fail on each node
   that the new plan keeps, although it still holds the old layers.
2. **A revived node is never used again** (`elastic_revival`). A heartbeat after
   the stale monitor has unregistered the node sets `alive`
   (`node_manager.py:81`) and publishes only an event without subscriber.
3. **The gateway may answer 503 for ever** (`gateway_stuck`). Only a waiting
   handler probes the upstream; when the last one has given up, or has marked the
   pipeline down on its last attempt (`vllm_gateway.py:378-381`), nobody does.
4. **Concurrent experiments reuse caches** (`pipeline_rerun`). `run_concurrent`
   numbers its requests from 0 for every size and never releases them
   (`run_real_pipeline.py:414`), so the second size computes on the caches of the
   first.

What the models show or needed, without a run of its own:

* `place` leaves out the stages of nodes that are not healthy (`placement.py:292`)
  and the rest is run and answered without an error; `DoneMeansAllStages` speaks of
  chains that covered the model.
* `recover` builds a task with default fields (`recovery.py:44`): a retry has lost
  its epoch, and TokenRecovery leaves the task on its node even if it has left.
* The recovery of a departed node's tasks may run beside the task's own coroutine;
  both write the one result, and which of them stays is left to their order.
* The three leaks in `stray`: a task that saves a block on a node whose departure
  has been handled, DefaultMigration moving a block to a location of the catalog
  that is a departed node, and departures of nodes outside the plan.
* **A reconfiguration that raises is never retried.** `apply_plan` raises when a
  member lacks memory (`model_manager.py:118-122`) or a runtime
  (`pipeline_controller.py:75-76`), or the KV store fails in the copy
  (`pipeline_controller.py:89`); `_dispatch` logs the exception and the event is gone
  (`event_bus.py:68-72`). The plan then differs from the topology with nothing
  pending until some other node comes or goes. `DivergenceIsPending` and
  `JoinsAndDeparturesTakeEffect` except these nodes (`overlooked`), and show that the
  exception costs no other event.
* **No timeout in `TCPTransport`.** Neither opening nor reading has one
  (`tcp_transport.py:49-64`): a node that vanishes without a reset leaves the request
  waiting for ever. `FlowEnds` excepts it.
* **An activation of an earlier try may be computed on.** `types.py:135-137` speaks of
  detected replays, but neither `tag()` nor the checks of the engines know of tries: a
  pushed activation of an earlier try, late on its connection, has the tag of the new
  one and may be read in its stead (it is the same data when the prompt is). Another
  request's, plan's or stage's is never read, and none is read twice.
* The scheduler passes its hit to `place` in blocks (`task_scheduler.py:122-125`),
  E2Placement weighs it as tokens (`placement.py:128`); it matters only when its own
  lookup, an await later, finds less than that.
* After a heartbeat has replaced the state of a node, free memory may exceed the
  total: the next plan gives back bytes that the new state never counted as taken.
  `NoPhantomMemory` excepts such nodes (`unaware`).
* E2Placement takes any holder of a hit block as an exploitation target, where
  `placement.py:81` speaks of the one with the longest prefix, and the price of a
  node is that of the first block recorded, not of the cheapest.
* An activation that was sent twice may be executed a round later: `activate` takes
  any epoch the agent has prepared (`hf_layered_engine.py:223`), and so it can
  switch the agent back. With a delayed prepare and retire this takes the layers
  from a pass that a thread waits for. The proof of `CallerKeepsStage` found this
  beyond the bounds of its run (which has one break), so the property, like the
  other two about passes, excepts activations sent twice.
* With more stages than layers the cursor of `split_layers` goes below zero, and the
  ranges that follow from it are empty or negative; agents refuse them, and the
  experiment fails at its first prepare.
* `unload` gives no memory back and clears the layers and experts of the placement
  object it shares with its caller; LMCacheStore's `load` ignores the location.
* `HFLayeredEngine.generate` always raises: it passes `tokens` to `_forward`, which
  takes none (`hf_layered_engine.py:275`). The agents use `prefill` and `decode`.
* If the upstream continues the text that a replay submits, rather than giving the
  answer again, `skip_already_sent` drops the part of the continuation that happens
  to agree with the beginning of the answer, and the client loses it;
  `StreamsAreFaithful` says so in its condition.

## 7. What is not modelled, and why

* Tensors, weights and their loading, sampling, tokenisation, byte layouts, the
  source nodes of weights (`_source_nodes_for`): data that no property here
  distinguishes. A forward pass is the layers it went through and the cache it
  started from.
* Logging, counters, event formats, report files, socket framing, the seconds of
  timeouts and of the stale monitor (a timeout may come at any time).
* `vllm_engine.py`, an adapter without control state; `load_experts` apart from its
  bytes; tiers of the KV store that nobody writes to.
* Configuration files, datasets, command lines, benchmarks (`measure_link`,
  `verify_equivalence`) and deployment scripts (`scripts/`, `deploy/`): straight-line
  programs that read or print. The systems they wire up are the initial states of
  the models.
* `stop()` of the event bus and of the transports: the process ends with them.

## 8. What is left

* Abstract specifications for the gateway's streams and for the passes over real
  machines, in the manner of `BlueGreen`, with the invariants above as the lemmas of
  their refinement proofs.
* Two departures handled while two requests run in `kv_migration` (the proof covers
  safety there; liveness is checked with one request).
* The composition of `KVMigration` with the epochs of `PipelineReconfig`: its
  `copy` phase stands for the whole of `apply_plan`.
