---------------------------- MODULE KVMigration ----------------------------
(***************************************************************************)
(* The KV blocks of a node that leaves: the catalog of the KV store, the    *)
(* coroutines that run tasks and save their blocks (TaskScheduler), and     *)
(* the one topology handler of the event bus, which recovers the tasks of   *)
(* a departed node, migrates its blocks by a list taken before, and, with   *)
(* a pipeline controller, copies blocks to the owners of the next plan.     *)
(*                                                                          *)
(* Only gpu locations and cloud:cpu are ever written, so a location is a    *)
(* node or Cloud.  A call of the store takes effect in one step, at the     *)
(* end of its await: in between nobody but the handler removes a location.  *)
(* The engine behind LMCacheStore holds what its catalog lists.             *)
(***************************************************************************)
EXTENDS Integers, Sequences

CONSTANTS
  Nodes,
  Requests,
  Handler,       \* the event bus's task, apart from those of the requests
  Warm,          \* a block from before the requests
  Cloud,         \* the location cloud:cpu
  None,
  MaxRetries,
  MaxEvents      \* joins, departures and heartbeats with a state

ASSUME RetriesAssumption == MaxRetries \in Nat
ASSUME EventsAssumption == MaxEvents \in Nat
ASSUME NamesAssumption ==
  /\ Handler \notin Requests /\ Warm \notin Requests
  /\ Cloud \notin Nodes /\ None \notin Nodes

\* The blocks of a request are taken as one, those of its retries included.
Blocks == Requests \cup {Warm}
Places == Nodes \cup {Cloud}
Runners == Requests \cup {Handler}
Ids == Runners \X (0..MaxRetries)

VARIABLES
  config,    \* [migration, controlled]: the policies the system was built with
  up,        \* nodes with state.alive
  queue,     \* EventBus._queue, the topology events
  catalog,   \* catalog[b]: the locations listed for b
  run,       \* run[x]: what coroutine x does in _run_task
  pending,   \* pending[n]: NodeState.pending_tasks
  handler,   \* [phase, node, listed, todo, moves, drops, given, plan, owner];
             \* given is what the plan gave up, drops what is still to be evicted
  members,   \* nodes of current_plan
  results,   \* TaskScheduler._results
  stray,     \* history: entries on a departed node that no handler will clear
  events     \* events that happened

vars == <<config, up, queue, catalog, run, pending, handler, members, results, stray, events>>
fleet == <<up, queue, events>>
tasks == <<run, pending, results>>

Idle == [st |-> "idle", req |-> None, node |-> None, tries |-> 0]
NoWork == [phase |-> "idle", node |-> None, listed |-> {}, todo |-> {},
           moves |-> [b \in {} |-> None], drops |-> {}, given |-> {}, plan |-> {},
           owner |-> [b \in Blocks |-> None]]

Departures == {queue[i].node : i \in {j \in 1..Len(queue) : queue[j].kind = "left"}}

Init ==
  /\ config \in [migration : {"default", "priority"}, controlled : BOOLEAN]
  /\ up = Nodes
  /\ queue = <<>>
  /\ \E places \in SUBSET Nodes : catalog = [b \in Blocks |-> IF b = Warm THEN places ELSE {}]
  /\ run = [x \in Runners |-> Idle]
  /\ pending = [n \in Nodes |-> {}]
  /\ handler = NoWork
  /\ members \in {S \in SUBSET Nodes : S = {} <=> ~config.controlled}
  /\ results = [r \in Requests |-> "none"]
  /\ stray = {}
  /\ events = 0

-----------------------------------------------------------------------------
(* KVStore: MockKVStore and LMCacheStore *)

HeldAt(n) == {b \in Blocks : n \in catalog[b]}
Listed == {b \in Blocks : catalog[b] # {}}
Saved(b, n) == [catalog EXCEPT ![b] = @ \cup {n}]
Moved(b, src, dst) == [catalog EXCEPT ![b] = (@ \ {src}) \cup {dst}]

\* evict at "*": the copies on other nodes go too.
Evicted(b) == [catalog EXCEPT ![b] = {}]

-----------------------------------------------------------------------------
(* NodeManager *)

Happens(e) == queue' = Append(queue, e) /\ events < MaxEvents /\ events' = events + 1

Unregister(n) ==
  /\ n \in up
  /\ up' = up \ {n}
  /\ Happens([kind |-> "left", node |-> n])
  /\ UNCHANGED <<config, catalog, tasks, handler, members, stray>>

\* A node that registers again brings a new Node with a fresh state.
Register(n) ==
  /\ n \notin up
  /\ up' = up \cup {n}
  /\ Happens([kind |-> "joined", node |-> n])
  /\ pending' = [pending EXCEPT ![n] = {}]
  /\ stray' = {s \in stray : s[2] # n}
  /\ UNCHANGED <<config, catalog, run, results, handler, members>>

HeartbeatWithState(n) ==
  /\ n \in up /\ pending[n] # {}
  /\ events < MaxEvents /\ events' = events + 1
  /\ pending' = [pending EXCEPT ![n] = {}]
  /\ UNCHANGED <<config, up, queue, catalog, run, results, handler, members, stray>>

-----------------------------------------------------------------------------
(* TaskScheduler: handle_request and _run_task *)

StartRun(x, r, n, tries) ==
  /\ run' = [run EXCEPT ![x] = [st |-> "engine", req |-> r, node |-> n, tries |-> tries]]
  /\ pending' = [pending EXCEPT ![n] = @ \cup {<<x, tries>>}]

\* The nodes are read before the await of the lookup.
HandleRequest(r) ==
  /\ results[r] = "none" /\ run[r] = Idle
  /\ \/ up = {} /\ results' = [results EXCEPT ![r] = "error"] /\ UNCHANGED run
     \/ \E n \in up : run' = [run EXCEPT ![r] = [Idle EXCEPT !.st = "lookup", !.req = r, !.node = n]]
        /\ UNCHANGED results
  /\ UNCHANGED <<config, fleet, catalog, pending, handler, members, stray>>

Place(r) ==
  /\ run[r].st = "lookup"
  /\ StartRun(r, r, run[r].node, 0)
  /\ UNCHANGED <<config, fleet, catalog, results, handler, members, stray>>

\* The end of the outermost _run_task of x takes the ids of all its attempts away.
\* The handler keeps only a result, a request also its failure.
EndRun(x, outcome) ==
  /\ run' = [run EXCEPT ![x] = Idle]
  /\ pending' = [pending EXCEPT ![run[x].node] = {id \in @ : id[1] # x}]
  /\ results' = IF x = Handler /\ outcome = "error" THEN results
                ELSE [results EXCEPT ![run[x].req] = outcome]

\* Faulty variant: the count of the retries starts again instead of ending them.
EngineFailsForever(x) ==
  /\ run[x].st = "engine"
  /\ StartRun(x, run[x].req, run[x].node, (run[x].tries + 1) % (MaxRetries + 1))
  /\ UNCHANGED <<config, fleet, catalog, handler, members, stray, results>>

\* Faulty variant: one retry too many.
EngineFailsOnceMore(x) ==
  /\ run[x].st = "engine"
  /\ \/ /\ run[x].tries <= MaxRetries
        /\ StartRun(x, run[x].req, run[x].node, run[x].tries + 1)
        /\ UNCHANGED results
     \/ run[x].tries > MaxRetries /\ EndRun(x, "error")
  /\ UNCHANGED <<config, fleet, catalog, handler, members, stray>>

\* The retry goes to the same node, be it there or not.
EngineFails(x) ==
  /\ run[x].st = "engine"
  /\ \/ /\ run[x].tries < MaxRetries
        /\ StartRun(x, run[x].req, run[x].node, run[x].tries + 1)
        /\ UNCHANGED results
     \/ run[x].tries = MaxRetries /\ EndRun(x, "error")
  /\ UNCHANGED <<config, fleet, catalog, handler, members, stray>>

EngineAnswers(x) ==
  /\ run[x].st = "engine"
  /\ run' = [run EXCEPT ![x].st = "save"]
  /\ UNCHANGED <<config, fleet, catalog, pending, results, handler, members, stray>>

\* The block is saved once for kv_blocks and once more for kv_block_ids.
SaveBlock(x) ==
  LET b == run[x].req
      n == run[x].node
  IN
  /\ run[x].st \in {"save", "save again"}
  /\ catalog' = Saved(b, n)
  /\ stray' = IF n \in up \cup Departures THEN stray ELSE stray \cup {<<b, n>>}
  /\ IF run[x].st = "save"
       THEN run' = [run EXCEPT ![x].st = "save again"] /\ UNCHANGED <<pending, results>>
       ELSE EndRun(x, "ok")
  /\ UNCHANGED <<config, fleet, handler, members>>

RunnerStep(x) == Place(x) \/ EngineFails(x) \/ EngineAnswers(x) \/ SaveBlock(x)

-----------------------------------------------------------------------------
(* _on_node_left and _on_node_joined, one event at a time *)

Takes(kind) == handler.phase = "idle" /\ queue # <<>> /\ Head(queue).kind = kind

\* Faulty variant: the index is not filtered by the departed node.
TakeDepartureListingAll ==
  LET n == Head(queue).node IN
  /\ Takes("left")
  /\ ~config.controlled \/ n \in members
  /\ queue' = Tail(queue)
  /\ handler' = [NoWork EXCEPT !.phase = "recover", !.node = n,
                               !.listed = Listed, !.todo = pending[n]]
  /\ UNCHANGED <<config, up, events, catalog, tasks, members, stray>>

TakeDeparture ==
  LET n == Head(queue).node IN
  /\ Takes("left")
  /\ ~config.controlled \/ n \in members
  /\ queue' = Tail(queue)
  /\ handler' = [NoWork EXCEPT !.phase = "recover", !.node = n, !.listed = HeldAt(n),
                               !.todo = pending[n]]
  /\ UNCHANGED <<config, up, events, catalog, tasks, members, stray>>

\* A node outside the current plan: its blocks stay listed.
IgnoreDeparture ==
  LET n == Head(queue).node IN
  /\ Takes("left")
  /\ config.controlled /\ n \notin members
  /\ queue' = Tail(queue)
  /\ stray' = stray \cup {<<b, n>> : b \in HeldAt(n)}
  /\ UNCHANGED <<config, up, events, catalog, tasks, handler, members>>

TakeJoin ==
  /\ Takes("joined")
  /\ queue' = Tail(queue)
  /\ handler' = IF config.controlled /\ Head(queue).node \notin members
                  THEN [NoWork EXCEPT !.phase = "prepare"] ELSE handler
  /\ UNCHANGED <<config, up, events, catalog, tasks, members, stray>>

\* A task that was pending at the departure is recovered, although its own coroutine
\* may still run it, may be retrying it, or may have finished it meanwhile.
RecoverTask(id) ==
  /\ handler.phase = "recover" /\ id \in handler.todo /\ run[Handler] = Idle
  /\ handler' = [handler EXCEPT !.todo = @ \ {id}]
  /\ IF id[2] < MaxRetries
       THEN StartRun(Handler, id[1], handler.node, id[2] + 1)
       ELSE UNCHANGED <<run, pending>>
  /\ UNCHANGED <<config, fleet, catalog, results, members, stray>>

-----------------------------------------------------------------------------
(* The migration policies *)

MigrationDecided(moves, drops) ==
  handler' = [handler EXCEPT !.phase = "move", !.moves = moves, !.drops = drops,
                             !.given = drops]

Recovered == handler.phase = "recover" /\ handler.todo = {} /\ run[Handler] = Idle

\* DefaultMigration sends every block to a location of the index, that of a node that
\* left before included.
DecideDefault ==
  LET used == (UNION {catalog[b] : b \in Blocks}) \ {handler.node}
      targets == IF used = {} THEN {Cloud} ELSE used
  IN
  /\ config.migration = "default" /\ Recovered
  /\ \E moves \in [handler.listed -> targets] : MigrationDecided(moves, {})
  /\ UNCHANGED <<config, fleet, catalog, tasks, members, stray>>

\* The blocks that _load_block still finds, and the nodes that may take them: which of
\* those it is depends on load and memory.
Loadable == {b \in handler.listed : handler.node \in catalog[b]}
Targets == up \ {handler.node}

\* Faulty variant: a target need not be alive.
DecidePriorityAnywhere ==
  /\ config.migration = "priority" /\ Recovered
  /\ \E kept \in SUBSET handler.listed :
       \E moves \in [kept -> Nodes \ {handler.node}] : MigrationDecided(moves, handler.listed \ kept)
  /\ UNCHANGED <<config, fleet, catalog, tasks, members, stray>>

\* PriorityMigration loads each block, sends it to a node alive that has memory, as
\* long as the time budget lasts, and drops the rest.
DecidePriority ==
  /\ config.migration = "priority" /\ Recovered
  /\ \E kept \in SUBSET Loadable : \E moves \in [kept -> Targets] :
       MigrationDecided(moves, handler.listed \ kept)
  /\ UNCHANGED <<config, fleet, catalog, tasks, members, stray>>

\* A move whose source is not there raises, and the block joins the drops.
Move(b) ==
  LET n == handler.node
      dst == handler.moves[b]
      rest == [c \in DOMAIN handler.moves \ {b} |-> handler.moves[c]]
  IN
  /\ handler.phase = "move" /\ b \in DOMAIN handler.moves
  /\ IF n \in catalog[b]
       THEN /\ catalog' = Moved(b, n, dst)
            /\ handler' = [handler EXCEPT !.moves = rest]
            /\ stray' = IF config.migration = "default" /\ dst \notin up \cup Departures \cup {Cloud}
                          THEN stray \cup {<<b, dst>>} ELSE stray
       ELSE /\ handler' = [handler EXCEPT !.moves = rest, !.drops = @ \cup {b}]
            /\ UNCHANGED <<catalog, stray>>
  /\ UNCHANGED <<config, fleet, tasks, members>>

Drop(b) ==
  /\ handler.phase = "move" /\ DOMAIN handler.moves = {} /\ b \in handler.drops
  /\ catalog' = Evicted(b)
  /\ handler' = [handler EXCEPT !.drops = @ \ {b}]
  /\ UNCHANGED <<config, fleet, tasks, members, stray>>

EndMigration ==
  /\ handler.phase = "move" /\ DOMAIN handler.moves = {} /\ handler.drops = {}
  /\ handler' = IF config.controlled THEN [NoWork EXCEPT !.phase = "prepare"] ELSE NoWork
  /\ UNCHANGED <<config, fleet, catalog, tasks, members, stray>>

-----------------------------------------------------------------------------
(* reconfigure_for_topology, as far as the catalog goes *)

\* A plan for nodes alive; owner[b] is the stage whose layers include those of b.
Prepare ==
  /\ handler.phase = "prepare"
  /\ \E plan \in (SUBSET up) \ {{}} : \E owner \in [Blocks -> plan \cup {None}] :
       handler' = [handler EXCEPT !.phase = "copy", !.plan = plan, !.owner = owner,
                                  !.listed = Listed, !.todo = Listed]
  /\ UNCHANGED <<config, fleet, catalog, tasks, members, stray>>

\* No node, or one that left while apply_plan awaited its runtime: the call raises and
\* the bus goes on with the next event.
PrepareFails ==
  /\ handler.phase = "prepare" /\ (up = {} \/ Departures # {})
  /\ handler' = NoWork
  /\ UNCHANGED <<config, fleet, catalog, tasks, members, stray>>

\* Faulty variant: a block is only copied from a node that is alive.
CopyReusableKVFromAlive(b) ==
  /\ handler.phase = "copy" /\ b \in handler.todo
  /\ catalog' = IF handler.owner[b] # None /\ (catalog[b] \cap up) \ {handler.owner[b]} # {}
                  THEN Saved(b, handler.owner[b]) ELSE catalog
  /\ handler' = [handler EXCEPT !.todo = @ \ {b}]
  /\ UNCHANGED <<config, fleet, tasks, members, stray>>

\* The copy is taken from the first location other than the owner's own.
CopyReusableKV(b) ==
  LET owner == handler.owner[b] IN
  /\ handler.phase = "copy" /\ b \in handler.todo
  /\ IF owner # None /\ catalog[b] \ {owner} # {}
       THEN catalog' = Saved(b, owner)
       ELSE UNCHANGED catalog
  /\ handler' = [handler EXCEPT !.todo = @ \ {b}]
  /\ UNCHANGED <<config, fleet, tasks, members, stray>>

Commit ==
  /\ handler.phase = "copy" /\ handler.todo = {}
  /\ members' = handler.plan
  /\ handler' = NoWork
  /\ UNCHANGED <<config, fleet, catalog, tasks, stray>>

HandlerStep ==
  \/ TakeDeparture
  \/ IgnoreDeparture
  \/ TakeJoin
  \/ \E id \in Ids : RecoverTask(id)
  \/ DecideDefault
  \/ DecidePriority
  \/ \E b \in Blocks : Move(b)
  \/ \E b \in Blocks : Drop(b)
  \/ EndMigration
  \/ Prepare
  \/ PrepareFails
  \/ \E b \in Blocks : CopyReusableKV(b)
  \/ Commit

FleetStep == \E n \in Nodes : Unregister(n) \/ Register(n) \/ HeartbeatWithState(n)

Next ==
  \/ FleetStep
  \/ \E r \in Requests : HandleRequest(r)
  \/ \E x \in Runners : RunnerStep(x)
  \/ HandlerStep

Spec == Init /\ [][Next]_vars

\* Coroutines whose awaits end are resumed; engine calls end, by result or exception.
FairSpec == Spec /\ WF_vars(HandlerStep) /\ \A x \in Runners : WF_vars(RunnerStep(x))

-----------------------------------------------------------------------------
(* Properties *)

KVTypeOK ==
  /\ catalog \in [Blocks -> SUBSET Places]
  /\ up \subseteq Nodes /\ members \subseteq Nodes
  /\ \A x \in Runners : run[x].tries \in 0..MaxRetries /\ run[x].req \in Requests \cup {None}
  /\ \A n \in Nodes : pending[n] \subseteq Ids
  /\ handler.phase \in {"idle", "recover", "move", "prepare", "copy"}
  /\ results \in [Requests -> {"none", "ok", "error"}]

\* The handler that will still clear the entry of b at n.
Clearing(b, n) ==
  /\ handler.node = n
  /\ \/ handler.phase = "recover" /\ b \in handler.listed
     \/ handler.phase = "move" /\ b \in DOMAIN handler.moves \cup handler.drops

\* A block that the catalog still lists on a departed node will be migrated: the
\* departure is queued or being handled.  The exceptions are saves that come after
\* the list was taken, targets of DefaultMigration, and departures of nodes outside
\* the plan.
StrandedIsPending ==
  \A n \in Nodes \ up : \A b \in HeldAt(n) :
    n \in Departures \/ Clearing(b, n) \/ <<b, n>> \in stray

\* Only a block that the migration plan gave up vanishes from the catalog: no move
\* fails by what happened during the recoveries, and DefaultMigration loses nothing.
OnlyPlannedLosses ==
  [][\A b \in Blocks : catalog[b] # {} /\ catalog'[b] = {} =>
       b \in handler.given /\ config.migration = "priority"]_vars

\* When a plan comes into force, each block lies with the stage that has its layers.
CopiesReachOwners ==
  handler.phase = "copy" /\ handler.todo = {} =>
    \A b \in handler.listed :
      handler.owner[b] # None => handler.owner[b] \in catalog[b]

\* Whatever fails, every task ends and every topology event is handled.
EverythingSettles ==
  <>[](handler.phase = "idle" /\ queue = <<>> /\ \A x \in Runners : run[x] = Idle)
=============================================================================
