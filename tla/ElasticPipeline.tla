--------------------------- MODULE ElasticPipeline ---------------------------
(***************************************************************************)
(* The control loop around the coordinator: NodeManager publishes joins    *)
(* and departures on the EventBus, the bus dispatches one event at a time, *)
(* and the handlers of TaskScheduler ask the coordinator for a plan over   *)
(* the nodes that are alive.  While a handler awaits, further events queue *)
(* up; an exception of a handler is logged, the event is gone and nobody   *)
(* retries it.                                                             *)
(*                                                                         *)
(* Module PipelineReconfig supplies the coordinator, with the exceptions   *)
(* of apply_plan.  apply_plan is called by the handlers only (the first    *)
(* plan is applied before the bus starts, as the experiments and tests     *)
(* do), runtimes are those that the coordinator was made with, and drains  *)
(* are left out: they do not touch what is modelled here.                  *)
(***************************************************************************)
EXTENDS PipelineReconfig, Sequences, FiniteSets

CONSTANTS
  PlanOver,    \* the policy, CapabilityReparallelization: PlanOver[S] is its
               \* plan for the set S of nodes alive
  MaxEvents,   \* bound: calls of register and unregister
  MayRaise     \* whether handlers may raise: without a runtime for a node, memory
               \* for a stage, or a KV store that answers

\* For nodes of comparable capability, no more than layers, each gets a stage.
ASSUME PlanOverAssumption ==
  /\ PlanOver \in [(SUBSET Nodes) \ {{}} -> CompletePlans]
  /\ \A S \in (SUBSET Nodes) \ {{}} : Members(PlanOver[S]) = S
ASSUME MaxEventsAssumption == MaxEvents \in Nat
ASSUME MayRaiseAssumption == MayRaise \in BOOLEAN

VARIABLES
  known,       \* keys of NodeManager._nodes
  queue,       \* EventBus._queue, the topology events only
  handling,    \* the event whose handler is running
  events,      \* history: number of register and unregister calls
  due,         \* history: nodes whose change the handler at work is to bring into
               \* the plan: the one of its event, and those overlooked before
  overlooked   \* history: nodes whose last change no handler has to act on any
               \* more: revived by a heartbeat, left in the plan because all were
               \* gone, or due when a handler raised

loopVars == <<known, queue, handling, events, due, overlooked>>
elasticVars == <<vars, loopVars>>

Kinds == {"joined", "left"}
NoEvent == [kind |-> "none"]
Event(k, n) == [kind |-> k, node |-> n]
TopologyEvents == {Event(k, n) : k \in Kinds, n \in Nodes}

ElasticTypeOK ==
  /\ TypeOK
  /\ known \subseteq Nodes
  /\ queue \in Seq(TopologyEvents)
  /\ handling \in TopologyEvents \cup {NoEvent}
  /\ events \in 0..MaxEvents
  /\ due \subseteq Nodes
  /\ overlooked \subseteq Nodes

\* The state after register of some nodes and a first apply_plan for them, with
\* runtimes for these nodes and perhaps for others.
ElasticInit ==
  \E S \in (SUBSET Nodes) \ {{}}, R \in SUBSET Nodes :
    LET first == [epoch |-> 1, plan |-> PlanOver[S]] IN
    /\ S \subseteq R
    /\ MayRaise \/ R = Nodes
    /\ alive = S
    /\ known = S
    /\ runtimes = R
    /\ assigned = [n \in Nodes |-> [e \in Epochs |->
                     IF e = 1 THEN first.plan[n] ELSE NoRange]]
    /\ active = [n \in Nodes |-> IF n \in S THEN 1 ELSE 0]
    /\ current = first
    /\ policy = first
    /\ ledger = first.plan
    /\ call = Idle
    /\ drain = NoDrain
    /\ queue = <<>>
    /\ handling = NoEvent
    /\ events = 0
    /\ due = {}
    /\ overlooked = {}

-----------------------------------------------------------------------------
(* NodeManager *)

\* Another coroutine may run: the event loop is not inside apply_plan, or
\* apply_plan is suspended.  The runtimes of backends/ and the model manager
\* return without suspending, so only the KV copy lets others run.
OthersRun == call.phase \in {"idle", "copy"}

\* Faulty variant: the event published is not the one subscribed to.
RegisterAsHeartbeat(n) ==
  /\ OthersRun
  /\ events < MaxEvents
  /\ known' = known \cup {n}
  /\ alive' = alive \cup {n}
  /\ queue' = Append(queue, Event("heartbeat", n))
  /\ events' = events + 1
  /\ due' = due \ {n}
  /\ overlooked' = overlooked \ {n}
  /\ UNCHANGED <<runtimes, assigned, active, current, policy, ledger, call, drain, handling>>

Register(n) ==
  /\ OthersRun
  /\ events < MaxEvents
  /\ known' = known \cup {n}
  /\ alive' = alive \cup {n}
  /\ queue' = Append(queue, Event("joined", n))
  /\ events' = events + 1
  /\ due' = due \ {n}
  /\ overlooked' = overlooked \ {n}
  /\ UNCHANGED <<runtimes, assigned, active, current, policy, ledger, call, drain, handling>>

\* Faulty variant: the departure is not published.
UnregisterSilent(n) ==
  /\ OthersRun
  /\ events < MaxEvents
  /\ n \in known
  /\ alive' = alive \ {n}
  /\ events' = events + 1
  /\ due' = due \ {n}
  /\ overlooked' = overlooked \ {n}
  /\ UNCHANGED <<runtimes, assigned, active, current, policy, ledger, call, drain,
                 known, queue, handling>>

\* Also called by the stale monitor; it publishes for a dead node as well.
Unregister(n) ==
  /\ OthersRun
  /\ events < MaxEvents
  /\ n \in known
  /\ alive' = alive \ {n}
  /\ queue' = Append(queue, Event("left", n))
  /\ events' = events + 1
  /\ due' = due \ {n}
  /\ overlooked' = overlooked \ {n}
  /\ UNCHANGED <<runtimes, assigned, active, current, policy, ledger, call, drain,
                 known, handling>>

\* update_heartbeat sets alive; the HEARTBEAT event has no subscriber.
Heartbeat(n) ==
  /\ OthersRun
  /\ n \in known \ alive
  /\ alive' = alive \cup {n}
  /\ overlooked' = overlooked \cup {n}
  /\ UNCHANGED <<runtimes, assigned, active, current, policy, ledger, call, drain,
                 known, queue, handling, events, due>>

-----------------------------------------------------------------------------
(* EventBus and the handlers of TaskScheduler *)

InCurrentPlan(n) == current.epoch # 0 /\ n \in Members(current.plan)

\* Faulty variant: a join is ignored whenever there is a plan.
DispatchIgnoringJoins ==
  LET ev == Head(queue)
      ignored == IF ev.kind = "joined" THEN current.epoch # 0
                 ELSE current.epoch # 0 /\ ~InCurrentPlan(ev.node)
  IN
  /\ handling = NoEvent
  /\ queue # <<>>
  /\ queue' = Tail(queue)
  /\ handling' = IF ignored THEN NoEvent ELSE ev
  /\ due' = IF ignored THEN {} ELSE {ev.node}
  /\ UNCHANGED <<vars, known, events, overlooked>>

\* The bus takes the next event.  _on_node_joined ignores a node that is in the
\* current plan, _on_node_left one that is not.
Dispatch ==
  LET ev == Head(queue)
      ignored == IF ev.kind = "joined" THEN InCurrentPlan(ev.node)
                 ELSE current.epoch # 0 /\ ~InCurrentPlan(ev.node)
  IN
  /\ handling = NoEvent
  /\ queue # <<>>
  /\ queue' = Tail(queue)
  /\ handling' = IF ignored THEN NoEvent ELSE ev
  /\ due' = IF ignored THEN {} ELSE {ev.node}
  /\ UNCHANGED <<vars, known, events, overlooked>>

\* reconfigure_for_topology: the plan is computed from the nodes alive by now
\* (a departure's recoveries and migrations have been awaited before).
Reconfigure ==
  /\ handling # NoEvent
  /\ alive # {}
  /\ StartApply(PlanOver[alive])
  /\ due' = due \cup overlooked
  /\ overlooked' = {}
  /\ UNCHANGED <<known, queue, handling, events>>

\* Without nodes alive the policy returns the ledger's placements as they are,
\* whose nodes are dead, and the validation raises into _dispatch.
NothingToReconfigure ==
  /\ handling # NoEvent
  /\ call.phase = "idle"
  /\ alive = {}
  /\ handling' = NoEvent
  /\ due' = {}
  /\ overlooked' = Members(current.plan)
  /\ UNCHANGED <<vars, known, queue, events>>

CallStep ==
  /\ \/ \E n \in Nodes : Prepare(n) \/ Activate(n)
     \/ UpdateLedger
     \/ CopyReusableKV
  /\ UNCHANGED loopVars

\* apply_plan returns, and with it the handler.
CallEnds ==
  /\ Commit
  /\ handling' = NoEvent
  /\ due' = {}
  /\ UNCHANGED <<known, queue, events, overlooked>>

\* _dispatch logs the exception; the event is not put back.
EventDropped ==
  /\ handling' = NoEvent
  /\ due' = {}
  /\ overlooked' = overlooked \cup due
  /\ UNCHANGED <<known, queue, events>>

\* A member of the plan has no runtime: apply_plan comes to it and raises.  That a
\* member has died (LedgerRefused) cannot be: nobody runs since the validation.
CallRefused == PrepareRefused /\ EventDropped

\* A member lacks the memory for its stage, a stage does not load, or the KV store
\* raises in the copy.
CallRaises == MayRaise /\ CallFails /\ EventDropped

\* _on_node_left awaits the KV store, recoveries and the migration before it asks
\* for a plan; _on_node_joined does nothing before.
HandlerRaises ==
  /\ MayRaise
  /\ handling # NoEvent
  /\ handling.kind = "left"
  /\ call.phase = "idle"
  /\ EventDropped
  /\ UNCHANGED vars

ElasticNext ==
  \/ \E n \in Nodes : Register(n)
  \/ \E n \in Nodes : Unregister(n)
  \/ \E n \in Nodes : Heartbeat(n)
  \/ Dispatch
  \/ Reconfigure
  \/ NothingToReconfigure
  \/ CallStep
  \/ CallEnds
  \/ CallRefused
  \/ CallRaises
  \/ HandlerRaises

ElasticSpec == ElasticInit /\ [][ElasticNext]_elasticVars

\* The bus task and the handler it awaits keep running; they need not raise, but
\* where a runtime is missing.
FairElasticSpec ==
  /\ ElasticSpec
  /\ WF_elasticVars(Dispatch)
  /\ WF_elasticVars(Reconfigure)
  /\ WF_elasticVars(NothingToReconfigure)
  /\ WF_elasticVars(CallStep)
  /\ WF_elasticVars(CallEnds)
  /\ WF_elasticVars(CallRefused)

-----------------------------------------------------------------------------
(* Properties *)

\* Events in the queue that a handler will not ignore as things stand.
Effective(ev) ==
  IF ev.kind = "joined" THEN ~InCurrentPlan(ev.node) ELSE InCurrentPlan(ev.node)

Fits(n) == n \in Members(policy.plan) <=> n \in alive

\* Where the serving plan and the topology differ on a node, the handler at work is
\* to change that, or an event of this very node is queued that will not be ignored.
\* The handlers' checks of current_plan race with the events behind them in the
\* queue, so this is where a departure or a join could get lost.  Left out are the
\* nodes that the code overlooks (see PlanFollowsTopology for the first kind): the
\* exception of a handler loses the event in hand and puts back those overlooked
\* before, but no other join or departure.
DivergenceIsPending ==
  \A n \in Nodes \ overlooked :
    \/ Fits(n)
    \/ n \in due
    \/ \E i \in 1..Len(queue) : queue[i].node = n /\ Effective(queue[i])

\* Once churn ends, every join and every departure but the overlooked ones is
\* reflected in the serving plan for good.  It is not when its handler raised and no
\* handler has succeeded since: nobody retries (event_bus.py:71).  The next handler
\* that succeeds makes up for it.
JoinsAndDeparturesTakeEffect == <>[](\A n \in Nodes \ overlooked : Fits(n))

\* What the node manager's documentation says: joins and departures trigger a new
\* placement, so once churn ends the plan is over exactly the nodes alive.
PlanFollowsTopology == <>[](alive # {} => Members(policy.plan) = alive)
=============================================================================
