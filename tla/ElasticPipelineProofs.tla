------------------------ MODULE ElasticPipelineProofs ------------------------
(***************************************************************************)
(* The control loop drives the coordinator by steps that the coordinator   *)
(* allows, so what holds of it holds in the loop too; and no join or       *)
(* departure gets lost between the topology and the plan in force, for     *)
(* every set of nodes, number of layers, policy and length of the queue.   *)
(*                                                                         *)
(* Fits is not inductive: a plan is chosen over the nodes alive when its   *)
(* handler starts, and is in force only when its call ends, unless it      *)
(* raises.  The invariant below follows both plans: every node that the    *)
(* plan in force does not fit is due or has an event in the queue which    *)
(* will replace that plan, and so for the plan that is being applied.      *)
(***************************************************************************)
EXTENDS ElasticPipeline, PipelineReconfigProofs

\* An event of n that no handler would ignore if p were in force.
Awaits(n, p) ==
  \E i \in 1..Len(queue) :
    /\ queue[i].node = n
    /\ queue[i].kind = (IF n \in Members(p) THEN "left" ELSE "joined")

\* A plan and the nodes alive agree on n, or an event of n is still to be handled.
Followed(n, p) == (n \in Members(p) <=> n \in alive) \/ Awaits(n, p)

\* The plan in force follows the nodes but for those due, the one being applied
\* follows these too.
LoopConsistent ==
  /\ current.epoch # 0
  /\ handling = NoEvent => call.phase = "idle" /\ due = {}
  /\ \A n \in Nodes \ overlooked : n \in due \/ Followed(n, current.plan)
  /\ call.phase # "idle" => \A n \in Nodes \ overlooked : Followed(n, call.plan)

ElasticInv == IInv /\ ElasticTypeOK /\ LoopConsistent

-----------------------------------------------------------------------------
(* The start *)

\* The plan of the policy is complete and is over the nodes that it was asked for.
LEMMA PolicyPlans ==
  ASSUME NEW S \in SUBSET Nodes, S # {}
  PROVE  /\ PlanOver[S] \in Plans /\ CoversModel(PlanOver[S])
         /\ Members(PlanOver[S]) = S
         /\ \A n \in S : PlanOver[S][n] # NoRange
         /\ \A n \in Nodes \ S : PlanOver[S][n] = NoRange
<1>1. PlanOver[S] \in CompletePlans /\ Members(PlanOver[S]) = S
  BY PlanOverAssumption
<1>2. QED
  BY <1>1 DEF CompletePlans, Members

\* A first plan that has been applied satisfies the coordinator's invariant.
LEMMA ElasticInitIInv == ElasticInit => IInv
<1> SUFFICES ASSUME ElasticInit PROVE IInv
  OBVIOUS
<1>1. PICK S \in (SUBSET Nodes) \ {{}}, R \in SUBSET Nodes :
        /\ alive = S
        /\ runtimes = R
        /\ assigned = [n \in Nodes |-> [e \in Epochs |->
                         IF e = 1 THEN PlanOver[S][n] ELSE NoRange]]
        /\ active = [n \in Nodes |-> IF n \in S THEN 1 ELSE 0]
        /\ current = [epoch |-> 1, plan |-> PlanOver[S]]
        /\ policy = [epoch |-> 1, plan |-> PlanOver[S]]
        /\ ledger = PlanOver[S]
        /\ call = Idle
        /\ drain = NoDrain
  BY DEF ElasticInit
<1> DEFINE p == PlanOver[S]
<1>2. /\ p \in Plans /\ CoversModel(p) /\ Members(p) = S
      /\ \A n \in S : p[n] # NoRange
  BY PolicyPlans
<1> HIDE DEF p
<1>3. 1 \in Epochs /\ 1 \in 0..MaxEpoch /\ 0 \in 0..MaxEpoch
  BY MaxEpochAssumption DEF Epochs
<1>4. TypeOK
  <2>1. assigned \in [Nodes -> [Epochs -> Ranges \cup {NoRange}]]
    BY <1>1, <1>2 DEF Plans, p
  <2>2. active \in [Nodes -> 0..MaxEpoch]
    BY <1>1, <1>3
  <2>3. /\ current \in [epoch : 0..MaxEpoch, plan : Plans]
        /\ policy \in [epoch : 0..MaxEpoch, plan : Plans]
    BY <1>1, <1>2, <1>3 DEF p
  <2>4. /\ call \in [phase : Phases, epoch : 0..MaxEpoch, plan : Plans, done : SUBSET Nodes]
        /\ drain \in [epoch : 0..MaxEpoch, todo : SUBSET Nodes]
    BY <1>1, <1>3, NoPlanFacts DEF Idle, NoDrain, Phases
  <2>5. QED
    BY <1>1, <1>2, <2>1, <2>2, <2>3, <2>4 DEF TypeOK, p
<1>5. CallConsistent /\ ActivationNeverRefused
  BY <1>1 DEF CallConsistent, ActivationNeverRefused, Idle
<1>6. ServingConsistent
  BY <1>1, <1>2 DEF ServingConsistent, NoDrain, p
<1>7. ServingPlanReady
  <2>1. \A n \in S : assigned[n][1] = p[n] /\ active[n] = 1
    BY <1>1, <1>3 DEF p
  <2>2. QED
    BY <1>1, <1>2, <2>1 DEF ServingPlanReady, p
<1>8. ActiveStageHeld
  <2> SUFFICES ASSUME NEW n \in Nodes, active[n] # 0 PROVE assigned[n][active[n]] # NoRange
    BY DEF ActiveStageHeld
  <2>1. n \in S /\ active[n] = 1 /\ assigned[n][1] = p[n]
    BY <1>1, <1>3 DEF p
  <2>2. QED
    BY <1>2, <2>1
<1>9. QED
  BY <1>4, <1>5, <1>6, <1>7, <1>8 DEF IInv

\* At the start, the plan is over the nodes alive.
LEMMA ElasticInitInv == ElasticInit => ElasticInv
<1> SUFFICES ASSUME ElasticInit PROVE ElasticInv
  OBVIOUS
<1>1. IInv
  BY ElasticInitIInv
<1>2. PICK S \in (SUBSET Nodes) \ {{}} :
        /\ alive = S /\ known = S
        /\ current = [epoch |-> 1, plan |-> PlanOver[S]]
        /\ call = Idle
        /\ queue = <<>> /\ handling = NoEvent /\ events = 0
        /\ due = {} /\ overlooked = {}
  BY DEF ElasticInit
<1>3. Members(PlanOver[S]) = S
  BY PolicyPlans
<1>4. ElasticTypeOK
  BY <1>1, <1>2, MaxEventsAssumption DEF ElasticTypeOK, IInv
<1>5. LoopConsistent
  BY <1>2, <1>3 DEF LoopConsistent, Followed, Idle
<1>6. QED
  BY <1>1, <1>4, <1>5 DEF ElasticInv

-----------------------------------------------------------------------------
(* The loop and the coordinator *)

\* A node that is registered or reported is alive for the coordinator, one that is
\* unregistered is not; no other part of it changes.
LEMMA NodeStepCoordinator ==
  ASSUME NEW n \in Nodes, Register(n) \/ Unregister(n) \/ Heartbeat(n), alive \subseteq Nodes
  PROVE  /\ NodeReturns(n) \/ NodeLeaves(n) \/ UNCHANGED vars
         /\ UNCHANGED <<current, policy, call>>
<1>1. CASE Register(n)
  <2>1. CASE n \in alive
    <3>1. alive' = alive
      BY <1>1, <2>1 DEF Register
    <3>2. QED
      BY <1>1, <3>1 DEF Register, vars
  <2>2. CASE n \notin alive
    BY <1>1, <2>2 DEF Register, NodeReturns
  <2>3. QED
    BY <2>1, <2>2
<1>2. CASE Unregister(n)
  <2>1. CASE n \in alive
    BY <1>2, <2>1 DEF Unregister, NodeLeaves
  <2>2. CASE n \notin alive
    <3>1. alive' = alive
      BY <1>2, <2>2 DEF Unregister
    <3>2. QED
      BY <1>2, <3>1 DEF Unregister, vars
  <2>3. QED
    BY <2>1, <2>2
<1>3. CASE Heartbeat(n)
  BY <1>3 DEF Heartbeat, NodeReturns
<1>4. QED
  BY <1>1, <1>2, <1>3

\* The bus, the handlers and the node manager take only steps of the coordinator
\* and its environment.
LEMMA LoopStepCoordinator == ElasticInv /\ [ElasticNext]_elasticVars => [Next]_vars
<1> SUFFICES ASSUME ElasticInv, [ElasticNext]_elasticVars PROVE [Next]_vars
  OBVIOUS
<1>0. alive \subseteq Nodes
  BY DEF ElasticInv, IInv, TypeOK
<1>1. ASSUME NEW n \in Nodes, Register(n) \/ Unregister(n) \/ Heartbeat(n) PROVE [Next]_vars
  BY <1>0, <1>1, NodeStepCoordinator DEF Next
<1>2. CASE Dispatch \/ NothingToReconfigure \/ HandlerRaises \/ UNCHANGED elasticVars
  BY <1>2 DEF Dispatch, NothingToReconfigure, HandlerRaises, elasticVars
<1>3. CASE Reconfigure
  <2>1. alive # {} /\ StartApply(PlanOver[alive])
    BY <1>3 DEF Reconfigure
  <2>2. PlanOver[alive] \in CompletePlans
    BY <1>0, <2>1, PolicyPlans DEF CompletePlans
  <2>3. QED
    BY <2>1, <2>2 DEF Next
<1>4. CASE CallStep
  BY <1>4 DEF CallStep, Next
<1>5. CASE CallEnds
  BY <1>5 DEF CallEnds, Next
<1>6. CASE CallRefused \/ CallRaises
  BY <1>6 DEF CallRefused, CallRaises, Next
<1>7. QED
  BY <1>1, <1>2, <1>3, <1>4, <1>5, <1>6 DEF ElasticNext

-----------------------------------------------------------------------------
(* The loop's own variables keep their types *)

LEMMA LoopTypes ==
  ASSUME ElasticInv, [ElasticNext]_elasticVars
  PROVE  ElasticTypeOK'
<1>0. /\ TypeOK' /\ alive \subseteq Nodes
      /\ known \subseteq Nodes /\ queue \in Seq(TopologyEvents)
      /\ handling \in TopologyEvents \cup {NoEvent}
      /\ events \in 0..MaxEvents /\ due \subseteq Nodes /\ overlooked \subseteq Nodes
      /\ policy = current /\ current.plan \in Plans
  <2>1. IInv'
    BY LoopStepCoordinator, NextIInv DEF ElasticInv
  <2>2. QED
    BY <2>1 DEF ElasticInv, ElasticTypeOK, IInv, TypeOK, ServingConsistent
<1>1. ASSUME NEW n \in Nodes, Register(n) \/ Unregister(n) PROVE ElasticTypeOK'
  <2>1. Event("joined", n) \in TopologyEvents /\ Event("left", n) \in TopologyEvents
    BY DEF TopologyEvents, Kinds
  <2>2. queue' \in Seq(TopologyEvents)
    BY <1>0, <1>1, <2>1 DEF Register, Unregister
  <2>3. events' \in 0..MaxEvents
    BY <1>0, <1>1, MaxEventsAssumption DEF Register, Unregister
  <2>4. /\ known' \subseteq Nodes /\ handling' = handling
        /\ due' \subseteq Nodes /\ overlooked' \subseteq Nodes
    BY <1>0, <1>1 DEF Register, Unregister
  <2>5. QED
    BY <1>0, <2>2, <2>3, <2>4 DEF ElasticTypeOK
<1>2. ASSUME NEW n \in Nodes, Heartbeat(n) PROVE ElasticTypeOK'
  BY <1>0, <1>2 DEF Heartbeat, ElasticTypeOK
<1>3. CASE Dispatch
  <2>1. queue # <<>> /\ Head(queue) \in TopologyEvents /\ Tail(queue) \in Seq(TopologyEvents)
    BY <1>0, <1>3 DEF Dispatch
  <2>2. Head(queue).node \in Nodes
    BY <2>1 DEF TopologyEvents, Event
  <2>3. due' \subseteq Nodes
    BY <1>3, <2>2 DEF Dispatch
  <2>4. QED
    BY <1>0, <1>3, <2>1, <2>3 DEF Dispatch, ElasticTypeOK
<1>4. CASE Reconfigure
  BY <1>0, <1>4 DEF Reconfigure, ElasticTypeOK
<1>5. CASE NothingToReconfigure
  <2>1. Members(current.plan) \subseteq Nodes
    BY DEF Members
  <2>2. QED
    BY <1>0, <1>5, <2>1 DEF NothingToReconfigure, ElasticTypeOK
<1>6. CASE CallStep
  BY <1>0, <1>6 DEF CallStep, loopVars, ElasticTypeOK
<1>7. CASE CallEnds
  BY <1>0, <1>7 DEF CallEnds, ElasticTypeOK
<1>8. CASE CallRefused \/ CallRaises \/ HandlerRaises
  BY <1>0, <1>8 DEF CallRefused, CallRaises, HandlerRaises, EventDropped, ElasticTypeOK
<1>9. CASE UNCHANGED elasticVars
  BY <1>0, <1>9 DEF elasticVars, loopVars, ElasticTypeOK
<1>10. QED
  BY <1>1, <1>2, <1>3, <1>4, <1>5, <1>6, <1>7, <1>8, <1>9 DEF ElasticNext

-----------------------------------------------------------------------------
(* No change of the topology gets lost *)

\* Appending an event keeps those that are awaited, and adds its own.
LEMMA AppendAwaits ==
  ASSUME queue \in Seq(TopologyEvents), NEW ev \in TopologyEvents, queue' = Append(queue, ev),
         NEW p, NEW n
  PROVE  /\ Awaits(n, p) => Awaits(n, p)'
         /\ ev.node = n /\ ev.kind = (IF n \in Members(p) THEN "left" ELSE "joined") => Awaits(n, p)'
<1>1. /\ Len(queue') = Len(queue) + 1 /\ Len(queue) \in Nat
      /\ \A i \in 1..Len(queue) : queue'[i] = queue[i]
      /\ queue'[Len(queue) + 1] = ev
  OBVIOUS
<1>2. 1..Len(queue) \subseteq 1..Len(queue') /\ Len(queue) + 1 \in 1..Len(queue')
  BY <1>1
<1>3. Members(p)' = Members(p)
  BY DEF Members
<1>4. QED
  BY <1>1, <1>2 DEF Awaits, Members

\* A registration or departure leaves its own event behind where it changes the fit.
LEMMA NodeStepFits ==
  ASSUME ElasticInv, NEW n \in Nodes, Register(n) \/ Unregister(n) \/ Heartbeat(n),
         NEW p, NEW m \in Nodes, m = n \/ Followed(m, p), ~(m = n /\ Heartbeat(n))
  PROVE  Followed(m, p)'
<1>1. queue \in Seq(TopologyEvents) /\ Members(p)' = Members(p)
  BY DEF ElasticInv, ElasticTypeOK, Members
<1>2. m # n => (m \in alive <=> m \in alive')
  BY DEF Register, Unregister, Heartbeat
<1>3. CASE Heartbeat(n)
  <2>1. m # n /\ queue' = queue
    BY <1>3 DEF Heartbeat
  <2>2. QED
    BY <1>1, <1>2, <2>1 DEF Followed, Awaits
<1>4. ASSUME NEW ev \in TopologyEvents, queue' = Append(queue, ev), ev.node = n,
             m = n => \/ m \in Members(p) <=> m \in alive'
                      \/ ev.kind = (IF n \in Members(p) THEN "left" ELSE "joined")
      PROVE  Followed(m, p)'
  <2>1. /\ Awaits(m, p) => Awaits(m, p)'
        /\ m = n /\ ev.kind = (IF m \in Members(p) THEN "left" ELSE "joined") => Awaits(m, p)'
    BY <1>1, <1>4, AppendAwaits
  <2>2. QED
    BY <1>1, <1>2, <1>4, <2>1 DEF Followed
<1>5. CASE Register(n)
  <2>1. Event("joined", n) \in TopologyEvents /\ Event("joined", n).node = n /\ Event("joined", n).kind = "joined"
    BY DEF TopologyEvents, Kinds, Event
  <2>2. queue' = Append(queue, Event("joined", n)) /\ n \in alive'
    BY <1>5 DEF Register
  <2>3. QED
    BY <1>4, <2>1, <2>2
<1>6. CASE Unregister(n)
  <2>1. Event("left", n) \in TopologyEvents /\ Event("left", n).node = n /\ Event("left", n).kind = "left"
    BY DEF TopologyEvents, Kinds, Event
  <2>2. queue' = Append(queue, Event("left", n)) /\ n \notin alive'
    BY <1>6, <1>1 DEF Unregister
  <2>3. QED
    BY <1>4, <2>1, <2>2
<1>7. QED
  BY <1>3, <1>5, <1>6

LEMMA NodeStepFollowed ==
  ASSUME ElasticInv, NEW n \in Nodes, Register(n) \/ Unregister(n) \/ Heartbeat(n)
  PROVE  LoopConsistent'
<1>1. /\ UNCHANGED <<current, call>> /\ handling' = handling
      /\ due' \subseteq due /\ LoopConsistent
  BY DEF ElasticInv, Register, Unregister, Heartbeat
<1>2. ASSUME NEW m \in Nodes \ overlooked'
      PROVE  /\ m # n => m \notin overlooked /\ (m \in due <=> m \in due')
             /\ ~(m = n /\ Heartbeat(n))
  BY <1>2 DEF Register, Unregister, Heartbeat
<1>3. ASSUME NEW m \in Nodes \ overlooked', m \notin due'
      PROVE  Followed(m, current.plan)'
  <2>1. m = n \/ Followed(m, current.plan)
    BY <1>1, <1>2, <1>3 DEF LoopConsistent
  <2>2. PICK p : p = current.plan
    OBVIOUS
  <2>3. Followed(m, p)'
    BY <1>2, <1>3, <2>1, <2>2, NodeStepFits
  <2>4. QED
    BY <1>1, <2>2, <2>3 DEF Followed, Awaits, Members
<1>4. ASSUME NEW m \in Nodes \ overlooked', call.phase # "idle"
      PROVE  Followed(m, call.plan)'
  <2>1. m = n \/ Followed(m, call.plan)
    BY <1>1, <1>2, <1>4 DEF LoopConsistent
  <2>2. PICK p : p = call.plan
    OBVIOUS
  <2>3. Followed(m, p)'
    BY <1>2, <1>4, <2>1, <2>2, NodeStepFits
  <2>4. QED
    BY <1>1, <2>2, <2>3 DEF Followed, Awaits, Members
<1>5. due = {} => due' = {}
  BY <1>1
<1>6. QED
  BY <1>1, <1>3, <1>4, <1>5 DEF LoopConsistent

\* The event taken from the queue is one that nobody waits for, or its node is due.
LEMMA DispatchFollowed == ElasticInv /\ Dispatch => LoopConsistent'
<1> SUFFICES ASSUME ElasticInv, Dispatch PROVE LoopConsistent'
  OBVIOUS
<1> DEFINE ev == Head(queue)
           ignored == IF ev.kind = "joined" THEN InCurrentPlan(ev.node)
                      ELSE current.epoch # 0 /\ ~InCurrentPlan(ev.node)
<1>1. /\ handling = NoEvent /\ queue # <<>> /\ queue' = Tail(queue)
      /\ handling' = (IF ignored THEN NoEvent ELSE ev)
      /\ due' = (IF ignored THEN {} ELSE {ev.node})
      /\ UNCHANGED <<current, call, alive, overlooked>>
      /\ current.epoch # 0 /\ call.phase = "idle"
      /\ queue \in Seq(TopologyEvents)
      /\ \A n \in Nodes \ overlooked : Followed(n, current.plan)
  BY DEF ElasticInv, ElasticTypeOK, LoopConsistent, Dispatch, vars
<1>2. ev \in TopologyEvents /\ ev # NoEvent
  <2>1. ev \in TopologyEvents
    BY <1>1
  <2> HIDE DEF ev
  <2>2. PICK k \in Kinds, n \in Nodes : ev = [kind |-> k, node |-> n]
    BY <2>1 DEF TopologyEvents, Event
  <2>3. ev.kind \in {"joined", "left"}
    BY <2>2 DEF Kinds
  <2>4. NoEvent.kind = "none"
    BY DEF NoEvent
  <2>5. QED
    BY <2>1, <2>3, <2>4
<1>3. handling' = NoEvent => due' = {}
  BY <1>1, <1>2
<1>4. ASSUME NEW n \in Nodes \ overlooked, n \notin due' PROVE Followed(n, current.plan)'
  <2>1. CASE n \in Members(current.plan) <=> n \in alive
    BY <1>1, <2>1 DEF Followed, Members
  <2>2. CASE Awaits(n, current.plan)
    <3>1. PICK i \in 1..Len(queue) :
            /\ queue[i].node = n
            /\ queue[i].kind = (IF n \in Members(current.plan) THEN "left" ELSE "joined")
      BY <2>2 DEF Awaits
    <3>2. i # 1
      BY <1>1, <1>4, <3>1 DEF InCurrentPlan
    <3>3. /\ i - 1 \in 1..Len(queue') /\ queue'[i - 1] = queue[i]
      BY <1>1, <3>2
    <3>4. Awaits(n, current.plan)'
      BY <1>1, <3>1, <3>3 DEF Awaits, Members
    <3>5. QED
      BY <3>4 DEF Followed
  <2>3. QED
    BY <1>1, <1>4, <2>1, <2>2 DEF Followed
<1>5. QED
  BY <1>1, <1>3, <1>4 DEF LoopConsistent

\* The plan asked for fits every node; those that it is to repair are due until then.
LEMMA ReconfigureFollowed == ElasticInv /\ Reconfigure => LoopConsistent'
<1> SUFFICES ASSUME ElasticInv, Reconfigure PROVE LoopConsistent'
  OBVIOUS
<1>1. /\ alive # {} /\ alive \subseteq Nodes
      /\ call'.phase = "prepare" /\ call'.plan = PlanOver[alive]
      /\ UNCHANGED <<current, alive, handling, queue>> /\ handling # NoEvent
      /\ due' = due \cup overlooked /\ overlooked' = {}
      /\ current.epoch # 0
      /\ \A n \in Nodes \ overlooked : n \in due \/ Followed(n, current.plan)
  BY DEF Reconfigure, StartApply, ElasticInv, IInv, TypeOK, LoopConsistent
<1>2. Members(call.plan)' = alive'
  <2>1. Members(PlanOver[alive]) = alive
    BY <1>1, PolicyPlans
  <2>2. QED
    BY <1>1, <2>1 DEF Members
<1>3. \A n \in Nodes : Followed(n, current.plan) => Followed(n, current.plan)'
  BY <1>1 DEF Followed, Awaits, Members
<1>4. QED
  BY <1>1, <1>2, <1>3 DEF LoopConsistent, Followed

\* Without nodes alive, the nodes left in the plan are overlooked.
LEMMA NothingFollowed == ElasticInv /\ NothingToReconfigure => LoopConsistent'
<1> SUFFICES ASSUME ElasticInv, NothingToReconfigure PROVE LoopConsistent'
  OBVIOUS
<1>1. /\ alive = {} /\ call.phase = "idle" /\ overlooked' = Members(current.plan)
      /\ due' = {} /\ UNCHANGED <<current, alive, call>>
  BY DEF NothingToReconfigure, vars
<1>2. Members(current.plan)' = Members(current.plan)
  BY <1>1 DEF Members
<1>3. QED
  BY <1>1, <1>2 DEF LoopConsistent, Followed, ElasticInv

\* An exception leaves the plan in force, and who was due is overlooked.
LEMMA DropFollowed ==
  ElasticInv /\ (CallRefused \/ CallRaises \/ HandlerRaises) => LoopConsistent'
<1> SUFFICES ASSUME ElasticInv, CallRefused \/ CallRaises \/ HandlerRaises
             PROVE  LoopConsistent'
  OBVIOUS
<1>1. /\ call'.phase = "idle" /\ UNCHANGED <<alive, queue, current>>
      /\ due' = {} /\ overlooked' = overlooked \cup due
      /\ LoopConsistent
  BY DEF CallRefused, CallRaises, HandlerRaises, EventDropped, PrepareRefused, CallFails,
         Abandon, Idle, vars, ElasticInv
<1>2. ASSUME NEW n \in Nodes \ overlooked' PROVE Followed(n, current.plan)'
  <2>1. Followed(n, current.plan)
    BY <1>1, <1>2 DEF LoopConsistent
  <2>2. QED
    BY <1>1, <2>1 DEF Followed, Awaits, Members
<1>3. QED
  BY <1>1, <1>2 DEF LoopConsistent

\* The call in progress keeps its plan, and its end puts it in force.
LEMMA CallFollowed == ElasticInv /\ (CallStep \/ CallEnds) => LoopConsistent'
<1> SUFFICES ASSUME ElasticInv, CallStep \/ CallEnds PROVE LoopConsistent'
  OBVIOUS
<1>1. /\ call.phase # "idle" /\ LoopConsistent /\ handling # NoEvent
      /\ call \in [phase : Phases, epoch : 0..MaxEpoch, plan : Plans, done : SUBSET Nodes]
  BY DEF CallStep, CallEnds, Prepare, Activate, UpdateLedger, CopyReusableKV, Commit,
         ElasticInv, LoopConsistent, IInv, TypeOK
<1>2. CASE CallStep
  <2>1. /\ \/ \E n \in Nodes : call' = [call EXCEPT !.done = @ \cup {n}]
           \/ call' = [call EXCEPT !.phase = "copy", !.done = {}]
           \/ call' = [call EXCEPT !.phase = "activate"]
        /\ UNCHANGED <<alive, current>> /\ UNCHANGED loopVars
    BY <1>2 DEF CallStep, Prepare, Activate, UpdateLedger, CopyReusableKV
  <2>2. call'.plan = call.plan /\ call'.phase # "idle"
    BY <1>1, <2>1
  <2>3. ASSUME NEW n PROVE /\ Followed(n, current.plan) => Followed(n, current.plan)'
                           /\ Followed(n, call.plan) => Followed(n, call.plan)'
    BY <2>1, <2>2 DEF loopVars, Followed, Awaits, Members
  <2>4. QED
    BY <1>1, <2>1, <2>2, <2>3 DEF loopVars, LoopConsistent
<1>3. CASE CallEnds
  <2>1. /\ current' = [epoch |-> call.epoch, plan |-> call.plan] /\ call' = Idle
        /\ UNCHANGED <<alive, queue, overlooked>> /\ handling' = NoEvent /\ due' = {}
    BY <1>3 DEF CallEnds, Commit
  <2>2. call.epoch = current.epoch + 1 /\ current.epoch \in Nat
    BY <1>1, MaxEpochAssumption DEF ElasticInv, IInv, TypeOK, CallConsistent
  <2>3. current'.epoch # 0 /\ current'.plan = call.plan /\ call'.phase = "idle"
    BY <2>1, <2>2 DEF Idle
  <2>4. ASSUME NEW n \in Nodes \ overlooked PROVE Followed(n, current.plan)'
    <3>1. Followed(n, call.plan)
      BY <1>1 DEF LoopConsistent
    <3>2. QED
      BY <2>1, <2>3, <3>1 DEF Followed, Awaits, Members
  <2>5. QED
    BY <2>1, <2>3, <2>4 DEF LoopConsistent
<1>4. QED
  BY <1>2, <1>3

-----------------------------------------------------------------------------
(* The theorems *)

LEMMA ElasticStep == ElasticInv /\ [ElasticNext]_elasticVars => ElasticInv'
<1> SUFFICES ASSUME ElasticInv, [ElasticNext]_elasticVars PROVE ElasticInv'
  OBVIOUS
<1>1. IInv' /\ ElasticTypeOK'
  BY LoopStepCoordinator, NextIInv, LoopTypes DEF ElasticInv
<1>2. LoopConsistent'
  <2>1. CASE \E n \in Nodes : Register(n) \/ Unregister(n) \/ Heartbeat(n)
    BY <2>1, NodeStepFollowed
  <2>2. CASE Dispatch \/ Reconfigure \/ NothingToReconfigure \/ CallStep \/ CallEnds
    BY <2>2, DispatchFollowed, ReconfigureFollowed, NothingFollowed, CallFollowed
  <2>3. CASE CallRefused \/ CallRaises \/ HandlerRaises
    BY <2>3, DropFollowed
  <2>4. CASE UNCHANGED elasticVars
    BY <2>4 DEF elasticVars, loopVars, vars, ElasticInv, LoopConsistent, Followed,
                Awaits, Members
  <2>5. QED
    BY <2>1, <2>2, <2>3, <2>4 DEF ElasticNext
<1>3. QED
  BY <1>1, <1>2 DEF ElasticInv

\* The loop stays in its invariant, also when handlers raise.  It contains the
\* coordinator's: in the loop too, no activation is refused and the plan in force is
\* resident.
THEOREM LoopInvariant == ElasticSpec => []ElasticInv
<1>1. ElasticInit => ElasticInv
  BY ElasticInitInv
<1>2. QED
  BY <1>1, ElasticStep, PTL DEF ElasticSpec

\* The variables of the loop have their types.
THEOREM ElasticTypeCorrect == ElasticSpec => []ElasticTypeOK
<1>1. ElasticInv => ElasticTypeOK
  BY DEF ElasticInv
<1>2. QED
  BY <1>1, LoopInvariant, PTL

\* Where the plan in force differs from the topology on a node that the code has not
\* overlooked, the handler at work is to change that or an event of this node is queued
\* that will: the checks of current_plan in the handlers lose no join and no departure,
\* and an exception only those that its handler had in hand.
THEOREM DivergenceAlwaysPending == ElasticSpec => []DivergenceIsPending
<1>1. ElasticInv => DivergenceIsPending
  <2> SUFFICES ASSUME ElasticInv, NEW n \in Nodes \ overlooked, n \notin due, ~Fits(n)
               PROVE  \E i \in 1..Len(queue) : queue[i].node = n /\ Effective(queue[i])
    BY DEF DivergenceIsPending
  <2>1. /\ current.epoch # 0 /\ policy = current
        /\ Followed(n, current.plan)
    BY DEF ElasticInv, LoopConsistent, IInv, ServingConsistent
  <2>2. PICK i \in 1..Len(queue) :
          /\ queue[i].node = n
          /\ queue[i].kind = (IF n \in Members(current.plan) THEN "left" ELSE "joined")
    BY <2>1 DEF Fits, Followed, Awaits
  <2>3. QED
    BY <2>1, <2>2 DEF Effective, InCurrentPlan
<1>2. QED
  BY <1>1, LoopInvariant, PTL

\* Driven by the loop, the coordinator takes only steps of the blue-green switch.
THEOREM LoopSwitchesBlueGreen == ElasticSpec => [][Abstract!Next]_<<policy, Held>>
<1>1. ElasticInv /\ [ElasticNext]_elasticVars => [Abstract!Next]_<<policy, Held>>
  BY LoopStepCoordinator, StepMaps DEF ElasticInv
<1>2. QED
  BY <1>1, LoopInvariant, PTL DEF ElasticSpec
=============================================================================
