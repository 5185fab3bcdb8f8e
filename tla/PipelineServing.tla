--------------------------- MODULE PipelineServing ---------------------------
(***************************************************************************)
(* Requests flowing through the layered pipeline while it is reconfigured. *)
(*                                                                         *)
(* TaskScheduler.handle_request looks up the KV prefix (an await), lets    *)
(* LayeredPipelinePlacement expand the plan in force into one task per     *)
(* stage, runs the tasks in layer order, and hands a failed one to         *)
(* DefaultRecovery.  The reconfiguration coordinator is module             *)
(* PipelineReconfig; a drain is started as its docstring demands, once no  *)
(* request bound to the epoch is in flight.                                *)
(*                                                                         *)
(* Requests share no state that this module describes: what one of them    *)
(* meets is its interleaving with the coordinator.                         *)
(***************************************************************************)
EXTENDS PipelineReconfig

CONSTANTS
  Requests,
  MaxRetries,   \* DefaultRecovery.max_retries
  Strict        \* nodes whose engine is TorchLayeredEngine (or HFLayeredEngine,
                \* which leaves out the comparison of the layer range); the
                \* others run LayeredMockEngine

ASSUME MaxRetriesAssumption == MaxRetries \in Nat
ASSUME StrictAssumption == Strict \subseteq Nodes

VARIABLES
  req,          \* req[r]: where request r is
  refused       \* history: r's runtime refused an original (not retried) task
                \* while it still held the layers of the task's epoch

servingVars == <<req, refused>>
allVars == <<vars, servingVars>>

Statuses == {"new", "lookup", "queued", "running", "done", "failed"}
InFlight == {"queued", "running"}

\* bound: epoch that the request was given on entry; epoch: that of the task in
\* hand, 0 for one made by DefaultRecovery; activation: epoch of the envelope
\* that the previous stage produced.
NewRequest ==
  [status |-> "new", seen |-> {}, bound |-> 0, chain |-> NoPlan, todo |-> {},
   epoch |-> 0, retries |-> 0, activation |-> 0, ran |-> {}]

ServingTypeOK ==
  /\ req \in [Requests ->
       [status : Statuses, seen : SUBSET Nodes, bound : 0..MaxEpoch, chain : Plans,
        todo : SUBSET Nodes, epoch : 0..MaxEpoch, retries : 0..MaxRetries,
        activation : 0..MaxEpoch, ran : SUBSET Layers]]
  /\ refused \subseteq Requests

\* The experiments and tests attach a runtime to every node before they serve.
ServingInit ==
  /\ Init
  /\ runtimes = Nodes
  /\ req = [r \in Requests |-> NewRequest]
  /\ refused = {}

-----------------------------------------------------------------------------
(* Admission and routing *)

\* route_request up to the await of storage.lookup: the healthy nodes (alive,
\* with a load below 1.0 as last reported) are read here and used after it.
Lookup(r, healthy) ==
  /\ req[r].status = "new"
  /\ healthy \subseteq alive
  /\ req' = [req EXCEPT ![r] = IF healthy = {}
                                THEN [@ EXCEPT !.status = "failed"]
                                ELSE [@ EXCEPT !.status = "lookup", !.seen = healthy]]
  /\ UNCHANGED <<vars, refused>>

\* LayeredPipelinePlacement.place: stages on nodes that were not healthy, or
\* have died since, are left out of the chain.
Place(r) ==
  LET chain == [n \in Nodes |-> IF n \in req[r].seen \cap alive
                                  THEN policy.plan[n] ELSE NoRange]
  IN
  /\ req[r].status = "lookup"
  /\ req' = [req EXCEPT ![r] =
       IF Members(chain) = {}
         THEN [@ EXCEPT !.status = "failed"]
         ELSE [@ EXCEPT !.status = "queued", !.bound = policy.epoch,
                        !.epoch = policy.epoch, !.chain = chain, !.todo = Members(chain)]]
  /\ UNCHANGED <<vars, refused>>

-----------------------------------------------------------------------------
(* One stage of the chain *)

\* _run_pipeline takes the remaining stage with the lowest first layer.
IsNext(r, n) ==
  /\ n \in req[r].todo
  /\ \A m \in req[r].todo : req[r].chain[n][1] <= req[r].chain[m][1]

\* A retry is a Task with the default stage_index 0.
IsFirstStage(r) == req[r].retries > 0 \/ req[r].todo = Members(req[r].chain)

HeldFor(n, e) == IF e = 0 THEN NoRange ELSE assigned[n][e]

\* The checks at the head of generate.  The torch and HF runtimes want the epoch
\* prepared with this range and active; the mock lets an unknown epoch pass and
\* compares the epoch only while it has an active one.
Accepts(n, r) ==
  LET e == req[r].epoch
      layers == req[r].chain[n]
  IN
  /\ IF n \in Strict
       THEN HeldFor(n, e) = layers /\ active[n] = e
       ELSE HeldFor(n, e) \in {NoRange, layers} /\ active[n] \in {0, e}
  /\ IsFirstStage(r) \/ req[r].activation = e

Begin(r, n) ==
  /\ req[r].status = "queued"
  /\ IsNext(r, n)
  /\ Accepts(n, r)
  /\ req' = [req EXCEPT ![r].status = "running"]
  /\ UNCHANGED <<vars, refused>>

\* Faulty variants: the comparison is off by one; the retry does not count; when a
\* stage gives up, _run_pipeline returns the result of the stage before.
RecoveredOnceMore(q) ==
  IF q.retries <= MaxRetries
    THEN [q EXCEPT !.status = "queued", !.epoch = 0, !.retries = @ + 1]
    ELSE [q EXCEPT !.status = "failed"]

RecoveredForever(q) ==
  IF q.retries < MaxRetries
    THEN [q EXCEPT !.status = "queued", !.epoch = 0]
    ELSE [q EXCEPT !.status = "failed"]

RecoveredAsDone(q) ==
  IF q.retries < MaxRetries
    THEN [q EXCEPT !.status = "queued", !.epoch = 0, !.retries = @ + 1]
    ELSE [q EXCEPT !.status = IF q.ran = {} THEN "failed" ELSE "done"]

\* The except branch of _run_task with DefaultRecovery: the retry keeps the
\* request, node and layer range of the task; its other fields are defaults.
Recovered(q) ==
  IF q.retries < MaxRetries
    THEN [q EXCEPT !.status = "queued", !.epoch = 0, !.retries = @ + 1]
    ELSE [q EXCEPT !.status = "failed"]

Refuse(r, n) ==
  /\ req[r].status = "queued"
  /\ IsNext(r, n)
  /\ ~Accepts(n, r)
  /\ req' = [req EXCEPT ![r] = Recovered(@)]
  /\ refused' = IF req[r].retries = 0 /\ HeldFor(n, req[r].epoch) = req[r].chain[n]
                  THEN refused \cup {r} ELSE refused
  /\ UNCHANGED vars

\* generate returns: its activation carries the task's epoch, and the loop of
\* _run_pipeline goes on with the next original task.
Finish(r, n) ==
  LET q == req[r] IN
  /\ q.status = "running"
  /\ IsNext(r, n)
  /\ req' = [req EXCEPT ![r] =
       [q EXCEPT !.status = IF q.todo = {n} THEN "done" ELSE "queued",
                 !.ran = q.ran \cup LayersOf(q.chain[n]),
                 !.todo = q.todo \ {n},
                 !.activation = q.epoch,
                 !.epoch = q.bound,
                 !.retries = 0]]
  /\ UNCHANGED <<vars, refused>>

\* generate raises after it was started.
EngineFails(r, n) ==
  /\ req[r].status = "running"
  /\ IsNext(r, n)
  /\ req' = [req EXCEPT ![r] = Recovered(@)]
  /\ UNCHANGED <<vars, refused>>

\* _deliver_activation raises outside the try of _run_task: the request ends.
DeliveryFails(r) ==
  /\ req[r].status = "queued"
  /\ ~IsFirstStage(r)
  /\ req' = [req EXCEPT ![r].status = "failed"]
  /\ UNCHANGED <<vars, refused>>

-----------------------------------------------------------------------------
InFlightOn(e) == {r \in Requests : req[r].status \in InFlight /\ req[r].bound = e}

\* Faulty variant: the drain does not wait for the requests of its epoch.
ControlStepUngated ==
  /\ Next
  /\ UNCHANGED servingVars

\* A step of the coordinator or of its environment; a drain is started only for
\* an epoch without requests in flight.
ControlStep ==
  /\ Next
  /\ drain.epoch = 0 /\ drain'.epoch # 0 => InFlightOn(drain'.epoch) = {}
  /\ UNCHANGED servingVars

ServingNext ==
  \/ ControlStep
  \/ \E r \in Requests, healthy \in SUBSET Nodes : Lookup(r, healthy)
  \/ \E r \in Requests : Place(r)
  \/ \E r \in Requests, n \in Nodes : Begin(r, n)
  \/ \E r \in Requests, n \in Nodes : Refuse(r, n)
  \/ \E r \in Requests, n \in Nodes : Finish(r, n)
  \/ \E r \in Requests, n \in Nodes : EngineFails(r, n)
  \/ \E r \in Requests : DeliveryFails(r)

ServingSpec == ServingInit /\ [][ServingNext]_allVars

\* A request that was admitted is a running coroutine; an engine call returns
\* or raises.
RequestProgress(r) ==
  \/ Place(r)
  \/ \E n \in Nodes : Begin(r, n) \/ Refuse(r, n) \/ Finish(r, n)

FairServingSpec == ServingSpec /\ \A r \in Requests : WF_allVars(RequestProgress(r))

-----------------------------------------------------------------------------
(* Properties *)

\* A request that ends without error and whose chain covered the model has been
\* through every layer: no refusal, retry or reconfiguration in between lets a
\* stage be skipped.
DoneMeansAllStages ==
  \A r \in Requests :
    req[r].status = "done" /\ CoversModel(req[r].chain) => req[r].ran = Layers

\* The epoch that drain_old_epoch is releasing stage by stage has no request in
\* flight, and none enters it while the loop is under way.
DrainedEpochUnused == drain.epoch # 0 => InFlightOn(drain.epoch) = {}

\* A runtime that still holds the layers of a request's epoch refuses it only after
\* having been switched to a later epoch itself: a node that left the plan goes on
\* serving the old epoch (comment in apply_plan), whatever is prepared on it, fails
\* or is drained.  After a second reconfiguration the later epoch may have been
\* drained first, and its node is then active in none.
LeaversServeOldEpoch ==
  [][\A r \in refused' \ refused : \E n \in req[r].todo :
       /\ IsNext(r, n)
       /\ active[n] > req[r].epoch \/ current.epoch > req[r].epoch + 1]_allVars

\* A task runs on a strict node only with the layers held there for the task's
\* epoch, even when a drain or a reconfiguration overtakes it between routing and
\* running.
RunsOnHeldLayers ==
  \A r \in Requests, n \in Strict :
    req[r].status = "running" /\ IsNext(r, n) => HeldFor(n, req[r].epoch) = req[r].chain[n]

\* Every admitted request is answered, with a result or an error.
RequestsSettle ==
  \A r \in Requests :
    (req[r].status \in {"lookup"} \cup InFlight) ~> (req[r].status \in {"done", "failed"})

(* What the documentation says and the code does not do *)

\* set_plan: "old requests go on executing with their old epoch".  Refusals in
\* the short window of the activation loop are not counted.
OldRequestsAreServed ==
  [][refused' # refused => call.phase = "activate"]_allVars
=============================================================================
