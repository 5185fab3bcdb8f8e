---------------------------- MODULE RequestFlow ----------------------------
(***************************************************************************)
(* A request on its way through handle_request: it is routed by one of the  *)
(* placement policies, and with a layered pipeline its activation is        *)
(* delivered from stage to stage by a transport.  TCP and WiFi push on a    *)
(* connection that all requests share and pull on one of their own, so the  *)
(* receiver may see the pull first; the mock transport stores at once.      *)
(* Engines fail and retry, and refuse epochs, in PipelineServing; here a    *)
(* stage computes, unless the activation is not the one it needs.           *)
(***************************************************************************)
EXTENDS Routing, Sequences, SequencesExt

CONSTANTS
  Requests,
  NumStages,
  None,
  MaxEpoch,      \* pipelines that come into force
  MaxTries,      \* times a caller submits a request under one id
  MaxConns,      \* connections opened to a node for pushes
  MaxFaults,     \* connections that break and nodes that fall silent, together
  MaxBeats       \* heartbeats and departures while requests are routed

ASSUME FlowAssumption ==
  /\ NumStages \in 1..NumNodes /\ None \notin Nodes
  /\ MaxEpoch \in Nat /\ MaxTries \in Nat /\ MaxConns \in Nat /\ MaxFaults \in Nat /\ MaxBeats \in Nat

Chains == {c \in [1..NumStages -> Nodes] : \A i, j \in 1..NumStages : c[i] = c[j] => i = j}
Policies == {"layered", "default", "e2", "capability"}
\* WiFiTransport that loses nothing is TCPTransport.
Transports == {"none", "mock", "wifi"}

VARIABLES
  config,    \* [policy, transport, flops, value, callers]
  alive, load, beats,
  silent,    \* nodes that are cut off without any connection being reset
  index,     \* the catalog of the KV store
  pipeline,  \* [epoch, chain]: the plan of LayeredPipelinePlacement
  flow,      \* flow[r]: where the coroutine of r is
  writer,    \* writer[n]: TCPTransport._writers, the last connection opened, or 0
  opened,    \* opened[n]: connections opened to n
  broken,    \* connections <<n, c>> that were reset
  wire,      \* wire[n][c]: pushed and not yet received
  store,     \* store[n]: TcpReceiver._store, MockTransport._inbox
  taken      \* history: what was pulled

fleet == <<config, alive, load, beats, silent, index>>
net == <<writer, opened, broken, wire>>
vars == <<fleet, pipeline, flow, net, store, taken>>

Idle == [at |-> "idle", tries |-> 0, nodes |-> {}, hit |-> 0, epoch |-> 0, chain |-> <<>>,
         stage |-> 1, input |-> None]
Networked == config.transport = "wifi"

\* What cannot be read is fixed: the fleet for pipelines, the network for the other
\* policies, which decide for each request by itself.
Init ==
  /\ config \in [policy : Policies, transport : Transports, flops : [Nodes -> 0..2],
                 value : [Blocks -> 0..1],
                 callers : {Requests, {CHOOSE r \in Requests : TRUE}}]
  /\ load \in [Nodes -> {2, 18, 19}]
  /\ index \in [Blocks -> SUBSET Locations]
  /\ config.policy # "capability" => config.flops = [n \in Nodes |-> 0]
  /\ config.policy # "e2" => /\ config.value = [b \in Blocks |-> 0]
                             /\ index = [b \in Blocks |-> {}]
  /\ IF config.policy = "layered"
       THEN config.callers = Requests /\ load = [n \in Nodes |-> 2]
       ELSE config.callers # Requests /\ config.transport = "none"
  /\ alive = Nodes /\ beats = 0 /\ silent = {}
  /\ pipeline = [epoch |-> 1, chain |-> [i \in 1..NumStages |-> i]]
  /\ flow = [r \in Requests |-> Idle]
  /\ writer = [n \in Nodes |-> 0] /\ opened = [n \in Nodes |-> 0]
  /\ broken = {} /\ wire = [n \in Nodes |-> [c \in 1..MaxConns |-> <<>>]]
  /\ store = [n \in Nodes |-> {}]
  /\ taken = {}

-----------------------------------------------------------------------------
(* The fleet and the plan change under the requests *)

Heartbeat(n, l) ==
  /\ config.policy # "layered" /\ beats < MaxBeats
  /\ beats' = beats + 1
  /\ load' = [load EXCEPT ![n] = l] /\ alive' = alive \cup {n}
  /\ UNCHANGED <<config, silent, index, pipeline, flow, net, store, taken>>

Unregister(n) ==
  /\ config.policy # "layered" /\ beats < MaxBeats /\ n \in alive
  /\ beats' = beats + 1
  /\ alive' = alive \ {n}
  /\ UNCHANGED <<config, load, silent, index, pipeline, flow, net, store, taken>>

\* Another request's block is saved, or one is dropped by a migration.
CatalogChanges(b, places) ==
  /\ config.policy = "e2" /\ beats < MaxBeats
  /\ beats' = beats + 1
  /\ index' = [index EXCEPT ![b] = places]
  /\ UNCHANGED <<config, alive, load, silent, pipeline, flow, net, store, taken>>

SetPlan ==
  /\ config.policy = "layered" /\ pipeline.epoch < MaxEpoch
  /\ \E chain \in Chains : pipeline' = [epoch |-> pipeline.epoch + 1, chain |-> chain]
  /\ UNCHANGED <<fleet, flow, net, store, taken>>

-----------------------------------------------------------------------------
(* handle_request and route_request *)

Goes(r, at) == flow' = [flow EXCEPT ![r].at = at]

\* A caller submits the request, or submits it again after an error.
HandleRequest(r) ==
  /\ r \in config.callers
  /\ flow[r].at \in {"idle", "failed"} /\ flow[r].tries < MaxTries
  /\ LET nodes == {n \in alive : load[n] < Overloaded} IN
     flow' = [flow EXCEPT ![r] = [Idle EXCEPT !.at = IF nodes = {} THEN "failed" ELSE "lookup",
                                              !.tries = flow[r].tries + 1, !.nodes = nodes]]
  /\ UNCHANGED <<fleet, pipeline, net, store, taken>>

Lookup(r) ==
  /\ flow[r].at = "lookup"
  /\ flow' = [flow EXCEPT ![r].at = "place", ![r].hit = HitBlocks(index)]
  /\ UNCHANGED <<fleet, pipeline, net, store, taken>>

\* E2Placement looks the prompt up again.  Both lookups suspend with LMCacheStore, so
\* the catalog may change before each of them and after.
LookupAgain(r) ==
  /\ flow[r].at = "place" /\ config.policy = "e2"
  /\ flow' = [flow EXCEPT ![r].at = "weigh", ![r].hit = Matched(index, flow[r].hit)]
  /\ UNCHANGED <<fleet, pipeline, net, store, taken>>

\* The nodes were listed before the lookups; what is read of them is up to date.
Target(r) ==
  CASE config.policy = "default" -> DefaultTarget(flow[r].nodes, load)
    [] config.policy = "capability" -> CapabilityTarget(flow[r].nodes \cap alive, load, config.flops)
    [] config.policy = "e2" -> E2Target(flow[r].nodes, load, index, config.value, flow[r].hit)

PlaceOnNode(r) ==
  /\ flow[r].at = (IF config.policy = "e2" THEN "weigh" ELSE "place")
  /\ config.policy # "layered"
  /\ IF config.policy = "capability" /\ flow[r].nodes \cap alive = {}
       THEN Goes(r, "failed")
       ELSE flow' = [flow EXCEPT ![r].at = "compute", ![r].chain = <<Target(r)>>]
  /\ UNCHANGED <<fleet, pipeline, net, store, taken>>

PlaceOnPipeline(r) ==
  /\ flow[r].at = "place" /\ config.policy = "layered"
  /\ flow' = [flow EXCEPT ![r].at = "compute", ![r].epoch = pipeline.epoch,
                          ![r].chain = pipeline.chain]
  /\ UNCHANGED <<fleet, pipeline, net, store, taken>>

-----------------------------------------------------------------------------
(* _run_pipeline: a stage computes, its activation is delivered to the next *)

\* The activation of the stage that r computed last, try tells the copies apart.
Activation(r) ==
  LET f == flow[r] IN
  [req |-> r, epoch |-> f.epoch, stage |-> f.stage, source |-> f.chain[f.stage],
   destination |-> f.chain[f.stage + 1], try |-> f.tries]

\* Faulty variant: the tag leaves the epoch out.
TagOfAnyEpoch(a) == <<a.req, a.stage, a.source, a.destination>>

Tag(a) == <<a.req, a.epoch, a.stage, a.source, a.destination>>

\* The checks of the engine on its input.
Fits(r) ==
  LET f == flow[r] IN
  f.stage > 1 => /\ f.input.req = r
                 /\ f.input.epoch = f.epoch
                 /\ f.input.destination = f.chain[f.stage]

Compute(r) ==
  /\ flow[r].at = "compute"
  /\ Goes(r, CASE ~Fits(r) -> "refused"
               [] Fits(r) /\ flow[r].stage = Len(flow[r].chain) -> "done"
               [] OTHER -> "deliver")
  /\ UNCHANGED <<fleet, pipeline, net, store, taken>>

\* The engine fails until its retries are used up: the request ends with an error.
ComputeFails(r) ==
  /\ flow[r].at = "compute"
  /\ Goes(r, "failed")
  /\ UNCHANGED <<fleet, pipeline, net, store, taken>>

Destination(r) == flow[r].chain[flow[r].stage + 1]

\* The await is for a node that does not answer.  TCPTransport sets no timeout for
\* opening, writing or reading: the system may end the await with an error, or never.
Hangs(r) ==
  Networked /\ flow[r].at \in {"deliver", "connect", "pull"} /\ Destination(r) \in silent

Asked(r) == {a \in store[Destination(r)] : Tag(a) = Tag(Activation(r))}

\* What was pulled is handed to the next stage; a miss raises.
Delivered(r, found) ==
  LET f == flow[r] IN
  flow' = [flow EXCEPT ![r] =
    IF found = {} THEN [f EXCEPT !.at = "failed"]
    ELSE [f EXCEPT !.at = "compute", !.stage = f.stage + 1, !.input = CHOOSE a \in found : TRUE]]

\* Faulty variant: a copy under the same tag is kept beside the new one.
StoredBeside(held, a) == held \cup {a}

Stored(held, a) == {b \in held : Tag(b) # Tag(a)} \cup {a}

\* _get_writer and push: written to the connection at hand; what is written to one
\* that was reset is gone.
Push(r) ==
  LET n == Destination(r)
      c == writer[n]
  IN
  /\ flow[r].at = "deliver" /\ Networked /\ c # 0
  /\ wire' = IF <<n, c>> \in broken THEN wire
             ELSE [wire EXCEPT ![n][c] = Append(@, Activation(r))]
  /\ Goes(r, "pull")
  /\ UNCHANGED <<fleet, pipeline, writer, opened, broken, store, taken>>

\* Without a connection, or with one that is known to be closing.
StartConnect(r) ==
  LET n == Destination(r) IN
  /\ flow[r].at = "deliver" /\ Networked
  /\ writer[n] = 0 \/ <<n, writer[n]>> \in broken
  /\ Goes(r, "connect")
  /\ UNCHANGED <<fleet, pipeline, net, store, taken>>

\* Two requests may open at the same time: each writes to its own connection, and the
\* later one is kept.
PushOnNewWriter(r) ==
  LET n == Destination(r)
      c == opened[n] + 1
  IN
  /\ flow[r].at = "connect" /\ n \notin silent /\ c <= MaxConns
  /\ opened' = [opened EXCEPT ![n] = c]
  /\ writer' = [writer EXCEPT ![n] = c]
  /\ wire' = [wire EXCEPT ![n][c] = <<Activation(r)>>]
  /\ Goes(r, "pull")
  /\ UNCHANGED <<fleet, pipeline, broken, store, taken>>

PushMock(r) ==
  LET n == Destination(r) IN
  /\ flow[r].at = "deliver" /\ config.transport = "mock"
  /\ store' = [store EXCEPT ![n] = Stored(@, Activation(r))]
  /\ Goes(r, "pull")
  /\ UNCHANGED <<fleet, pipeline, net, taken>>

\* Without a transport the activation is handed over as it is.
HandOver(r) ==
  /\ flow[r].at = "deliver" /\ config.transport = "none"
  /\ Delivered(r, {Activation(r)})
  /\ UNCHANGED <<fleet, pipeline, net, store, taken>>

\* packet loss: push returns as if it had sent.
PushLost(r) ==
  /\ flow[r].at = "deliver" /\ config.transport \in {"mock", "wifi"}
  /\ Goes(r, "pull")
  /\ UNCHANGED <<fleet, pipeline, net, store, taken>>

\* Opening, writing and asking raise when the connection fails; nothing catches it
\* before the caller of handle_request.
ConnectionFails(r) ==
  /\ flow[r].at \in {"connect", "pull"} /\ Networked
  /\ Goes(r, "failed")
  /\ UNCHANGED <<fleet, pipeline, net, store, taken>>

\* TcpReceiver._handle for P and G.
ReceivePush(n, c) ==
  /\ wire[n][c] # <<>> /\ n \notin silent
  /\ store' = [store EXCEPT ![n] = Stored(@, Head(wire[n][c]))]
  /\ wire' = [wire EXCEPT ![n][c] = Tail(@)]
  /\ UNCHANGED <<fleet, pipeline, flow, writer, opened, broken, taken>>

Faults == Cardinality(broken) + Cardinality(silent)

Reset(n, c) ==
  /\ c <= opened[n] /\ <<n, c>> \notin broken /\ Faults < MaxFaults
  /\ broken' = broken \cup {<<n, c>>}
  /\ wire' = [wire EXCEPT ![n][c] = <<>>]
  /\ UNCHANGED <<fleet, pipeline, flow, writer, opened, store, taken>>

\* The node loses power or its link: from now on it neither answers nor resets a
\* connection, and what was written to it stays on the way.
FallSilent(n) ==
  /\ Networked /\ n \notin silent /\ Faults < MaxFaults
  /\ silent' = silent \cup {n}
  /\ UNCHANGED <<config, alive, load, beats, index, pipeline, flow, net, store, taken>>

\* Faulty variant: what is read stays in the store.
PullKeeping(r) ==
  /\ flow[r].at = "pull" /\ ~Hangs(r)
  /\ Delivered(r, Asked(r))
  /\ taken' = taken \cup Asked(r)
  /\ UNCHANGED <<fleet, pipeline, net, store>>

\* Faulty variant: a miss is asked for again and again.
PullAgain(r) ==
  /\ flow[r].at = "pull" /\ ~Hangs(r) /\ Asked(r) # {}
  /\ Delivered(r, Asked(r))
  /\ store' = [store EXCEPT ![Destination(r)] = @ \ Asked(r)]
  /\ taken' = taken \cup Asked(r)
  /\ UNCHANGED <<fleet, pipeline, net>>

Pull(r) ==
  /\ flow[r].at = "pull" /\ ~Hangs(r)
  /\ Delivered(r, Asked(r))
  /\ store' = [store EXCEPT ![Destination(r)] = @ \ Asked(r)]
  /\ taken' = taken \cup Asked(r)
  /\ UNCHANGED <<fleet, pipeline, net>>

\* The connection fails after the receiver has already taken out what it was asked for.
AnswerLost(r) ==
  /\ flow[r].at = "pull" /\ Networked /\ ~Hangs(r)
  /\ store' = [store EXCEPT ![Destination(r)] = @ \ Asked(r)]
  /\ Goes(r, "failed")
  /\ UNCHANGED <<fleet, pipeline, net, taken>>

RequestStep(r) ==
  \/ Lookup(r) \/ LookupAgain(r) \/ PlaceOnNode(r) \/ PlaceOnPipeline(r) \/ Compute(r)
  \/ ComputeFails(r) \/ HandOver(r) \/ Push(r) \/ StartConnect(r) \/ PushOnNewWriter(r)
  \/ PushMock(r) \/ PushLost(r) \/ Pull(r) \/ AnswerLost(r) \/ ConnectionFails(r)

NetworkStep ==
  \E n \in Nodes : FallSilent(n) \/ \E c \in 1..MaxConns : ReceivePush(n, c) \/ Reset(n, c)

WorldStep ==
  \/ SetPlan
  \/ \E n \in Nodes : Unregister(n) \/ \E l \in {2, Overloaded} : Heartbeat(n, l)
  \/ \E b \in Blocks, places \in SUBSET Locations : CatalogChanges(b, places)

Next ==
  \/ \E r \in Requests : HandleRequest(r) \/ RequestStep(r)
  \/ NetworkStep
  \/ WorldStep

Spec == Init /\ [][Next]_vars

\* A coroutine is resumed when its await has ended, by a result or an exception.  That
\* it ends is not assumed where a silent node is to answer.
FairSpec == Spec /\ \A r \in Requests : WF_vars(~Hangs(r) /\ RequestStep(r))

-----------------------------------------------------------------------------
(* Properties *)

FlowTypeOK ==
  /\ \A r \in Requests :
       /\ flow[r].stage \in 1..NumStages /\ flow[r].tries \in 0..MaxTries
       /\ flow[r].at \in {"lookup", "place", "weigh"} => flow[r].nodes # {}
  /\ \A n \in Nodes : writer[n] = opened[n] /\ opened[n] <= MaxConns
  /\ \A n \in Nodes : \A a, b \in store[n] : a # b => Tag(a) # Tag(b)
  /\ \A n \in Nodes : \A a \in store[n] : a.destination = n

\* What a stage computes on was sent by the stage before it, for the same request and
\* under the same plan, and to this node: of what lies about on wires and in stores,
\* nothing of another request, another plan or another stage is read, and so no stage
\* refuses its input.  It may stem from an earlier try of the same request: neither the
\* tag nor the checks know of tries, although types.py:135 speaks of detected replays.
StageInputFits ==
  \A r \in Requests :
    LET f == flow[r] IN
    /\ f.at # "refused"
    /\ f.at = "compute" /\ f.stage > 1 =>
         /\ f.input.req = r /\ f.input.epoch = f.epoch /\ f.input.stage = f.stage - 1
         /\ f.input.source = f.chain[f.stage - 1] /\ f.input.destination = f.chain[f.stage]

\* An activation is computed on once at most, also when its request is submitted again
\* and reads what an earlier try has left.
ReadOnce ==
  [][\A r \in Requests :
       flow[r].at = "pull" /\ flow'[r].at = "compute" => flow'[r].input \notin taken]_vars

\* Every request ends, by a result or an exception, whatever messages, answers and
\* connections are lost, but for one that asks a silent node: when callers submit no
\* more, nothing else is left under way.
FlowEnds ==
  <>[](\A r \in Requests : flow[r].at \in {"idle", "done", "failed", "refused"} \/ Hangs(r))
=============================================================================
