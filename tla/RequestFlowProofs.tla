------------------------- MODULE RequestFlowProofs -------------------------
(***************************************************************************)
(* Activations between the stages of a request, for every number of         *)
(* requests, nodes, stages, tries, plans and connections: what a stage      *)
(* reads was sent by the stage before it, and nothing is read twice.        *)
(***************************************************************************)
EXTENDS RequestFlow, TLAPS

Activations ==
  [req : Requests, epoch : Nat, stage : Nat, source : Nodes, destination : Nodes, try : Nat]

Moving == {"deliver", "connect", "pull"}

\* The record of a request, whatever its fields hold.
Record(at, tries, nodes, hit, epoch, chain, stage, input) ==
  [at |-> at, tries |-> tries, nodes |-> nodes, hit |-> hit, epoch |-> epoch, chain |-> chain,
   stage |-> stage, input |-> input]

Formed(f) == f = Record(f.at, f.tries, f.nodes, f.hit, f.epoch, f.chain, f.stage, f.input)

\* The input of a stage but the first comes from the stage before it, for the same
\* request, epoch and node.
Fed(r, f) ==
  f.stage > 1 => /\ f.input.req = r
                 /\ f.input.epoch = f.epoch
                 /\ f.input.stage = f.stage - 1
                 /\ f.input.source = f.chain[f.stage - 1]
                 /\ f.input.destination = f.chain[f.stage]

Sound(r, f) ==
  /\ Formed(f) /\ f.tries \in 0..MaxTries /\ f.stage \in 1..NumStages /\ f.epoch \in Nat
  /\ f.at \in {"lookup", "place", "weigh"} => f.nodes # {} /\ f.stage = 1
  /\ f.at = "compute" => Fed(r, f) /\ f.stage <= Len(f.chain) /\ (Len(f.chain) = 1 \/ f.chain \in Chains)
  /\ f.at \in Moving => f.chain \in Chains /\ f.stage < NumStages
  /\ f.at # "refused"

\* An activation that request f has sent, in an earlier try or up to the stage it is at.
Sent(a, f) ==
  /\ a.try <= f.tries
  /\ a.try = f.tries => \/ a.stage < f.stage
                        \/ a.stage = f.stage /\ f.at \in {"pull", "failed"}

Typed ==
  /\ wire \in [Nodes -> [1..MaxConns -> Seq(Activations)]]
  /\ store \in [Nodes -> SUBSET Activations]
  /\ taken \subseteq Activations
  /\ opened \in [Nodes -> 0..MaxConns] /\ writer = opened
  /\ pipeline.epoch \in Nat /\ pipeline.chain \in Chains
  /\ flow = [r \in Requests |-> flow[r]]

\* What lies in a store was sent there, has not been read, and is the only one under
\* its tag.
Stores ==
  \A n \in Nodes : \A a \in store[n] :
    /\ a.destination = n /\ a \notin taken /\ Sent(a, flow[a.req])
    /\ \A b \in store[n] : Tag(a) = Tag(b) => a = b

\* What is on its way to a node was sent there and is nowhere else.
OnlyThere(n, c, i) ==
  LET a == wire[n][c][i] IN
  /\ a.destination = n /\ a \notin taken /\ a \notin store[n] /\ Sent(a, flow[a.req])
  /\ \A d \in 1..MaxConns : \A j \in 1..Len(wire[n][d]) : wire[n][d][j] = a => d = c /\ j = i

Wires == \A n \in Nodes, c \in 1..MaxConns : \A i \in 1..Len(wire[n][c]) : OnlyThere(n, c, i)

FInv ==
  /\ Typed
  /\ \A r \in Requests : Sound(r, flow[r])
  /\ Stores
  /\ Wires
  /\ \A a \in taken : Sent(a, flow[a.req])

-----------------------------------------------------------------------------
(* One request moves *)

Forward(r, g) ==
  /\ Sound(r, g)
  /\ \A a \in Activations : Sent(a, flow[r]) => Sent(a, g)

\* The messages on a connection are activations.
LEMMA OnWire ==
  ASSUME Typed, NEW n \in Nodes, NEW c \in 1..MaxConns
  PROVE  /\ wire[n][c] \in Seq(Activations) /\ Len(wire[n][c]) \in Nat
         /\ \A i \in 1..Len(wire[n][c]) : wire[n][c][i] \in Activations
<1>1. wire[n][c] \in Seq(Activations)
  BY DEF Typed
<1>2. QED
  BY <1>1

\* Whatever was sent stays sent when one request moves on.
LEMMA StillSent ==
  ASSUME Typed, NEW r \in Requests, NEW g, Forward(r, g), flow' = [flow EXCEPT ![r] = g],
         NEW a \in Activations, Sent(a, flow[a.req])
  PROVE  Sent(a, flow'[a.req])
<1>1. a.req \in Requests
  BY DEF Activations
<1>2. CASE a.req = r
  BY <1>1, <1>2 DEF Typed, Forward
<1>3. CASE a.req # r
  BY <1>1, <1>3 DEF Typed
<1>4. QED
  BY <1>2, <1>3

\* The requests after the move.
LEMMA StillSound ==
  ASSUME FInv, NEW r \in Requests, NEW g, Forward(r, g), flow' = [flow EXCEPT ![r] = g]
  PROVE  /\ flow' = [q \in Requests |-> flow'[q]]
         /\ \A q \in Requests : Sound(q, flow'[q])
<1>1. flow = [q \in Requests |-> flow[q]]
  BY DEF FInv, Typed
<1>2. \A q \in Requests : flow'[q] = IF q = r THEN g ELSE flow[q]
  BY <1>1
<1>3. DOMAIN flow' = Requests /\ flow' = [q \in DOMAIN flow' |-> flow'[q]]
  BY <1>1
<1>4. QED
  BY <1>2, <1>3 DEF FInv, Forward

\* A move that leaves the network alone.
LEMMA MoveOnly ==
  ASSUME FInv, NEW r \in Requests, NEW g, Forward(r, g), flow' = [flow EXCEPT ![r] = g],
         UNCHANGED <<pipeline, net, store, taken>>
  PROVE  FInv'
<1>1. Typed /\ Typed'
  BY StillSound DEF FInv, Typed, net
<1>2. \A a \in Activations : Sent(a, flow[a.req]) => Sent(a, flow'[a.req])
  BY <1>1, StillSent
<1>3. Stores'
  BY <1>1, <1>2 DEF FInv, Stores, Typed, Tag
<1>4. Wires'
  <2>1. \A n \in Nodes, c \in 1..MaxConns : \A i \in 1..Len(wire[n][c]) : wire[n][c][i] \in Activations
    BY <1>1, OnWire
  <2>2. QED
    BY <1>2, <2>1 DEF FInv, Wires, OnlyThere, net
<1>5. \A a \in taken : Sent(a, flow'[a.req])
  BY <1>1, <1>2 DEF FInv, Typed
<1>6. QED
  BY <1>1, <1>3, <1>4, <1>5, StillSound DEF FInv

-----------------------------------------------------------------------------
(* Where a request may go *)

\* The lookup's answer.
LEMMA HitChanged ==
  ASSUME NEW f, Formed(f), NEW x, NEW y
  PROVE  [f EXCEPT !.at = x, !.hit = y] =
           Record(x, f.tries, f.nodes, y, f.epoch, f.chain, f.stage, f.input)
<1> DEFINE e1 == [f EXCEPT !.at = x]
<1>1. e1 = Record(x, f.tries, f.nodes, f.hit, f.epoch, f.chain, f.stage, f.input)
  BY DEF Formed, Record
<1> HIDE DEF e1
<1>2. [e1 EXCEPT !.hit = y] = Record(x, f.tries, f.nodes, y, f.epoch, f.chain, f.stage, f.input)
  BY <1>1 DEF Record
<1>3. QED
  BY <1>2 DEF e1

\* A request placed on one node.
LEMMA ChainChanged ==
  ASSUME NEW f, Formed(f), NEW x, NEW y
  PROVE  [f EXCEPT !.at = x, !.chain = y] =
           Record(x, f.tries, f.nodes, f.hit, f.epoch, y, f.stage, f.input)
<1> DEFINE e1 == [f EXCEPT !.at = x]
<1>1. e1 = Record(x, f.tries, f.nodes, f.hit, f.epoch, f.chain, f.stage, f.input)
  BY DEF Formed, Record
<1> HIDE DEF e1
<1>2. [e1 EXCEPT !.chain = y] = Record(x, f.tries, f.nodes, f.hit, f.epoch, y, f.stage, f.input)
  BY <1>1 DEF Record
<1>3. QED
  BY <1>2 DEF e1

\* A request placed on the pipeline.
LEMMA PlanChanged ==
  ASSUME NEW f, Formed(f), NEW x, NEW y, NEW z
  PROVE  [f EXCEPT !.at = x, !.epoch = y, !.chain = z] =
           Record(x, f.tries, f.nodes, f.hit, y, z, f.stage, f.input)
<1> DEFINE e1 == [f EXCEPT !.at = x]
<1>1. e1 = Record(x, f.tries, f.nodes, f.hit, f.epoch, f.chain, f.stage, f.input)
  BY DEF Formed, Record
<1> HIDE DEF e1
<1> DEFINE e2 == [e1 EXCEPT !.epoch = y]
<1>2. e2 = Record(x, f.tries, f.nodes, f.hit, y, f.chain, f.stage, f.input)
  BY <1>1 DEF Formed, Record
<1> HIDE DEF e2
<1>3. [e2 EXCEPT !.chain = z] = Record(x, f.tries, f.nodes, f.hit, y, z, f.stage, f.input)
  BY <1>2 DEF Record
<1>4. QED
  BY <1>3 DEF e1, e2

\* A request submitted.
LEMMA TryChanged ==
  ASSUME NEW f, Formed(f), NEW x, NEW y, NEW z
  PROVE  [f EXCEPT !.at = x, !.tries = y, !.nodes = z] =
           Record(x, y, z, f.hit, f.epoch, f.chain, f.stage, f.input)
<1> DEFINE e1 == [f EXCEPT !.at = x]
<1>1. e1 = Record(x, f.tries, f.nodes, f.hit, f.epoch, f.chain, f.stage, f.input)
  BY DEF Formed, Record
<1> HIDE DEF e1
<1> DEFINE e2 == [e1 EXCEPT !.tries = y]
<1>2. e2 = Record(x, y, f.nodes, f.hit, f.epoch, f.chain, f.stage, f.input)
  BY <1>1 DEF Formed, Record
<1> HIDE DEF e2
<1>3. [e2 EXCEPT !.nodes = z] = Record(x, y, z, f.hit, f.epoch, f.chain, f.stage, f.input)
  BY <1>2 DEF Record
<1>4. QED
  BY <1>3 DEF e1, e2

\* What a record of a request holds.
LEMMA Fields ==
  ASSUME NEW at, NEW tries, NEW nodes, NEW hit, NEW epoch, NEW chain, NEW stage, NEW input
  PROVE  LET g == Record(at, tries, nodes, hit, epoch, chain, stage, input) IN
         /\ Formed(g) /\ g.at = at /\ g.tries = tries /\ g.nodes = nodes /\ g.hit = hit
         /\ g.epoch = epoch /\ g.chain = chain /\ g.stage = stage /\ g.input = input
  BY DEF Formed, Record

\* Only its place in the code changes.
LEMMA GoesForward ==
  ASSUME FInv, NEW r \in Requests,
         NEW x \in {"failed", "pull", "connect", "deliver", "done"},
         x \in Moving => flow[r].chain \in Chains /\ flow[r].stage < NumStages,
         flow[r].at \in {"pull", "failed"} => x \in {"pull", "failed"}
  PROVE  Forward(r, [flow[r] EXCEPT !.at = x])
<1> DEFINE f == flow[r]
           g == [f EXCEPT !.at = x]
<1>1. Sound(r, f) /\ Formed(f)
  BY DEF FInv, Sound
<1>2. /\ Formed(g) /\ g.at = x /\ g.tries = f.tries /\ g.nodes = f.nodes /\ g.stage = f.stage
      /\ g.epoch = f.epoch /\ g.chain = f.chain /\ g.input = f.input
  BY <1>1 DEF Formed, Record
<1> HIDE DEF f, g
<1>3. Sound(r, g)
  BY <1>1, <1>2 DEF Sound, f
<1>4. \A a \in Activations : Sent(a, f) => Sent(a, g)
  BY <1>2 DEF Sent, f
<1>5. QED
  BY <1>3, <1>4 DEF Forward, f, g

\* A new try: what was sent was sent in an earlier one.
LEMMA NewTry ==
  ASSUME FInv, NEW r \in Requests, HandleRequest(r)
  PROVE  FInv'
<1> DEFINE f == flow[r]
           nodes == {n \in alive : load[n] < Overloaded}
           g == [Idle EXCEPT !.at = IF nodes = {} THEN "failed" ELSE "lookup",
                             !.tries = f.tries + 1, !.nodes = nodes]
<1>1. f.tries \in 0..MaxTries /\ f.tries < MaxTries /\ f.tries + 1 \in 0..MaxTries
  BY FlowAssumption DEF FInv, Sound, HandleRequest
<1>2. /\ flow' = [flow EXCEPT ![r] = g]
      /\ UNCHANGED <<pipeline, net, store, taken>>
  BY DEF HandleRequest
<1>3. g = Record(g.at, f.tries + 1, nodes, 0, 0, <<>>, 1, None) /\ g.at \in {"failed", "lookup"}
      /\ (g.at = "lookup" => nodes # {})
  <2> DEFINE x == IF nodes = {} THEN "failed" ELSE "lookup"
             k == f.tries + 1
  <2>1. Formed(Idle)
    BY DEF Formed, Idle, Record
  <2> HIDE DEF nodes, k
  <2>2. [Idle EXCEPT !.at = x, !.tries = k, !.nodes = nodes] =
          Record(x, k, nodes, Idle.hit, Idle.epoch, Idle.chain, Idle.stage, Idle.input)
    <3> HIDE DEF x
    <3>1. QED
      BY <2>1, TryChanged
  <2>3. g = Record(x, f.tries + 1, nodes, Idle.hit, Idle.epoch, Idle.chain, Idle.stage, Idle.input)
    BY <2>2 DEF k
  <2>4. /\ Idle.hit = 0 /\ Idle.epoch = 0 /\ Idle.chain = <<>> /\ Idle.stage = 1 /\ Idle.input = None
    BY DEF Idle
  <2> HIDE DEF g, f
  <2>5. g = Record(x, f.tries + 1, nodes, 0, 0, <<>>, 1, None)
    BY <2>3, <2>4
  <2>6. g.at = x
    BY <2>5, Fields
  <2>7. QED
    BY <2>5, <2>6
<1>4. /\ Formed(g) /\ g.at \in {"failed", "lookup"} /\ g.tries = f.tries + 1 /\ g.nodes = nodes
      /\ (g.at = "lookup" => nodes # {}) /\ g.stage = 1 /\ g.epoch = 0
  <2> HIDE DEF g, f, nodes
  <2>1. QED
    BY <1>3, Fields
<1> HIDE DEF f, g, nodes
<1>5. Sound(r, g)
  BY <1>1, <1>4, FlowAssumption, RoutingAssumption DEF Sound, Moving
<1>6. \A a \in Activations : Sent(a, f) => Sent(a, g)
  BY <1>1, <1>4 DEF Sent, Activations
<1>7. QED
  BY <1>2, <1>5, <1>6, MoveOnly DEF Forward, f

\* The lookups and the placement of a request, which has sent nothing in this try.
LEMMA Routed ==
  ASSUME FInv, NEW r \in Requests,
         Lookup(r) \/ LookupAgain(r) \/ PlaceOnNode(r) \/ PlaceOnPipeline(r)
  PROVE  FInv'
<1> DEFINE f == flow[r]
<1>1. Sound(r, f) /\ Formed(f) /\ pipeline.epoch \in Nat /\ pipeline.chain \in Chains
      /\ UNCHANGED <<pipeline, net, store, taken>>
  BY DEF FInv, Sound, Typed, Lookup, LookupAgain, PlaceOnNode, PlaceOnPipeline
<1>2. ASSUME NEW g, Formed(g), g.at \in {"place", "weigh"}, f.at \in {"lookup", "place"},
             g.tries = f.tries, g.nodes = f.nodes, g.stage = f.stage, g.epoch = f.epoch,
             flow' = [flow EXCEPT ![r] = g]
      PROVE  FInv'
  <2> HIDE DEF f
  <2>1. Sound(r, g)
    BY <1>1, <1>2 DEF Sound, Moving
  <2>2. \A a \in Activations : Sent(a, f) => Sent(a, g)
    BY <1>2 DEF Sent
  <2>3. QED
    BY <1>1, <1>2, <2>1, <2>2, MoveOnly DEF Forward, f
<1>3. CASE PlaceOnNode(r) /\ config.policy = "capability" /\ flow[r].nodes \cap alive = {}
  <2>1. flow' = [flow EXCEPT ![r] = [f EXCEPT !.at = "failed"]]
    BY <1>3 DEF PlaceOnNode, Goes, FInv, Typed
  <2>2. QED
    BY <1>1, <2>1, GoesForward, MoveOnly DEF Moving
<1>4. CASE PlaceOnNode(r) /\ ~(config.policy = "capability" /\ flow[r].nodes \cap alive = {})
  <2> DEFINE t == Target(r)
             g == [f EXCEPT !.at = "compute", !.chain = <<t>>]
  <2>1. flow' = [flow EXCEPT ![r] = g] /\ f.at \in {"place", "weigh"}
    <3> HIDE DEF t
    <3>1. /\ flow' = [flow EXCEPT ![r].at = "compute", ![r].chain = <<t>>]
          /\ f.at \in {"place", "weigh"}
      BY <1>4 DEF PlaceOnNode, t
    <3>2. QED
      BY <3>1 DEF FInv, Typed
  <2> HIDE DEF t
  <2>2. /\ Formed(g) /\ g.at = "compute" /\ g.tries = f.tries /\ g.nodes = f.nodes
        /\ g.stage = f.stage /\ g.epoch = f.epoch /\ g.chain = <<t>>
    <3> HIDE DEF f
    <3>1. g = Record("compute", f.tries, f.nodes, f.hit, f.epoch, <<t>>, f.stage, f.input)
      BY <1>1, ChainChanged
    <3> HIDE DEF g
    <3>2. QED
      BY <3>1, Fields
  <2> HIDE DEF f, g
  <2>3. g.stage = 1 /\ Len(g.chain) = 1
    BY <1>1, <2>1, <2>2 DEF Sound
  <2>4. Sound(r, g)
    BY <1>1, <2>2, <2>3 DEF Sound, Moving, Fed
  <2>5. \A a \in Activations : Sent(a, f) => Sent(a, g)
    BY <2>1, <2>2 DEF Sent
  <2>6. QED
    BY <1>1, <2>1, <2>4, <2>5, MoveOnly DEF Forward, f
<1>5. CASE PlaceOnPipeline(r)
  <2> DEFINE g == [f EXCEPT !.at = "compute", !.epoch = pipeline.epoch, !.chain = pipeline.chain]
  <2>1. flow' = [flow EXCEPT ![r] = g] /\ f.at = "place"
    BY <1>5 DEF PlaceOnPipeline, FInv, Typed
  <2>2. /\ Formed(g) /\ g.at = "compute" /\ g.tries = f.tries /\ g.nodes = f.nodes
        /\ g.stage = f.stage /\ g.epoch = pipeline.epoch /\ g.chain = pipeline.chain
    <3> DEFINE e == pipeline.epoch
               c == pipeline.chain
    <3> HIDE DEF f, e, c
    <3>1. [f EXCEPT !.at = "compute", !.epoch = e, !.chain = c] =
            Record("compute", f.tries, f.nodes, f.hit, e, c, f.stage, f.input)
      BY <1>1, PlanChanged
    <3>2. g = Record("compute", f.tries, f.nodes, f.hit, pipeline.epoch, pipeline.chain, f.stage, f.input)
      BY <3>1 DEF e, c
    <3> HIDE DEF g
    <3>3. QED
      BY <3>2, Fields
  <2> HIDE DEF f, g
  <2>3. g.stage = 1
    BY <1>1, <2>1, <2>2 DEF Sound
  <2>4. Len(g.chain) = NumStages /\ 1 <= NumStages
    BY <1>1, <2>2, FlowAssumption, RoutingAssumption DEF Chains
  <2>5. Sound(r, g)
    BY <1>1, <2>2, <2>3, <2>4 DEF Sound, Moving, Fed
  <2>6. \A a \in Activations : Sent(a, f) => Sent(a, g)
    BY <2>1, <2>2 DEF Sent
  <2>7. QED
    BY <1>1, <2>1, <2>5, <2>6, MoveOnly DEF Forward, f
<1>6. CASE Lookup(r)
  <2> DEFINE h == HitBlocks(index)
             g == [f EXCEPT !.at = "place", !.hit = h]
  <2>1. flow' = [flow EXCEPT ![r] = g] /\ f.at = "lookup"
    BY <1>6 DEF Lookup, FInv, Typed
  <2>2. /\ Formed(g) /\ g.at = "place" /\ g.tries = f.tries /\ g.nodes = f.nodes
        /\ g.stage = f.stage /\ g.epoch = f.epoch
    <3> HIDE DEF f, h
    <3>1. g = Record("place", f.tries, f.nodes, h, f.epoch, f.chain, f.stage, f.input)
      BY <1>1, HitChanged
    <3> HIDE DEF g
    <3>2. QED
      BY <3>1, Fields
  <2> HIDE DEF f, g
  <2>3. QED
    BY <1>2, <2>1, <2>2
<1>7. CASE LookupAgain(r)
  <2> DEFINE h == Matched(index, flow[r].hit)
             g == [f EXCEPT !.at = "weigh", !.hit = h]
  <2>1. flow' = [flow EXCEPT ![r] = g] /\ f.at = "place"
    BY <1>7 DEF LookupAgain, FInv, Typed
  <2>2. /\ Formed(g) /\ g.at = "weigh" /\ g.tries = f.tries /\ g.nodes = f.nodes
        /\ g.stage = f.stage /\ g.epoch = f.epoch
    <3> HIDE DEF f, h
    <3>1. g = Record("weigh", f.tries, f.nodes, h, f.epoch, f.chain, f.stage, f.input)
      BY <1>1, HitChanged
    <3> HIDE DEF g
    <3>2. QED
      BY <3>1, Fields
  <2> HIDE DEF f, g
  <2>3. QED
    BY <1>2, <2>1, <2>2
<1>8. QED
  BY <1>3, <1>4, <1>5, <1>6, <1>7

\* A stage never refuses its input: it ends the request, fails, or has a successor.
LEMMA Computed ==
  ASSUME FInv, NEW r \in Requests, Compute(r) \/ ComputeFails(r)
  PROVE  FInv'
<1> DEFINE f == flow[r]
<1>1. /\ Sound(r, f) /\ f.at = "compute" /\ UNCHANGED <<pipeline, net, store, taken>>
      /\ f.stage \in 1..NumStages
  BY DEF FInv, Sound, Compute, ComputeFails
<1>2. CASE ComputeFails(r)
  <2>1. flow' = [flow EXCEPT ![r] = [f EXCEPT !.at = "failed"]]
    BY <1>2 DEF ComputeFails, Goes, FInv, Typed
  <2>2. QED
    BY <1>1, <2>1, GoesForward, MoveOnly DEF Moving
<1>3. CASE Compute(r) /\ f.stage = Len(f.chain)
  <2>1. Fits(r)
    BY <1>1 DEF Sound, Fits, Fed
  <2>2. flow' = [flow EXCEPT ![r] = [f EXCEPT !.at = "done"]]
    BY <1>3, <2>1 DEF Compute, Goes, FInv, Typed
  <2>3. QED
    BY <1>1, <2>2, GoesForward, MoveOnly DEF Moving
<1>4. CASE Compute(r) /\ f.stage # Len(f.chain)
  <2>1. Fits(r)
    BY <1>1 DEF Sound, Fits, Fed
  <2>2. flow' = [flow EXCEPT ![r] = [f EXCEPT !.at = "deliver"]]
    BY <1>4, <2>1 DEF Compute, Goes, FInv, Typed
  <2>3. f.stage <= Len(f.chain) /\ (Len(f.chain) = 1 \/ f.chain \in Chains)
    BY <1>1 DEF Sound
  <2>4. f.chain \in Chains => Len(f.chain) = NumStages
    BY FlowAssumption, RoutingAssumption DEF Chains
  <2>5. f.chain \in Chains /\ f.stage < NumStages
    <3> HIDE DEF f
    <3>1. CASE Len(f.chain) = 1
      BY <1>1, <1>4, <2>3, <3>1
    <3>2. CASE f.chain \in Chains
      BY <1>1, <1>4, <2>3, <2>4, <3>2, FlowAssumption
    <3>3. QED
      BY <2>3, <3>1, <3>2
  <2>6. QED
    BY <1>1, <2>2, <2>5, GoesForward, MoveOnly DEF Moving
<1>5. QED
  BY <1>1, <1>2, <1>3, <1>4

-----------------------------------------------------------------------------
(* Activations *)

\* Whatever was sent counts as sent after a step.
Keeps == \A a \in Activations : Sent(a, flow[a.req]) => Sent(a, flow'[a.req])

\* An activation that was neither pushed nor stored nor read.
Nowhere(b) ==
  /\ b \notin taken
  /\ \A n \in Nodes : b \notin store[n]
  /\ \A n \in Nodes, c \in 1..MaxConns : \A i \in 1..Len(wire[n][c]) : wire[n][c][i] # b

\* w is b behind the first k messages of a connection.
Extends(w, k, n, c, b) ==
  /\ w \in Seq(Activations) /\ k \in 0..Len(wire[n][c]) /\ Len(w) = k + 1 /\ w[k + 1] = b
  /\ \A i \in 1..k : w[i] = wire[n][c][i]

\* One connection changes.
WireIs(n, c, w) ==
  \A m \in Nodes, d \in 1..MaxConns :
    wire'[m][d] = IF m = n /\ d = c THEN w ELSE wire[m][d]

\* A request between two stages has an activation for the node of the next.
LEMMA MovingFacts ==
  ASSUME FInv, NEW r \in Requests, flow[r].at \in Moving
  PROVE  /\ Activation(r) \in Activations /\ Activation(r).req = r
         /\ Destination(r) \in Nodes /\ Activation(r).destination = Destination(r)
         /\ Activation(r).try = flow[r].tries /\ Activation(r).stage = flow[r].stage
         /\ Activation(r).epoch = flow[r].epoch
         /\ Activation(r).source = flow[r].chain[flow[r].stage]
         /\ flow[r].chain \in Chains /\ flow[r].stage \in 1..(NumStages - 1)
<1> DEFINE f == flow[r]
<1>1. Sound(r, f)
  BY DEF FInv
<1>2. /\ f.chain \in Chains /\ f.stage \in Nat /\ f.stage \in 1..(NumStages - 1)
      /\ f.stage \in 1..NumStages /\ f.stage + 1 \in 1..NumStages /\ f.epoch \in Nat /\ f.tries \in Nat
  BY <1>1, FlowAssumption, RoutingAssumption DEF Sound
<1>3. f.chain[f.stage] \in Nodes /\ f.chain[f.stage + 1] \in Nodes
  <2> HIDE DEF f
  <2>1. QED
    BY <1>2 DEF Chains
<1>4. QED
  BY <1>2, <1>3 DEF Activation, Destination, Activations

\* Before it is pushed, an activation is nowhere.
LEMMA Fresh ==
  ASSUME FInv, NEW r \in Requests, flow[r].at \in {"deliver", "connect"}
  PROVE  Nowhere(Activation(r))
<1> DEFINE a == Activation(r)
<1>1. a.req = r /\ a.try = flow[r].tries /\ a.stage = flow[r].stage
  BY MovingFacts DEF Moving
<1>2. flow[r].stage \in 1..NumStages
  BY DEF FInv, Sound
<1> HIDE DEF a
<1>3. ~Sent(a, flow[a.req])
  BY <1>1, <1>2 DEF Sent
<1>4. QED
  BY <1>3 DEF FInv, Stores, Wires, OnlyThere, Nowhere, a

\* The stage after the one that sent the activation is fed by it.
LEMMA DeliveredForward ==
  ASSUME FInv, NEW r \in Requests, flow[r].at \in Moving,
         NEW found, \A a \in found : a \in Activations /\ Tag(a) = Tag(Activation(r)),
         Delivered(r, found)
  PROVE  \E g : Forward(r, g) /\ flow' = [flow EXCEPT ![r] = g]
<1> DEFINE f == flow[r]
<1>1. Sound(r, f) /\ Formed(f)
  BY DEF FInv, Sound
<1>2. CASE found = {}
  <2>1. flow' = [flow EXCEPT ![r] = [f EXCEPT !.at = "failed"]]
    BY <1>2 DEF Delivered
  <2>2. Forward(r, [f EXCEPT !.at = "failed"])
    BY GoesForward DEF Moving
  <2>3. QED
    BY <2>1, <2>2
<1>3. CASE found # {}
  <2> DEFINE a == CHOOSE b \in found : TRUE
             k == f.stage + 1
             g == [f EXCEPT !.at = "compute", !.stage = k, !.input = a]
  <2>1. flow' = [flow EXCEPT ![r] = g]
    BY <1>3 DEF Delivered
  <2>2. a \in found
    BY <1>3
  <2>3. /\ a.req = r /\ a.epoch = f.epoch /\ a.stage = f.stage
        /\ a.source = f.chain[f.stage] /\ a.destination = f.chain[k]
    <3>1. Tag(a) = Tag(Activation(r))
      BY <2>2
    <3>2. QED
      BY <3>1, MovingFacts DEF Tag, Destination
  <2>5. f.chain \in Chains /\ f.stage \in 1..(NumStages - 1)
    BY MovingFacts
  <2>6. /\ Formed(g) /\ g.at = "compute" /\ g.tries = f.tries /\ g.stage = k /\ g.epoch = f.epoch
        /\ g.chain = f.chain /\ g.input = a
    <3> HIDE DEF f, k, a
    <3> DEFINE e1 == [f EXCEPT !.at = "compute"]
    <3>1. e1 = Record("compute", f.tries, f.nodes, f.hit, f.epoch, f.chain, f.stage, f.input)
      BY <1>1 DEF Formed, Record
    <3> HIDE DEF e1
    <3> DEFINE e2 == [e1 EXCEPT !.stage = k]
    <3>2. e2 = Record("compute", f.tries, f.nodes, f.hit, f.epoch, f.chain, k, f.input)
      BY <3>1 DEF Record
    <3> HIDE DEF e2
    <3>3. [e2 EXCEPT !.input = a] = Record("compute", f.tries, f.nodes, f.hit, f.epoch, f.chain, k, a)
      BY <3>2 DEF Record
    <3>4. g = Record("compute", f.tries, f.nodes, f.hit, f.epoch, f.chain, k, a)
      BY <3>3 DEF e1, e2
    <3> HIDE DEF g
    <3>5. QED
      BY <3>4, Fields
  <2> HIDE DEF g, a, k
  <2> HIDE DEF f
  <2>7. k \in 1..NumStages /\ k = f.stage + 1 /\ k - 1 = f.stage /\ Len(f.chain) = NumStages
    BY <2>5, FlowAssumption, RoutingAssumption DEF k, Chains
  <2>8. Sound(r, g)
    BY <1>1, <2>3, <2>5, <2>6, <2>7 DEF Sound, Fed, Moving
  <2>9. \A b \in Activations : Sent(b, f) => Sent(b, g)
    BY <2>5, <2>6, <2>7 DEF Sent, Activations
  <2>10. QED
    BY <2>1, <2>8, <2>9 DEF Forward, f
<1>4. QED
  BY <1>2, <1>3

-----------------------------------------------------------------------------
(* The network *)

\* A request that only moves in the code and on the way leaves the network alone.
LEMMA StepsAside ==
  ASSUME FInv, NEW r \in Requests, HandOver(r) \/ StartConnect(r) \/ PushLost(r) \/ ConnectionFails(r)
  PROVE  FInv'
<1>1. flow[r].at \in Moving /\ UNCHANGED <<pipeline, net, store, taken>>
  BY DEF HandOver, StartConnect, PushLost, ConnectionFails, Moving
<1>2. CASE HandOver(r)
  <2>1. Delivered(r, {Activation(r)})
    BY <1>2 DEF HandOver
  <2>2. Activation(r) \in Activations
    BY <1>1, MovingFacts
  <2>3. PICK g : Forward(r, g) /\ flow' = [flow EXCEPT ![r] = g]
    BY <1>1, <2>1, <2>2, DeliveredForward
  <2>4. QED
    BY <1>1, <2>3, MoveOnly
<1>3. ASSUME NEW x \in {"failed", "pull", "connect"}, Goes(r, x), flow[r].at = "pull" => x = "failed"
      PROVE  FInv'
  <2>1. flow' = [flow EXCEPT ![r] = [flow[r] EXCEPT !.at = x]]
    BY <1>3 DEF Goes, FInv, Typed
  <2>2. flow[r].chain \in Chains /\ flow[r].stage < NumStages
    BY <1>1 DEF FInv, Sound
  <2>3. Forward(r, [flow[r] EXCEPT !.at = x])
    BY <1>1, <1>3, <2>2, GoesForward DEF Moving
  <2>4. QED
    BY <1>1, <2>1, <2>3, MoveOnly
<1>4. CASE StartConnect(r)
  BY <1>3, <1>4 DEF StartConnect
<1>5. CASE PushLost(r)
  BY <1>3, <1>5 DEF PushLost
<1>6. CASE ConnectionFails(r)
  BY <1>3, <1>6 DEF ConnectionFails
<1>7. QED
  BY <1>2, <1>4, <1>5, <1>6

\* The sender of an activation waits for the next stage to read it: from then on it
\* counts as sent.
LEMMA Sending ==
  ASSUME FInv, NEW r \in Requests, flow[r].at \in {"deliver", "connect"}, Goes(r, "pull")
  PROVE  /\ flow' = [q \in Requests |-> flow'[q]]
         /\ \A q \in Requests : Sound(q, flow'[q])
         /\ Keeps
         /\ Sent(Activation(r), flow'[Activation(r).req])
<1> DEFINE g == [flow[r] EXCEPT !.at = "pull"]
<1>1. flow' = [flow EXCEPT ![r] = g]
  BY DEF Goes, FInv, Typed
<1>2. flow[r].chain \in Chains /\ flow[r].stage < NumStages
  BY DEF FInv, Sound, Moving
<1>3. Forward(r, g)
  BY <1>2, GoesForward DEF Moving
<1>4. g.at = "pull" /\ g.tries = flow[r].tries /\ g.stage = flow[r].stage
  BY DEF FInv, Sound, Formed, Record
<1>5. flow'[r] = g
  BY <1>1 DEF FInv, Typed
<1> HIDE DEF g
<1>6. Typed
  BY DEF FInv
<1>7. flow[r].stage \in Nat /\ flow[r].tries \in Nat
  BY DEF FInv, Sound
<1>8. Sent(Activation(r), flow'[Activation(r).req])
  BY <1>4, <1>5, <1>7, MovingFacts DEF Sent, Moving
<1>9. QED
  BY <1>1, <1>3, <1>6, <1>8, StillSent, StillSound DEF Keeps

\* A store that gets an activation which is not in it, is not read and is sent to it.
LEMMA StoredOnce ==
  ASSUME FInv, Typed', UNCHANGED taken,
         Keeps,
         NEW n \in Nodes, NEW b \in Activations,
         b.destination = n, b \notin taken, Sent(b, flow'[b.req]),
         store' = [store EXCEPT ![n] = Stored(@, b)]
  PROVE  Stores'
<1> SUFFICES ASSUME NEW m \in Nodes, NEW a \in store'[m]
             PROVE  /\ a.destination = m /\ a \notin taken /\ Sent(a, flow'[a.req])
                    /\ \A c \in store'[m] : Tag(a) = Tag(c) => a = c
  BY DEF Stores, Tag
<1>1. store \in [Nodes -> SUBSET Activations]
  BY DEF FInv, Typed
<1>2. CASE m # n
  <2>1. store'[m] = store[m]
    BY <1>1, <1>2
  <2>2. QED
    BY <1>1, <2>1 DEF FInv, Stores, Keeps
<1>3. CASE m = n
  <2>1. store'[n] = Stored(store[n], b)
    BY <1>1
  <2>2. a = b \/ (a \in store[n] /\ Tag(a) # Tag(b))
    BY <1>3, <2>1 DEF Stored
  <2>3. a.destination = m /\ a \notin taken /\ Sent(a, flow'[a.req])
    BY <1>1, <1>3, <2>2 DEF FInv, Stores, Keeps
  <2>4. ASSUME NEW c \in store'[n], Tag(a) = Tag(c) PROVE a = c
    <3>1. c = b \/ (c \in store[n] /\ Tag(c) # Tag(b))
      BY <2>1 DEF Stored
    <3>2. QED
      BY <2>2, <2>4, <3>1 DEF FInv, Stores
  <2>5. QED
    BY <1>3, <2>3, <2>4
<1>4. QED
  BY <1>2, <1>3

\* The mock transport stores the activation at once.
LEMMA MockStored ==
  ASSUME FInv, NEW r \in Requests, PushMock(r)
  PROVE  FInv'
<1> DEFINE n == Destination(r)
           b == Activation(r)
<1>1. /\ flow[r].at = "deliver" /\ Goes(r, "pull") /\ store' = [store EXCEPT ![n] = Stored(@, b)]
      /\ UNCHANGED <<pipeline, net, taken>>
  BY DEF PushMock
<1>2. n \in Nodes /\ b \in Activations /\ b.destination = n
  BY <1>1, MovingFacts DEF Moving
<1>3. b \notin taken /\ \A m \in Nodes, c \in 1..MaxConns : \A i \in 1..Len(wire[m][c]) : wire[m][c][i] # b
  BY <1>1, Fresh DEF Nowhere
<1>4. /\ flow' = [q \in Requests |-> flow'[q]] /\ \A q \in Requests : Sound(q, flow'[q])
      /\ Keeps
      /\ Sent(b, flow'[b.req])
  BY <1>1, Sending
<1> HIDE DEF n, b
<1>5. Typed /\ store \in [Nodes -> SUBSET Activations]
  BY DEF FInv, Typed
<1>6. \A m \in Nodes : store'[m] \subseteq store[m] \cup {b}
  BY <1>1, <1>5 DEF Stored
<1>7. Typed'
  <2>1. store' \in [Nodes -> SUBSET Activations]
    BY <1>1, <1>2, <1>5, <1>6
  <2>2. QED
    BY <1>1, <1>4, <1>5, <2>1 DEF Typed, net
<1>8. Stores'
  BY <1>1, <1>2, <1>3, <1>4, <1>7, StoredOnce
<1>9. Wires'
  <2> SUFFICES ASSUME NEW m \in Nodes, NEW c \in 1..MaxConns, NEW i \in 1..Len(wire[m][c])
               PROVE  OnlyThere(m, c, i)'
    BY <1>1 DEF Wires, net
  <2> DEFINE a == wire[m][c][i]
  <2>1. a \in Activations /\ a # b
    BY <1>3, <1>5, OnWire
  <2>2. /\ a.destination = m /\ a \notin taken /\ a \notin store[m] /\ Sent(a, flow[a.req])
        /\ \A d \in 1..MaxConns : \A j \in 1..Len(wire[m][d]) : wire[m][d][j] = a => d = c /\ j = i
    BY DEF FInv, Wires, OnlyThere
  <2> HIDE DEF a
  <2>3. a \notin store'[m] /\ Sent(a, flow'[a.req])
    BY <1>4, <1>6, <2>1, <2>2 DEF Keeps
  <2>4. QED
    BY <1>1, <2>2, <2>3 DEF OnlyThere, a, net
<1>10. \A a \in taken : Sent(a, flow'[a.req])
  BY <1>4, <1>5 DEF FInv, Typed, Keeps
<1>11. QED
  BY <1>1, <1>4, <1>7, <1>8, <1>9, <1>10 DEF FInv

\* An activation that is nowhere is written behind what is on a connection.
LEMMA Written ==
  ASSUME FInv, UNCHANGED <<store, taken>>, Keeps,
         NEW n \in Nodes, NEW c \in 1..MaxConns, NEW b \in Activations,
         b.destination = n, Nowhere(b), Sent(b, flow'[b.req]),
         NEW k, NEW w, Extends(w, k, n, c, b), WireIs(n, c, w)
  PROVE  Wires'
<1>1. Typed
  BY DEF FInv
<1>3. Len(wire[n][c]) \in Nat /\ k \in Nat
  BY <1>1, OnWire DEF Extends
<1>4. ASSUME NEW m \in Nodes, NEW d \in 1..MaxConns, NEW i \in 1..Len(wire'[m][d])
      PROVE  \/ m = n /\ d = c /\ i = k + 1 /\ wire'[m][d][i] = b
             \/ i \in 1..Len(wire[m][d]) /\ wire'[m][d][i] = wire[m][d][i]
  BY <1>3, <1>4 DEF Extends, WireIs
<1> SUFFICES ASSUME NEW m \in Nodes, NEW d \in 1..MaxConns, NEW i \in 1..Len(wire'[m][d])
             PROVE  OnlyThere(m, d, i)'
  BY DEF Wires
<1> DEFINE a == wire'[m][d][i]
<1>5. CASE a = b
  <2>1. m = n /\ d = c /\ i = k + 1
    BY <1>4, <1>5 DEF Nowhere
  <2>2. ASSUME NEW e \in 1..MaxConns, NEW j \in 1..Len(wire'[m][e]), wire'[m][e][j] = a
        PROVE  e = d /\ j = i
    <3>1. CASE j \in 1..Len(wire[m][e]) /\ wire'[m][e][j] = wire[m][e][j]
      BY <1>5, <2>2, <3>1 DEF Nowhere
    <3>2. CASE e = c /\ j = k + 1
      BY <2>1, <3>2
    <3>3. QED
      BY <1>4, <3>1, <3>2
  <2>3. a.destination = m /\ a \notin taken /\ a \notin store[m] /\ Sent(a, flow'[a.req])
    BY <1>5, <2>1 DEF Nowhere
  <2>4. QED
    BY <2>2, <2>3 DEF OnlyThere
<1>6. CASE a # b
  <2>1. i \in 1..Len(wire[m][d]) /\ a = wire[m][d][i]
    BY <1>4, <1>6
  <2>2. a \in Activations
    BY <1>1, <2>1, OnWire
  <2>3. /\ a.destination = m /\ a \notin taken /\ a \notin store[m] /\ Sent(a, flow[a.req])
        /\ \A e \in 1..MaxConns : \A j \in 1..Len(wire[m][e]) : wire[m][e][j] = a => e = d /\ j = i
    <3>1. OnlyThere(m, d, i)
      BY <2>1 DEF FInv, Wires
    <3>2. QED
      BY <2>1, <3>1 DEF OnlyThere
  <2>4. Sent(a, flow'[a.req])
    BY <2>2, <2>3 DEF Keeps
  <2>5. ASSUME NEW e \in 1..MaxConns, NEW j \in 1..Len(wire'[m][e]), wire'[m][e][j] = a
        PROVE  e = d /\ j = i
    <3>1. \/ m = n /\ e = c /\ j = k + 1 /\ wire'[m][e][j] = b
          \/ j \in 1..Len(wire[m][e]) /\ wire'[m][e][j] = wire[m][e][j]
      BY <1>4
    <3>2. j \in 1..Len(wire[m][e]) /\ wire[m][e][j] = a
      BY <1>6, <2>5, <3>1
    <3>3. QED
      BY <2>3, <3>2
  <2>6. QED
    BY <2>3, <2>4, <2>5 DEF OnlyThere
<1>7. QED
  BY <1>5, <1>6

\* What is pushed on a connection, or is gone with one that was reset.
LEMMA Pushed ==
  ASSUME FInv, NEW r \in Requests, Push(r) \/ PushOnNewWriter(r)
  PROVE  FInv'
<1> DEFINE n == Destination(r)
           b == Activation(r)
<1>1. /\ flow[r].at \in {"deliver", "connect"} /\ Goes(r, "pull")
      /\ UNCHANGED <<pipeline, store, taken>>
  BY DEF Push, PushOnNewWriter
<1>2. n \in Nodes /\ b \in Activations /\ b.destination = n
  BY <1>1, MovingFacts DEF Moving
<1>3. Nowhere(b)
  BY <1>1, Fresh
<1>4. /\ flow' = [q \in Requests |-> flow'[q]] /\ \A q \in Requests : Sound(q, flow'[q])
      /\ Keeps
      /\ Sent(b, flow'[b.req])
  BY <1>1, Sending
<1>5. CASE Push(r) /\ <<n, writer[n]>> \in broken
  <2>1. flow' = [flow EXCEPT ![r] = [flow[r] EXCEPT !.at = "pull"]]
    BY <1>1 DEF Goes, FInv, Typed
  <2>2. UNCHANGED <<pipeline, net, store, taken>>
    BY <1>5 DEF Push, net
  <2>3. flow[r].chain \in Chains /\ flow[r].stage < NumStages
    BY <1>1 DEF FInv, Sound, Moving
  <2>4. Forward(r, [flow[r] EXCEPT !.at = "pull"])
    BY <1>1, <2>3, GoesForward DEF Moving
  <2>5. QED
    BY <2>1, <2>2, <2>4, MoveOnly
<1> HIDE DEF b, n
<1>6. Typed
  BY DEF FInv
<1>7. ASSUME NEW c \in 1..MaxConns, NEW k, NEW w, Extends(w, k, n, c, b),
             wire' = [wire EXCEPT ![n][c] = w], opened' \in [Nodes -> 0..MaxConns], writer' = opened'
      PROVE  FInv'
  <2>1. wire' \in [Nodes -> [1..MaxConns -> Seq(Activations)]]
    BY <1>2, <1>6, <1>7 DEF Typed, Extends
  <2>2. Typed'
    BY <1>1, <1>4, <1>6, <1>7, <2>1 DEF Typed
  <2>3. Stores'
    BY <1>1, <1>4, <1>6 DEF FInv, Stores, Typed, Tag, Keeps
  <2>4. Wires'
    <3>1. WireIs(n, c, w)
      BY <1>6, <1>7 DEF Typed, WireIs
    <3>2. UNCHANGED <<store, taken>>
      BY <1>1
    <3>3. QED
      BY <1>2, <1>3, <1>4, <1>7, <3>1, <3>2, Written
  <2>5. \A a \in taken : Sent(a, flow'[a.req])
    BY <1>4, <1>6 DEF FInv, Typed, Keeps
  <2>6. QED
    BY <1>1, <1>4, <2>2, <2>3, <2>4, <2>5 DEF FInv
<1>8. CASE Push(r) /\ <<n, writer[n]>> \notin broken
  <2> DEFINE c == writer[n]
             k == Len(wire[n][c])
             w == Append(wire[n][c], b)
  <2>1. /\ c # 0 /\ wire' = [wire EXCEPT ![n][c] = Append(@, b)]
        /\ UNCHANGED <<writer, opened>>
    BY <1>8 DEF Push, n, b
  <2>2. c \in 1..MaxConns
    BY <1>2, <1>6, <2>1, FlowAssumption DEF Typed
  <2>3. wire[n][c] \in Seq(Activations) /\ Len(wire[n][c]) \in Nat
    BY <1>2, <1>6, <2>2, OnWire
  <2>4. Extends(w, k, n, c, b)
    BY <1>2, <2>3 DEF Extends
  <2>5. wire' = [wire EXCEPT ![n][c] = w]
    BY <2>1
  <2>6. opened' \in [Nodes -> 0..MaxConns] /\ writer' = opened'
    BY <1>6, <2>1 DEF Typed
  <2> HIDE DEF c, w, k
  <2>7. QED
    BY <1>7, <2>2, <2>3, <2>4, <2>5, <2>6
<1>9. CASE PushOnNewWriter(r)
  <2> DEFINE c == opened[n] + 1
             w == <<b>>
  <2>1. /\ c <= MaxConns /\ wire' = [wire EXCEPT ![n][c] = w]
        /\ opened' = [opened EXCEPT ![n] = c] /\ writer' = [writer EXCEPT ![n] = c]
    BY <1>9 DEF PushOnNewWriter, n, b
  <2>2. c \in 1..MaxConns
    BY <1>2, <1>6, <2>1, FlowAssumption DEF Typed
  <2>3. opened' \in [Nodes -> 0..MaxConns] /\ writer' = opened'
    <3>1. opened \in [Nodes -> 0..MaxConns] /\ writer = opened /\ c \in 0..MaxConns
      BY <1>6, <2>2, FlowAssumption DEF Typed
    <3> HIDE DEF c
    <3>2. QED
      BY <1>2, <2>1, <3>1
  <2>4. Extends(w, 0, n, c, b)
    BY <1>2, <1>6, <2>2, OnWire DEF Extends
  <2> HIDE DEF c, w
  <2>5. QED
    BY <1>7, <2>1, <2>2, <2>3, <2>4
<1>10. QED
  BY <1>5, <1>8, <1>9 DEF n

\* A connection that is reset loses what is on it.
LEMMA ResetSound ==
  ASSUME FInv, NEW n \in Nodes, NEW c \in 1..MaxConns, Reset(n, c)
  PROVE  FInv'
<1>1. Typed /\ UNCHANGED <<pipeline, flow, writer, opened, store, taken>>
  BY DEF FInv, Reset
<1>2. WireIs(n, c, <<>>) /\ wire' \in [Nodes -> [1..MaxConns -> Seq(Activations)]]
  <2>1. wire' = [wire EXCEPT ![n][c] = <<>>] /\ <<>> \in Seq(Activations)
    BY DEF Reset
  <2>2. wire \in [Nodes -> [1..MaxConns -> Seq(Activations)]]
    BY <1>1 DEF Typed
  <2>3. WireIs(n, c, <<>>)
    BY <2>1, <2>2 DEF WireIs
  <2>4. QED
    BY <2>1, <2>2, <2>3
<1>3. Typed' /\ Stores' /\ (\A q \in Requests : Sound(q, flow'[q]))
  BY <1>1, <1>2 DEF FInv, Typed, Stores, Tag
<1>4. Wires'
  <2> SUFFICES ASSUME NEW m \in Nodes, NEW d \in 1..MaxConns, NEW i \in 1..Len(wire'[m][d])
               PROVE  OnlyThere(m, d, i)'
    BY DEF Wires
  <2>1. \A e \in 1..MaxConns : \A j \in 1..Len(wire'[m][e]) :
          j \in 1..Len(wire[m][e]) /\ wire'[m][e][j] = wire[m][e][j]
    BY <1>2 DEF WireIs
  <2>2. OnlyThere(m, d, i)
    BY <2>1 DEF FInv, Wires
  <2>3. QED
    BY <1>1, <2>1, <2>2 DEF OnlyThere
<1>5. QED
  BY <1>1, <1>3, <1>4 DEF FInv

\* The receiver stores the first message of a connection in place of what it had under
\* the tag.
LEMMA Received ==
  ASSUME FInv, NEW n \in Nodes, NEW c \in 1..MaxConns, ReceivePush(n, c)
  PROVE  FInv'
<1> DEFINE s == wire[n][c]
           b == Head(s)
<1>1. /\ Typed /\ UNCHANGED <<pipeline, flow, writer, opened, taken>> /\ s # <<>>
      /\ store' = [store EXCEPT ![n] = Stored(@, b)] /\ wire' = [wire EXCEPT ![n][c] = Tail(s)]
  BY DEF FInv, ReceivePush
<1>2. s \in Seq(Activations) /\ Len(s) \in Nat
  BY <1>1, OnWire
<1>3. /\ 1 \in 1..Len(s) /\ b = s[1] /\ b \in Activations
      /\ Tail(s) \in Seq(Activations) /\ Len(Tail(s)) = Len(s) - 1
      /\ \A i \in 1..Len(Tail(s)) : Tail(s)[i] = s[i + 1]
  BY <1>1, <1>2
<1>4. OnlyThere(n, c, 1)
  BY <1>3 DEF FInv, Wires
<1>5. b.destination = n /\ b \notin taken /\ Sent(b, flow'[b.req])
  BY <1>1, <1>3, <1>4 DEF OnlyThere
<1>6. WireIs(n, c, Tail(s)) /\ wire' \in [Nodes -> [1..MaxConns -> Seq(Activations)]]
  BY <1>1, <1>3 DEF Typed, WireIs
<1>7. Keeps
  BY <1>1 DEF Keeps
<1> HIDE DEF b
<1>8. store' \in [Nodes -> SUBSET Activations] /\ \A m \in Nodes : store'[m] \subseteq store[m] \cup {b}
  BY <1>1, <1>3 DEF Typed, Stored
<1>9. \A m \in Nodes : m # n => store'[m] = store[m]
  BY <1>1 DEF Typed
<1>10. Typed' /\ (\A q \in Requests : Sound(q, flow'[q]))
  BY <1>1, <1>6, <1>8 DEF FInv, Typed
<1>11. Stores'
  BY <1>1, <1>3, <1>5, <1>7, <1>10, StoredOnce
<1>12. Wires'
  <2> SUFFICES ASSUME NEW m \in Nodes, NEW d \in 1..MaxConns, NEW i \in 1..Len(wire'[m][d])
               PROVE  OnlyThere(m, d, i)'
    BY DEF Wires
  <2> DEFINE was(e, j) == IF m = n /\ e = c THEN j + 1 ELSE j
  <2>1. ASSUME NEW e \in 1..MaxConns, NEW j \in 1..Len(wire'[m][e])
        PROVE  was(e, j) \in 1..Len(wire[m][e]) /\ wire'[m][e][j] = wire[m][e][was(e, j)]
    <3>1. CASE m = n /\ e = c
      <4>1. wire'[m][e] = Tail(s) /\ wire[m][e] = s /\ j \in 1..Len(Tail(s))
        BY <1>6, <3>1 DEF WireIs
      <4>2. Tail(s)[j] = s[j + 1] /\ j + 1 \in 1..Len(s)
        BY <1>2, <1>3, <4>1
      <4>3. QED
        BY <3>1, <4>1, <4>2
    <3>2. CASE ~(m = n /\ e = c)
      BY <1>6, <3>2 DEF WireIs
    <3>3. QED
      BY <3>1, <3>2
  <2> DEFINE a == wire'[m][d][i]
             k == was(d, i)
  <2>2. a = wire[m][d][k] /\ k \in 1..Len(wire[m][d])
    BY <2>1
  <2>3. OnlyThere(m, d, k)
    BY <2>2 DEF FInv, Wires
  <2> HIDE DEF a, k
  <2>4. a.destination = m /\ a \notin taken' /\ a \notin store[m] /\ Sent(a, flow'[a.req])
    BY <1>1, <2>2, <2>3 DEF OnlyThere
  <2>5. a \notin store'[m]
    <3>1. CASE m # n
      BY <1>9, <2>4, <3>1
    <3>2. CASE m = n
      <4>1. a # b
        <5> SUFFICES ASSUME a = b PROVE FALSE
          OBVIOUS
        <5>1. wire[m][c][1] = wire[m][d][k] /\ 1 \in 1..Len(wire[m][c])
          BY <1>3, <2>2, <3>2
        <5>2. d = c /\ k = 1
          BY <2>3, <5>1 DEF OnlyThere
        <5>3. QED
          BY <3>2, <5>2 DEF k
      <4>2. QED
        BY <1>8, <2>4, <4>1
    <3>3. QED
      BY <3>1, <3>2
  <2>6. ASSUME NEW e \in 1..MaxConns, NEW j \in 1..Len(wire'[m][e]), wire'[m][e][j] = a
        PROVE  e = d /\ j = i
    <3>1. was(e, j) \in 1..Len(wire[m][e]) /\ wire[m][e][was(e, j)] = wire[m][d][k]
      BY <2>1, <2>2, <2>6
    <3>2. e = d /\ was(e, j) = k
      BY <2>3, <3>1 DEF OnlyThere
    <3>3. QED
      BY <3>2 DEF k
  <2>7. QED
    BY <2>4, <2>5, <2>6 DEF OnlyThere, a
<1>13. \A a \in taken' : Sent(a, flow'[a.req])
  BY <1>1 DEF FInv
<1>14. QED
  BY <1>10, <1>11, <1>12, <1>13 DEF FInv

\* What is read leaves the store for good, whether or not the answer arrives.
LEMMA Read ==
  ASSUME FInv, NEW r \in Requests, Pull(r) \/ AnswerLost(r)
  PROVE  FInv'
<1> DEFINE n == Destination(r)
           A == Asked(r)
<1>1. /\ flow[r].at = "pull" /\ UNCHANGED <<pipeline, net>>
      /\ store' = [store EXCEPT ![n] = @ \ A] /\ taken' \in {taken, taken \cup A}
  BY DEF Pull, AnswerLost
<1>2. Typed /\ n \in Nodes
  BY <1>1, MovingFacts DEF FInv, Moving
<1>3. A \subseteq store[n] /\ \A a \in A : a \in Activations /\ Tag(a) = Tag(Activation(r))
  BY <1>2 DEF Asked, Typed
<1>4. PICK g : Forward(r, g) /\ flow' = [flow EXCEPT ![r] = g]
  <2>1. CASE Pull(r)
    BY <1>1, <1>3, <2>1, DeliveredForward DEF Pull, Moving
  <2>2. CASE AnswerLost(r)
    <3>1. flow' = [flow EXCEPT ![r] = [flow[r] EXCEPT !.at = "failed"]]
      BY <2>2 DEF AnswerLost, Goes, FInv, Typed
    <3>2. QED
      BY <1>1, <3>1, GoesForward DEF Moving
  <2>3. QED
    BY <2>1, <2>2
<1>5. Keeps
  BY <1>2, <1>4, StillSent DEF Keeps
<1>6. /\ flow' = [q \in Requests |-> flow'[q]] /\ \A q \in Requests : Sound(q, flow'[q])
  BY <1>4, StillSound
<1> HIDE DEF n, A
<1>7. \A m \in Nodes : store'[m] = IF m = n THEN store[m] \ A ELSE store[m]
  BY <1>1, <1>2 DEF Typed
<1>8. store' \in [Nodes -> SUBSET Activations] /\ taken' \subseteq Activations
  BY <1>1, <1>2, <1>3 DEF Typed
<1>9. Typed'
  BY <1>1, <1>2, <1>6, <1>8 DEF Typed, net
<1>10. \A a \in taken' : a \in taken \/ (a \in store[n] /\ a.destination = n /\ a \in A)
  BY <1>1, <1>2, <1>3 DEF FInv, Stores
<1>11. Stores'
  <2> SUFFICES ASSUME NEW m \in Nodes, NEW a \in store'[m]
               PROVE  /\ a.destination = m /\ a \notin taken' /\ Sent(a, flow'[a.req])
                      /\ \A c \in store'[m] : Tag(a) = Tag(c) => a = c
    BY DEF Stores, Tag
  <2>1. a \in store[m] /\ (m = n => a \notin A) /\ a \in Activations
    BY <1>2, <1>7 DEF Typed
  <2>2. /\ a.destination = m /\ a \notin taken /\ Sent(a, flow[a.req])
        /\ \A c \in store[m] : Tag(a) = Tag(c) => a = c
    BY <2>1 DEF FInv, Stores
  <2>3. a \notin taken'
    BY <1>10, <2>1, <2>2
  <2>4. QED
    BY <1>5, <1>7, <2>1, <2>2, <2>3 DEF Keeps
<1>12. Wires'
  <2> SUFFICES ASSUME NEW m \in Nodes, NEW d \in 1..MaxConns, NEW i \in 1..Len(wire[m][d])
               PROVE  OnlyThere(m, d, i)'
    BY <1>1 DEF Wires, net
  <2>1. OnlyThere(m, d, i)
    BY DEF FInv, Wires
  <2> DEFINE a == wire[m][d][i]
  <2>2. a \in Activations
    BY <1>2, OnWire
  <2>3. a.destination = m /\ a \notin taken /\ a \notin store[m] /\ Sent(a, flow[a.req])
    BY <2>1 DEF OnlyThere
  <2> HIDE DEF a
  <2>4. a \notin taken' /\ a \notin store'[m] /\ Sent(a, flow'[a.req])
    BY <1>5, <1>7, <1>10, <2>2, <2>3 DEF Keeps
  <2>5. QED
    BY <1>1, <2>1, <2>3, <2>4 DEF OnlyThere, net, a
<1>13. \A a \in taken' : Sent(a, flow'[a.req])
  <2>1. \A a \in taken' : a \in Activations /\ Sent(a, flow[a.req])
    BY <1>2, <1>8, <1>10 DEF FInv, Stores
  <2>2. QED
    BY <1>5, <2>1 DEF Keeps
<1>14. QED
  BY <1>6, <1>9, <1>11, <1>12, <1>13 DEF FInv

-----------------------------------------------------------------------------
(* The specification *)

\* A new plan, heartbeats, departures, changes of the catalog and nodes that fall silent
\* touch no activation.
LEMMA WorldSound ==
  ASSUME FInv, WorldStep \/ (\E n \in Nodes : FallSilent(n)) \/ UNCHANGED vars
  PROVE  FInv'
<1>1. /\ UNCHANGED <<flow, net, store, taken>>
      /\ pipeline' = pipeline \/ SetPlan
  BY DEF WorldStep, SetPlan, Unregister, Heartbeat, CatalogChanges, FallSilent, vars, net
<1>2. pipeline'.epoch \in Nat /\ pipeline'.chain \in Chains
  <2>1. CASE SetPlan
    <3>1. PICK chain \in Chains : pipeline' = [epoch |-> pipeline.epoch + 1, chain |-> chain]
      BY <2>1 DEF SetPlan
    <3>2. QED
      BY <3>1 DEF FInv, Typed
  <2>2. CASE pipeline' = pipeline
    BY <2>2 DEF FInv, Typed
  <2>3. QED
    BY <1>1, <2>1, <2>2
<1>3. Typed'
  BY <1>1, <1>2 DEF FInv, Typed, net
<1>4. Stores'
  BY <1>1 DEF FInv, Stores, Tag
<1>5. Wires'
  BY <1>1 DEF FInv, Wires, OnlyThere, net
<1>6. QED
  BY <1>1, <1>3, <1>4, <1>5 DEF FInv

\* At the start nothing is on its way.
LEMMA InitSound == ASSUME Init PROVE FInv
<1>1. \A r \in Requests : flow[r] = Idle
  BY DEF Init
<1>2. /\ Formed(Idle) /\ Idle.at = "idle" /\ Idle.tries = 0 /\ Idle.stage = 1 /\ Idle.epoch = 0
  BY DEF Formed, Idle, Record
<1>3. \A r \in Requests : Sound(r, flow[r])
  BY <1>1, <1>2, FlowAssumption, RoutingAssumption DEF Sound, Moving
<1>4. \A n \in Nodes : store[n] = {} /\ \A c \in 1..MaxConns : wire[n][c] = <<>>
  BY DEF Init
<1>5. Typed
  <2>1. pipeline.epoch = 1 /\ pipeline.chain = [i \in 1..NumStages |-> i]
    BY DEF Init
  <2>2. pipeline.chain \in Chains
    BY <2>1, FlowAssumption, RoutingAssumption DEF Chains, Nodes
  <2>3. flow = [r \in Requests |-> flow[r]]
    BY DEF Init
  <2>4. wire \in [Nodes -> [1..MaxConns -> Seq(Activations)]]
    <3>1. <<>> \in Seq(Activations) /\ wire = [n \in Nodes |-> [c \in 1..MaxConns |-> <<>>]]
      BY DEF Init
    <3>2. QED
      BY <3>1
  <2>5. opened \in [Nodes -> 0..MaxConns] /\ writer = opened
    BY FlowAssumption DEF Init
  <2>6. QED
    BY <2>1, <2>2, <2>3, <2>4, <2>5 DEF Typed, Init
<1>6. Stores /\ Wires
  BY <1>4 DEF Stores, Wires
<1>7. QED
  BY <1>3, <1>5, <1>6 DEF FInv, Init

\* Every step of a request, of the network or of the fleet.
LEMMA StepSound == ASSUME FInv, [Next]_vars PROVE FInv'
<1>1. ASSUME NEW r \in Requests, HandleRequest(r) PROVE FInv'
  BY <1>1, NewTry
<1>2. ASSUME NEW r \in Requests, RequestStep(r) PROVE FInv'
  BY <1>2, Routed, Computed, StepsAside, MockStored, Pushed, Read DEF RequestStep
<1>3. CASE NetworkStep
  BY <1>3, Received, ResetSound, WorldSound DEF NetworkStep
<1>4. CASE WorldStep \/ UNCHANGED vars
  BY <1>4, WorldSound
<1>5. QED
  BY <1>1, <1>2, <1>3, <1>4 DEF Next

\* What is on its way was sent in an earlier try or up to the present stage, has not been
\* read and is the only one under its tag: the inductive invariant of the flow.
THEOREM FlowInvariant == Spec => []FInv
<1>1. Init => FInv
  BY InitSound
<1>2. FInv /\ [Next]_vars => FInv'
  BY StepSound
<1>3. QED
  BY <1>1, <1>2, PTL DEF Spec

\* Requests, connections and stores keep their type; a store has one activation under a
\* tag, and only those sent to its node.
THEOREM FlowTypeCorrect == Spec => []FlowTypeOK
<1>1. FInv => FlowTypeOK
  <2> SUFFICES ASSUME FInv PROVE FlowTypeOK
    OBVIOUS
  <2>1. \A r \in Requests :
          /\ flow[r].stage \in 1..NumStages /\ flow[r].tries \in 0..MaxTries
          /\ flow[r].at \in {"lookup", "place", "weigh"} => flow[r].nodes # {}
    BY DEF FInv, Sound
  <2>2. \A n \in Nodes : writer[n] = opened[n] /\ opened[n] <= MaxConns
    BY FlowAssumption DEF FInv, Typed
  <2>3. /\ \A n \in Nodes : \A a, b \in store[n] : a # b => Tag(a) # Tag(b)
        /\ \A n \in Nodes : \A a \in store[n] : a.destination = n
    BY DEF FInv, Stores
  <2>4. QED
    BY <2>1, <2>2, <2>3 DEF FlowTypeOK
<1>2. QED
  BY <1>1, FlowInvariant, PTL

\* What a stage but the first computes on was sent by the stage before it, for this
\* request, plan and node: no stage refuses what the transport hands to it.
THEOREM StageInputAlwaysFits == Spec => []StageInputFits
<1>1. FInv => StageInputFits
  BY DEF FInv, Sound, Fed, StageInputFits
<1>2. QED
  BY <1>1, FlowInvariant, PTL

\* No activation is computed on twice.
THEOREM AlwaysReadOnce == Spec => ReadOnce
<1>1. ASSUME FInv, [Next]_vars, NEW r \in Requests, flow[r].at = "pull", flow'[r].at = "compute"
      PROVE  flow'[r].input \notin taken
  <2>1. flow = [q \in Requests |-> flow[q]]
    BY <1>1 DEF FInv, Typed
  <2>2. ASSUME NEW q \in Requests, NEW g, flow' = [flow EXCEPT ![q] = g], q # r
        PROVE  FALSE
    BY <1>1, <2>1, <2>2
  <2>3. Pull(r)
    <3>1. flow' # flow
      BY <1>1
    <3>2. PICK q \in Requests : HandleRequest(q) \/ RequestStep(q)
      BY <1>1, <3>1 DEF Next, NetworkStep, WorldStep, ReceivePush, Reset, FallSilent, SetPlan, Unregister,
        Heartbeat, CatalogChanges, vars
    <3>3. \E g : flow' = [flow EXCEPT ![q] = g]
      BY <2>1, <3>2 DEF HandleRequest, RequestStep, Lookup, LookupAgain, PlaceOnNode,
        PlaceOnPipeline, Compute,
        ComputeFails, HandOver, Push, StartConnect, PushOnNewWriter, PushMock, PushLost, Pull,
        AnswerLost, ConnectionFails, Goes, Delivered
    <3>4. q = r
      BY <2>2, <3>3
    <3>5. ~Goes(r, "failed")
      <4> SUFFICES ASSUME Goes(r, "failed") PROVE FALSE
        OBVIOUS
      <4>1. flow' = [flow EXCEPT ![r] = [flow[r] EXCEPT !.at = "failed"]]
        BY DEF Goes
      <4>2. flow'[r].at = "failed"
        BY <1>1, <2>1, <4>1 DEF FInv, Sound, Formed, Record
      <4>3. QED
        BY <1>1, <4>2
    <3>6. QED
      BY <1>1, <3>2, <3>4, <3>5 DEF HandleRequest, RequestStep, Lookup, LookupAgain,
        PlaceOnNode, PlaceOnPipeline, Compute, ComputeFails, HandOver, Push, StartConnect, PushOnNewWriter,
        PushMock, PushLost, AnswerLost, ConnectionFails
  <2> DEFINE f == flow[r]
             A == Asked(r)
  <2>4. A \subseteq store[Destination(r)] /\ Destination(r) \in Nodes
    BY <1>1, MovingFacts DEF Asked, Moving
  <2>5. \A a \in A : a \notin taken
    BY <1>1, <2>4 DEF FInv, Stores
  <2>6. A # {}
    <3>1. CASE A = {}
      <4>1. flow' = [flow EXCEPT ![r] = [f EXCEPT !.at = "failed"]]
        BY <2>3, <3>1 DEF Pull, Delivered
      <4>2. flow'[r].at = "failed"
        BY <1>1, <2>1, <4>1 DEF FInv, Sound, Formed, Record
      <4>3. QED
        BY <1>1, <4>2
    <3>2. QED
      BY <3>1
  <2>7. flow'[r].input = CHOOSE a \in A : TRUE
    <3> DEFINE c == CHOOSE a \in A : TRUE
               k == f.stage + 1
    <3>1. flow' = [flow EXCEPT ![r] = [f EXCEPT !.at = "compute", !.stage = k, !.input = c]]
      BY <2>3, <2>6 DEF Pull, Delivered
    <3>2. Formed(f)
      BY <1>1 DEF FInv, Sound
    <3> HIDE DEF f, c, k, A
    <3>3. [f EXCEPT !.at = "compute", !.stage = k, !.input = c].input = c
      BY <3>2 DEF Formed, Record
    <3>4. QED
      BY <2>1, <3>1, <3>3 DEF c
  <2>8. QED
    BY <2>5, <2>6, <2>7
<1>2. FInv /\ [Next]_vars =>
        [\A r \in Requests :
           flow[r].at = "pull" /\ flow'[r].at = "compute" => flow'[r].input \notin taken]_vars
  BY <1>1
<1>3. QED
  BY <1>2, FlowInvariant, PTL DEF Spec, ReadOnce

=============================================================================
