---------------------------- MODULE ModelLedger ----------------------------
(***************************************************************************)
(* The account of the nodes' GPU memory: ModelManager books what layers     *)
(* and experts take, in NodeState.memory_free and in its own table of       *)
(* reserved bytes, while the node manager may replace a NodeState under it. *)
(* The plans come from CapabilityReparallelization.                         *)
(*                                                                          *)
(* No operation of the model manager suspends, so each is one step; the     *)
(* guard against concurrent loads (_loading) never sees another load.       *)
(* Experts have one size and those on a CPU take no memory.  Flops are      *)
(* integers and the shares exact, where the code has floats.                *)
(***************************************************************************)
EXTENDS Integers, FiniteSets, Functions

CONSTANTS
  NumNodes,      \* nodes are numbered in the order of their registration
  NumLayers,
  LayerBytes,
  ExpertBytes,
  MaxExperts,
  Total,         \* memory_total of every node
  MaxFlops,
  MaxOps         \* operations in one behaviour, but for the making of plans

ASSUME CountsAssumption == NumNodes \in Nat /\ NumLayers \in Nat \ {0}
ASSUME BytesAssumption ==
  LayerBytes \in Nat /\ ExpertBytes \in Nat \ {0} /\ MaxExperts \in Nat /\ Total \in Nat
ASSUME BoundsAssumption == MaxFlops \in Nat /\ MaxOps \in Nat

Nodes == 1..NumNodes
NoRange == <<0, 0>>
Ranges == {r \in (0..NumLayers) \X (0..NumLayers) : r[1] < r[2]}
NoPlacement == [range |-> NoRange, experts |-> -1]
NoPlan == [range |-> [n \in Nodes |-> NoRange], over |-> {}]

VARIABLES
  alive,       \* nodes with state.alive
  flops,       \* capability.compute_flops
  free,        \* state.memory_free
  held,        \* state.layer_range
  placed,      \* _placements
  reserved,    \* _reserved_model_bytes, 0 where there is no entry
  plan,        \* [range, over]: the plan at hand and the nodes it was made for
  unaware,     \* history: nodes whose state was replaced by one without the booked bytes
  ops

vars == <<alive, flops, free, held, placed, reserved, plan, unaware, ops>>
account == <<free, held, placed, reserved>>

Init ==
  /\ alive = Nodes
  /\ flops \in [Nodes -> 0..MaxFlops]
  /\ free = [n \in Nodes |-> Total]
  /\ held = [n \in Nodes |-> NoRange]
  /\ placed = [n \in Nodes |-> NoPlacement]
  /\ reserved = [n \in Nodes |-> 0]
  /\ plan = NoPlan
  /\ unaware = {}
  /\ ops = 0

Count == ops < MaxOps /\ ops' = ops + 1

-----------------------------------------------------------------------------
(* CapabilityReparallelization.reconfigure: largest remainders *)

Weight(n) == IF flops[n] >= 1 THEN flops[n] ELSE 1
SumOf(f, S) == FoldFunctionOnSet(+, 0, f, S)

\* The shares of the nodes S, of which those in more get a layer of the remainder.
Shares(S, sum, more) ==
  [n \in S |-> (Weight(n) * NumLayers) \div sum + IF n \in more THEN 1 ELSE 0]

\* Faulty variant: the remainder goes to the nodes that come first.
ReparallelizeInOrder ==
  LET sum == SumOf([n \in Nodes |-> Weight(n)], alive)
      base == Shares(alive, sum, {})
      left == NumLayers - SumOf(base, alive)
      share == Shares(alive, sum, {n \in alive : Cardinality({m \in alive : m < n}) < left})
      start == [n \in alive |-> SumOf(share, {m \in alive : m < n})]
  IN
  /\ plan = NoPlan /\ alive # {}
  /\ plan' = [over |-> alive, range |-> [n \in Nodes |->
       IF n \in alive /\ share[n] > 0 THEN <<start[n], start[n] + share[n]>> ELSE NoRange]]
  /\ UNCHANGED <<alive, flops, account, unaware, ops>>

Reparallelize ==
  LET sum == SumOf([n \in Nodes |-> Weight(n)], alive)
      remainder(n) == (Weight(n) * NumLayers) % sum
      left == NumLayers - SumOf(Shares(alive, sum, {}), alive)
  IN
  /\ plan = NoPlan /\ alive # {}
  /\ \E more \in SUBSET alive :
       LET share == Shares(alive, sum, more)
           start == [n \in alive |-> SumOf(share, {m \in alive : m < n})]
       IN
       /\ Cardinality(more) = left
       /\ \A a \in more, b \in alive \ more : remainder(a) >= remainder(b)
       /\ plan' = [over |-> alive, range |-> [n \in Nodes |->
            IF n \in alive /\ share[n] > 0 THEN <<start[n], start[n] + share[n]>> ELSE NoRange]]
  /\ UNCHANGED <<alive, flops, account, unaware, ops>>

-----------------------------------------------------------------------------
(* ModelManager *)

Layers(range) == LayerBytes * (range[2] - range[1])
Memory(p) == Layers(p.range) + (IF p.experts > 0 THEN ExpertBytes * p.experts ELSE 0)
Members == {n \in Nodes : plan.range[n] # NoRange}

\* validate_pipeline_coverage: each layer in one range of the plan.
Covers ==
  /\ plan.range \in [Nodes -> Ranges \cup {NoRange}]
  /\ \A x \in 0..(NumLayers - 1) :
       Cardinality({n \in Members : plan.range[n][1] <= x /\ x < plan.range[n][2]}) = 1

Fits == \A n \in Members : n \in alive /\ Layers(plan.range[n]) <= free[n] + reserved[n]

\* Faulty variant: a node that leaves the plan keeps its reservation.
ApplyPipelinePlanKeepingOld ==
  /\ plan # NoPlan /\ Covers /\ Fits /\ Count
  /\ free' = [n \in Nodes |-> free[n] + reserved[n] - Layers(plan.range[n])]
  /\ held' = [n \in Nodes |-> plan.range[n]]
  /\ placed' = [n \in Nodes |-> IF n \in Members THEN [range |-> plan.range[n], experts |-> 0]
                                                 ELSE NoPlacement]
  /\ reserved' = [n \in Nodes |-> IF n \in Members THEN Layers(plan.range[n]) ELSE reserved[n]]
  /\ plan' = NoPlan
  /\ UNCHANGED <<alive, flops, unaware>>

\* apply_pipeline_plan: what was reserved before is given back, also by nodes that
\* leave the plan.
ApplyPipelinePlan ==
  /\ plan # NoPlan /\ Covers /\ Fits /\ Count
  /\ free' = [n \in Nodes |-> free[n] + reserved[n] - Layers(plan.range[n])]
  /\ held' = [n \in Nodes |-> IF n \in Members \/ placed[n] # NoPlacement
                                THEN plan.range[n] ELSE held[n]]
  /\ placed' = [n \in Nodes |-> IF n \in Members THEN [range |-> plan.range[n], experts |-> 0]
                                                 ELSE NoPlacement]
  /\ reserved' = [n \in Nodes |-> Layers(plan.range[n])]
  /\ plan' = NoPlan
  /\ UNCHANGED <<alive, flops, unaware>>

PlanRefused ==
  /\ plan # NoPlan /\ ~(Covers /\ Fits)
  /\ plan' = NoPlan
  /\ UNCHANGED <<alive, flops, account, unaware, ops>>

\* Experts are loaded one by one until the memory is used up.
ExpertsThatFit(n, p) ==
  LET room == (free[n] - Layers(p.range)) \div ExpertBytes IN
  IF p.experts <= room THEN p.experts ELSE room

\* Faulty variant: a placement is recorded although its experts did not fit.
LoadPlacementRecordedFirst(n, p) ==
  /\ Memory(p) <= Total /\ Layers(p.range) <= free[n] /\ Count
  /\ free' = [free EXCEPT ![n] = @ - Layers(p.range) - ExpertBytes * ExpertsThatFit(n, p)]
  /\ held' = [held EXCEPT ![n] = IF p.range = NoRange THEN @ ELSE p.range]
  /\ placed' = [placed EXCEPT ![n] = p]
  /\ reserved' = IF ExpertsThatFit(n, p) = p.experts
                   THEN [reserved EXCEPT ![n] = Memory(p)] ELSE reserved
  /\ UNCHANGED <<alive, flops, plan, unaware>>

\* load_placement: the check is against the total; an expert that does not fit raises
\* when the layers have been booked.  What an earlier load has booked stays booked.
LoadPlacement(n, p) ==
  /\ Memory(p) <= Total /\ Layers(p.range) <= free[n] /\ Count
  /\ free' = [free EXCEPT ![n] = @ - Layers(p.range) - ExpertBytes * ExpertsThatFit(n, p)]
  /\ held' = [held EXCEPT ![n] = IF p.range = NoRange THEN @ ELSE p.range]
  /\ IF ExpertsThatFit(n, p) = p.experts
       THEN /\ placed' = [placed EXCEPT ![n] = p]
            /\ reserved' = [reserved EXCEPT ![n] = Memory(p)]
       ELSE UNCHANGED <<placed, reserved>>
  /\ UNCHANGED <<alive, flops, plan, unaware>>

\* Faulty variant: layers are loaded without a look at the free memory.
LoadLayersUnchecked(n, range) ==
  /\ Count
  /\ free' = [free EXCEPT ![n] = @ - Layers(range)]
  /\ held' = [held EXCEPT ![n] = range]
  /\ UNCHANGED <<alive, flops, placed, reserved, plan, unaware>>

\* load_layers books memory without a reservation.
LoadLayers(n, range) ==
  /\ Layers(range) <= free[n] /\ Count
  /\ free' = [free EXCEPT ![n] = @ - Layers(range)]
  /\ held' = [held EXCEPT ![n] = range]
  /\ UNCHANGED <<alive, flops, placed, reserved, plan, unaware>>

\* unload forgets layers or experts and gives no memory back.
Unload(n, layers, experts) ==
  /\ Count
  /\ held' = [held EXCEPT ![n] = IF layers THEN NoRange ELSE @]
  /\ placed' = [placed EXCEPT ![n] =
       IF @ = NoPlacement THEN @
       ELSE [range |-> IF layers THEN NoRange ELSE @.range,
             experts |-> IF experts THEN 0 ELSE @.experts]]
  /\ UNCHANGED <<alive, flops, free, reserved, plan, unaware>>

-----------------------------------------------------------------------------
(* NodeManager *)

Unregister(n) ==
  /\ n \in alive /\ Count
  /\ alive' = alive \ {n}
  /\ UNCHANGED <<flops, account, plan, unaware>>

\* A new NodeState with its own idea of the free memory.
Replace(n, bytes) ==
  /\ free' = [free EXCEPT ![n] = bytes]
  /\ unaware' = IF bytes + reserved[n] > Total THEN unaware \cup {n} ELSE unaware \ {n}

\* register: a new Node object, its layers unknown.
Register(n, bytes) ==
  /\ Count
  /\ alive' = alive \cup {n}
  /\ Replace(n, bytes)
  /\ held' = [held EXCEPT ![n] = NoRange]
  /\ UNCHANGED <<flops, placed, reserved, plan>>

\* update_heartbeat with a state.
Heartbeat(n, bytes, range) ==
  /\ Count
  /\ alive' = alive \cup {n}
  /\ Replace(n, bytes)
  /\ held' = [held EXCEPT ![n] = range]
  /\ UNCHANGED <<flops, placed, reserved, plan>>

Placements == [range : Ranges \cup {NoRange}, experts : 0..MaxExperts]

LedgerStep(n) ==
  \/ \E p \in Placements : LoadPlacement(n, p)
  \/ \E r \in Ranges : LoadLayers(n, r)
  \/ \E layers, experts \in BOOLEAN : Unload(n, layers, experts)

NodeStep(n) ==
  \/ Unregister(n)
  \/ \E bytes \in 0..Total : Register(n, bytes)
  \/ \E bytes \in 0..Total : Heartbeat(n, bytes, held[n])

Next ==
  \/ Reparallelize
  \/ ApplyPipelinePlan
  \/ PlanRefused
  \/ \E n \in Nodes : LedgerStep(n) \/ NodeStep(n)

Spec == Init /\ [][Next]_vars

-----------------------------------------------------------------------------
(* Properties *)

LedgerTypeOK ==
  /\ alive \subseteq Nodes /\ unaware \subseteq Nodes
  /\ flops \in [Nodes -> 0..MaxFlops]
  /\ free \in [Nodes -> Nat] /\ reserved \in [Nodes -> Nat]
  /\ held \in [Nodes -> Ranges \cup {NoRange}]
  /\ placed \in [Nodes -> Placements \cup {NoPlacement}]

\* The manager never counts on more memory than a node has, in free and reserved bytes
\* together, whatever was loaded twice, half loaded, unloaded or moved by a plan; only
\* a node that reports a state without the booked bytes deceives it.
NoPhantomMemory ==
  \A n \in Nodes \ unaware : free[n] + reserved[n] <= Total

\* What is recorded as placed on a node is paid for by the bytes reserved there, so
\* that the next plan gives back as much as the placement took.
PlacedIsReserved == \A n \in Nodes : Memory(placed[n]) <= reserved[n]

\* A plan covers the model by the nodes it was made for, in their order, and a node
\* with more flops never gets fewer layers.
PlanIsProportional ==
  plan # NoPlan =>
    LET share == [n \in Nodes |-> plan.range[n][2] - plan.range[n][1]] IN
    /\ \A x \in 0..(NumLayers - 1) :
         Cardinality({n \in plan.over : plan.range[n][1] <= x /\ x < plan.range[n][2]}) = 1
    /\ \A n, m \in Members : n < m => plan.range[n][2] <= plan.range[m][1]
    /\ \A n, m \in plan.over : Weight(n) > Weight(m) => share[n] >= share[m]
=============================================================================
