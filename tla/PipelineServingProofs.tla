----------------------- MODULE PipelineServingProofs -----------------------
(***************************************************************************)
(* The safety of requests that run through the pipeline while it is         *)
(* reconfigured and drained, for every number of nodes, requests, layers,   *)
(* epochs and retries.  It rests on the invariant of the coordinator.       *)
(***************************************************************************)
EXTENDS PipelineServing, PipelineReconfigProofs

RequestType ==
  [status : Statuses, seen : SUBSET Nodes, bound : 0..MaxEpoch, chain : Plans,
   todo : SUBSET Nodes, epoch : 0..MaxEpoch, retries : 0..MaxRetries,
   activation : 0..MaxEpoch, ran : SUBSET Layers]

\* The next stages of a request, of which there is only one.
Heads(q) == {n \in q.todo : \A m \in q.todo : q.chain[n][1] <= q.chain[m][1]}

\* Bound to an epoch that has been in force and is not being drained; its task has
\* that epoch, or none.
Bound(q) ==
  /\ q.bound \in 1..current.epoch
  /\ q.bound # drain.epoch
  /\ q.epoch \in {0, q.bound}

\* The stages left are some of the chain's, no two of which start at one layer.
Chained(q) ==
  /\ q.todo \subseteq Members(q.chain)
  /\ \A n, m \in Members(q.chain) : q.chain[n][1] = q.chain[m][1] => n = m

OnHeld(q) == \A n \in Strict \cap Heads(q) : HeldFor(n, q.epoch) = q.chain[n]

\* The stages that are no longer left have run.
Passed(q) == \A n \in Members(q.chain) \ q.todo : LayersOf(q.chain[n]) \subseteq q.ran

Sound(q) ==
  /\ q.status \in InFlight => Bound(q) /\ Chained(q)
  /\ q.status = "running" => OnHeld(q)
  /\ q.status \in InFlight \cup {"done"} => Passed(q)
  /\ q.status = "done" => q.todo = {}

SInv ==
  /\ IInv
  /\ ServingTypeOK
  /\ \A r \in Requests : Sound(req[r])

-----------------------------------------------------------------------------
(* Records of requests *)

\* A change of one request that leaves a sound record of its type.
LEMMA OneRequest ==
  ASSUME SInv, UNCHANGED vars, NEW r \in Requests, NEW q \in RequestType,
         req' = [req EXCEPT ![r] = q], refused' \subseteq Requests, Sound(q)
  PROVE  SInv'
<1>1. IInv'
  BY NextIInv DEF SInv
<1>2. ServingTypeOK'
  BY DEF SInv, ServingTypeOK, RequestType
<1>3. \A x \in Requests : Sound(req'[x])
  BY DEF SInv, ServingTypeOK
<1>4. QED
  BY <1>1, <1>2, <1>3 DEF SInv, Sound, Bound, OnHeld, HeldFor, vars

\* A new request has its type and promises nothing yet.
LEMMA NewRequestFacts == NewRequest \in RequestType /\ Sound(NewRequest)
<1>1. NewRequest \in RequestType
  BY NoPlanFacts, MaxEpochAssumption, MaxRetriesAssumption DEF NewRequest, RequestType, Statuses
<1>2. NewRequest.status = "new"
  BY DEF NewRequest
<1>3. QED
  BY <1>1, <1>2 DEF Sound, InFlight

\* What recovery makes of a sound request is sound.
LEMMA RecoveredSound ==
  ASSUME NEW q \in RequestType, Sound(q), q.status \in InFlight
  PROVE  Recovered(q) \in RequestType /\ Sound(Recovered(q))
<1> DEFINE again == [q EXCEPT !.status = "queued", !.epoch = 0, !.retries = q.retries + 1]
           over == [q EXCEPT !.status = "failed"]
<1>1. CASE q.retries < MaxRetries
  <2>1. Recovered(q) = again
    BY <1>1 DEF Recovered
  <2>2. again \in RequestType
    <3>1. q.retries + 1 \in 0..MaxRetries
      BY <1>1, MaxRetriesAssumption DEF RequestType
    <3>2. 0 \in 0..MaxEpoch /\ "queued" \in Statuses
      BY MaxEpochAssumption DEF Statuses
    <3>3. QED
      BY <3>1, <3>2 DEF RequestType
  <2>3. /\ again.status = "queued" /\ again.epoch = 0 /\ again.bound = q.bound
        /\ again.chain = q.chain /\ again.todo = q.todo /\ again.ran = q.ran
    BY DEF RequestType
  <2> HIDE DEF again
  <2>4. Bound(again) /\ Chained(again) /\ Passed(again)
    BY <2>3 DEF Sound, Bound, Chained, Passed
  <2>5. QED
    BY <2>1, <2>2, <2>3, <2>4 DEF Sound
<1>2. CASE ~(q.retries < MaxRetries)
  <2>1. Recovered(q) = over
    BY <1>2 DEF Recovered
  <2>2. over \in RequestType /\ over.status = "failed"
    BY DEF RequestType, Statuses
  <2>3. QED
    BY <2>1, <2>2 DEF Sound, InFlight
<1>3. QED
  BY <1>1, <1>2

-----------------------------------------------------------------------------
(* Steps of a request *)

\* Where a request is, by its type.
LEMMA RequestFacts ==
  ASSUME SInv, NEW r \in Requests
  PROVE  /\ req[r] \in RequestType /\ Sound(req[r]) /\ refused \subseteq Requests
         /\ req \in [Requests -> RequestType]
  BY DEF SInv, ServingTypeOK, RequestType

\* A routed request, or one that found no healthy node.
LEMMA LookupSound ==
  ASSUME SInv, NEW r \in Requests, NEW healthy \in SUBSET Nodes, Lookup(r, healthy)
  PROVE  SInv'
<1> DEFINE q == IF healthy = {} THEN [req[r] EXCEPT !.status = "failed"]
                ELSE [req[r] EXCEPT !.status = "lookup", !.seen = healthy]
<1>1. req' = [req EXCEPT ![r] = q] /\ refused' = refused /\ UNCHANGED vars
  BY RequestFacts DEF Lookup
<1>2. q \in RequestType /\ q.status \in {"failed", "lookup"}
  BY RequestFacts DEF RequestType, Statuses
<1>3. Sound(q)
  BY <1>2 DEF Sound, InFlight
<1> HIDE DEF q
<1>4. QED
  BY <1>1, <1>2, <1>3, RequestFacts, OneRequest

\* The stages of the plan in force start at different layers.
LEMMA PlanStartsApart ==
  ASSUME IInv, NEW n \in Members(policy.plan), NEW m \in Members(policy.plan),
         policy.plan[n][1] = policy.plan[m][1]
  PROVE  n = m
<1> DEFINE p == policy.plan
<1>1. p \in Plans /\ n \in Nodes /\ m \in Nodes /\ CoversModel(p)
  BY NoPlanFacts DEF IInv, TypeOK, ServingConsistent, Members
<1>2. p[n] \in Ranges /\ p[m] \in Ranges
  BY <1>1 DEF Members, Plans
<1>3. p[n][1] \in Layers /\ p[n][1] \in LayersOf(p[n]) /\ p[n][1] \in LayersOf(p[m])
  BY <1>2, NumLayersAssumption DEF Ranges, Layers, LayersOf
<1>4. QED
  BY <1>1, <1>3 DEF CoversModel

\* A placed request is bound to the epoch in force, which is not drained.
LEMMA PlaceSound ==
  ASSUME SInv, NEW r \in Requests, Place(r)
  PROVE  SInv'
<1> DEFINE chain == [n \in Nodes |-> IF n \in req[r].seen \cap alive
                                       THEN policy.plan[n] ELSE NoRange]
           none == [req[r] EXCEPT !.status = "failed"]
           q == [req[r] EXCEPT !.status = "queued", !.bound = policy.epoch,
                   !.epoch = policy.epoch, !.chain = chain, !.todo = Members(chain)]
<1>0. IInv /\ policy.plan \in Plans /\ policy = current /\ policy.epoch \in 0..MaxEpoch
  BY DEF SInv, IInv, TypeOK, ServingConsistent
<1>1. CASE Members(chain) = {}
  <2>1. req' = [req EXCEPT ![r] = none] /\ refused' = refused /\ UNCHANGED vars
    BY <1>1 DEF Place
  <2>2. none \in RequestType /\ none.status = "failed"
    BY RequestFacts DEF RequestType, Statuses
  <2>3. Sound(none)
    BY <2>2 DEF Sound, InFlight
  <2> HIDE DEF none, chain
  <2>4. QED
    BY <2>1, <2>2, <2>3, RequestFacts, OneRequest
<1>2. CASE Members(chain) # {}
  <2>1. req' = [req EXCEPT ![r] = q] /\ refused' = refused /\ UNCHANGED vars
    BY <1>2 DEF Place
  <2>2. chain \in Plans /\ Members(chain) \subseteq Members(policy.plan) /\ Members(chain) \subseteq Nodes
    BY <1>0 DEF Plans, Members
  <2>3. \A n \in Members(chain) : chain[n] = policy.plan[n]
    BY DEF Members
  <2> HIDE DEF chain
  <2>4. q \in RequestType
    BY <1>0, <2>2, RequestFacts DEF RequestType, Statuses
  <2>5. /\ q.status = "queued" /\ q.bound = policy.epoch /\ q.epoch = policy.epoch
        /\ q.chain = chain /\ q.todo = Members(chain)
    BY RequestFacts DEF RequestType
  <2> HIDE DEF q
  <2>6. policy.epoch \in 1..current.epoch /\ policy.epoch # drain.epoch
    <3>1. policy.epoch # 0
      BY <1>0, <1>2, <2>2, NoPlanFacts DEF IInv, ServingConsistent
    <3>2. drain.epoch # 0 => drain.epoch < current.epoch
      BY <1>0 DEF IInv, ServingConsistent
    <3>3. policy.epoch \in 1..current.epoch
      BY <1>0, <3>1, MaxEpochAssumption
    <3>4. drain.epoch \in 0..MaxEpoch
      BY <1>0 DEF IInv, TypeOK
    <3>5. QED
      BY <1>0, <3>1, <3>2, <3>3, <3>4, MaxEpochAssumption
  <2>7. Bound(q)
    BY <2>5, <2>6 DEF Bound
  <2>8. Chained(q)
    BY <1>0, <2>2, <2>3, <2>5, PlanStartsApart DEF Chained
  <2>9. Sound(q)
    BY <2>5, <2>7, <2>8 DEF Sound, Passed
  <2>10. QED
    BY <2>1, <2>4, <2>9, RequestFacts, OneRequest
<1>3. QED
  BY <1>1, <1>2

\* The next stage in the sense of the code is the one head of the stages left.
LEMMA OneHead ==
  ASSUME SInv, NEW r \in Requests, req[r].status \in InFlight, NEW n, IsNext(r, n)
  PROVE  n \in Nodes /\ n \in Members(req[r].chain) /\ n \in req[r].todo /\ Heads(req[r]) = {n}
<1> DEFINE q == req[r]
<1>1. q \in RequestType /\ Chained(q)
  BY RequestFacts DEF Sound
<1>2. n \in q.todo /\ n \in Members(q.chain) /\ n \in Nodes
  BY <1>1 DEF IsNext, Chained, Members
<1>3. ASSUME NEW m \in Heads(q) PROVE m = n
  <2>1. m \in Members(q.chain) /\ q.chain[m][1] <= q.chain[n][1] /\ q.chain[n][1] <= q.chain[m][1]
    BY <1>1, <1>2, <1>3 DEF Heads, IsNext, Chained
  <2>2. q.chain[m] \in Ranges /\ q.chain[n] \in Ranges
    BY <1>1, <1>2, <2>1 DEF Members, RequestType, Plans
  <2>3. q.chain[m][1] = q.chain[n][1]
    BY <2>1, <2>2 DEF Ranges
  <2>4. QED
    BY <1>1, <1>2, <2>1, <2>3 DEF Chained
<1>4. n \in Heads(q)
  BY DEF Heads, IsNext
<1>5. QED
  BY <1>2, <1>3, <1>4

\* A task begins on a strict node only with the layers that the node holds for it.
LEMMA BeginSound ==
  ASSUME SInv, NEW r \in Requests, NEW n \in Nodes, Begin(r, n)
  PROVE  SInv'
<1> DEFINE q == [req[r] EXCEPT !.status = "running"]
<1>1. /\ req' = [req EXCEPT ![r] = q] /\ refused' = refused /\ UNCHANGED vars
      /\ req[r].status = "queued" /\ IsNext(r, n) /\ Accepts(n, r)
  BY RequestFacts DEF Begin
<1>2. q \in RequestType
  BY RequestFacts DEF RequestType, Statuses
<1>3. /\ q.status = "running" /\ q.bound = req[r].bound /\ q.epoch = req[r].epoch
      /\ q.chain = req[r].chain /\ q.todo = req[r].todo /\ q.ran = req[r].ran
  BY RequestFacts DEF RequestType
<1> HIDE DEF q
<1>4. Bound(q) /\ Chained(q) /\ Passed(q)
  BY <1>1, <1>3, RequestFacts DEF Sound, InFlight, Bound, Chained, Passed
<1>5. OnHeld(q)
  <2>1. Heads(q) = {n}
    BY <1>1, <1>3, OneHead DEF InFlight, Heads
  <2>2. n \in Strict => HeldFor(n, q.epoch) = q.chain[n]
    BY <1>1, <1>3 DEF Accepts
  <2>3. QED
    BY <2>1, <2>2 DEF OnHeld
<1>6. Sound(q)
  BY <1>3, <1>4, <1>5 DEF Sound
<1>7. QED
  BY <1>1, <1>2, <1>6, RequestFacts, OneRequest

\* A refused or failed task is retried, or its request has failed.
LEMMA RecoverySound ==
  ASSUME SInv, NEW r \in Requests, req[r].status \in InFlight,
         req' = [req EXCEPT ![r] = Recovered(req[r])], refused' \subseteq Requests,
         UNCHANGED vars
  PROVE  SInv'
<1>1. Recovered(req[r]) \in RequestType /\ Sound(Recovered(req[r]))
  BY RequestFacts, RecoveredSound
<1>2. QED
  BY <1>1, OneRequest

\* A finished stage has run its layers; the one after the last is the end.
LEMMA FinishSound ==
  ASSUME SInv, NEW r \in Requests, NEW n \in Nodes, Finish(r, n)
  PROVE  SInv'
<1> DEFINE old == req[r]
           last == old.todo = {n}
           q == [old EXCEPT !.status = IF last THEN "done" ELSE "queued",
                   !.ran = old.ran \cup LayersOf(old.chain[n]), !.todo = old.todo \ {n},
                   !.activation = old.epoch, !.epoch = old.bound, !.retries = 0]
<1>1. /\ req' = [req EXCEPT ![r] = q] /\ refused' = refused /\ UNCHANGED vars
      /\ old.status = "running" /\ IsNext(r, n)
  BY RequestFacts DEF Finish
<1>2. old \in RequestType /\ Bound(old) /\ Chained(old) /\ Passed(old)
  BY <1>1, RequestFacts DEF Sound, InFlight
<1>3. LayersOf(old.chain[n]) \subseteq Layers
  <2>1. old.chain[n] \in Ranges \cup {NoRange}
    BY <1>2 DEF RequestType, Plans
  <2>2. QED
    BY <2>1, NumLayersAssumption DEF Ranges, NoRange, LayersOf, Layers
<1>4. q \in RequestType
  <2>1. 0 \in 0..MaxRetries /\ {"done", "queued"} \subseteq Statuses
    BY MaxRetriesAssumption DEF Statuses
  <2>2. /\ old.ran \cup LayersOf(old.chain[n]) \in SUBSET Layers
        /\ old.todo \ {n} \in SUBSET Nodes
        /\ old.epoch \in 0..MaxEpoch /\ old.bound \in 0..MaxEpoch
    BY <1>2, <1>3 DEF RequestType
  <2> HIDE DEF last
  <2>3. QED
    BY <1>2, <2>1, <2>2 DEF RequestType
<1>5. /\ q.status = (IF last THEN "done" ELSE "queued") /\ q.bound = old.bound
      /\ q.epoch = old.bound /\ q.chain = old.chain /\ q.todo = old.todo \ {n}
      /\ q.ran = old.ran \cup LayersOf(old.chain[n])
  BY <1>2 DEF RequestType
<1> HIDE DEF q
<1>6. Bound(q) /\ Chained(q)
  BY <1>2, <1>5 DEF Bound, Chained
<1>7. Passed(q)
  BY <1>2, <1>5 DEF Passed
<1>8. Sound(q)
  BY <1>5, <1>6, <1>7 DEF Sound
<1> HIDE DEF old, last
<1>9. QED
  BY <1>1, <1>4, <1>8, RequestFacts, OneRequest

\* A request whose delivery failed has failed.
LEMMA DeliverySound ==
  ASSUME SInv, NEW r \in Requests, DeliveryFails(r)
  PROVE  SInv'
<1> DEFINE q == [req[r] EXCEPT !.status = "failed"]
<1>1. req' = [req EXCEPT ![r] = q] /\ refused' = refused /\ UNCHANGED vars
  BY DEF DeliveryFails
<1>2. q \in RequestType /\ q.status = "failed"
  BY RequestFacts DEF RequestType, Statuses
<1>3. Sound(q)
  BY <1>2 DEF Sound, InFlight
<1> HIDE DEF q
<1>4. QED
  BY <1>1, <1>2, <1>3, RequestFacts, OneRequest

-----------------------------------------------------------------------------
(* Steps of the coordinator under the requests *)

\* The epoch in force only grows.
LEMMA EpochsGrow ==
  ASSUME IInv, Next
  PROVE  current'.epoch \in Nat /\ current.epoch <= current'.epoch
<1>1. current.epoch \in Nat
  BY MaxEpochAssumption DEF IInv, TypeOK
<1>2. CASE Commit
  <2>1. current'.epoch = current.epoch + 1
    BY <1>2 DEF Commit, IInv, CallConsistent
  <2>2. QED
    BY <1>1, <2>1
<1>3. CASE ~Commit
  <2>1. current' = current
    BY <1>3 DEF Next, StartApply, Prepare, UpdateLedger, CopyReusableKV, Activate, PrepareRefused,
       LedgerRefused, CallFails, Abandon, StartDrain, Retire, EndDrain, NodeLeaves, NodeReturns,
       AttachRuntime
  <2>2. QED
    BY <1>1, <2>1
<1>4. QED
  BY <1>2, <1>3

\* No step takes away the layers held for an epoch that has been in force and is not
\* being drained.
LEMMA HeldStays ==
  ASSUME IInv, Next, NEW n \in Nodes, NEW e \in 1..current.epoch, e # drain.epoch
  PROVE  assigned'[n][e] = assigned[n][e]
<1>1. /\ assigned \in [Nodes -> [Epochs -> Ranges \cup {NoRange}]]
      /\ current.epoch \in 0..MaxEpoch /\ e \in Epochs
  BY MaxEpochAssumption DEF IInv, TypeOK, Epochs
<1>2. ASSUME NEW m \in Nodes, Prepare(m) PROVE assigned'[n][e] = assigned[n][e]
  <2>1. call.epoch = current.epoch + 1 /\ call.epoch # e
    BY <1>1, <1>2 DEF Prepare, IInv, CallConsistent
  <2>2. assigned' = [assigned EXCEPT ![m][call.epoch] = call.plan[m]]
    BY <1>2 DEF Prepare
  <2>3. QED
    BY <1>1, <2>1, <2>2
<1>3. ASSUME NEW m \in Nodes, Retire(m) PROVE assigned'[n][e] = assigned[n][e]
  <2>1. assigned' = [assigned EXCEPT ![m][drain.epoch] = NoRange]
    BY <1>3 DEF Retire
  <2>2. QED
    BY <1>1, <2>1
<1>4. CASE ~\E m \in Nodes : Prepare(m) \/ Retire(m)
  BY <1>4 DEF Next, StartApply, UpdateLedger, CopyReusableKV, Activate, Commit, PrepareRefused,
     LedgerRefused, CallFails, Abandon, StartDrain, EndDrain, NodeLeaves, NodeReturns, AttachRuntime
<1>5. QED
  BY <1>2, <1>3, <1>4

\* A drain goes on, ends, or starts when there is none.
LEMMA DrainMoves ==
  ASSUME Next
  PROVE  drain'.epoch \in {drain.epoch, 0} \/ drain.epoch = 0
<1>1. ASSUME NEW p \in CompletePlans, StartApply(p) PROVE drain' = drain
  BY <1>1 DEF StartApply
<1>2. ASSUME NEW n \in Nodes, Prepare(n) \/ Activate(n) \/ NodeLeaves(n) \/ NodeReturns(n)
      PROVE  drain' = drain
  BY <1>2 DEF Prepare, Activate, NodeLeaves, NodeReturns
<1>3. CASE UpdateLedger \/ CopyReusableKV \/ Commit
  BY <1>3 DEF UpdateLedger, CopyReusableKV, Commit
<1>4. CASE PrepareRefused \/ LedgerRefused \/ CallFails
  BY <1>4 DEF PrepareRefused, LedgerRefused, CallFails, Abandon
<1>5. ASSUME NEW e \in Epochs, StartDrain(e) PROVE drain.epoch = 0
  BY <1>5 DEF StartDrain, NoDrain
<1>6. ASSUME NEW n \in Nodes, Retire(n) PROVE drain' = [drain EXCEPT !.todo = @ \ {n}]
  BY <1>6 DEF Retire
<1>7. CASE EndDrain
  BY <1>7 DEF EndDrain, NoDrain
<1>8. ASSUME NEW n \in Nodes, AttachRuntime(n) PROVE drain' = NoDrain
  BY <1>8 DEF AttachRuntime
<1>9. QED
  <2>1. NoDrain.epoch = 0
    BY DEF NoDrain
  <2>2. \A n : [drain EXCEPT !.todo = @ \ {n}].epoch = drain.epoch
    OBVIOUS
  <2>3. QED
    BY <1>1, <1>2, <1>3, <1>4, <1>5, <1>6, <1>7, <1>8, <2>1, <2>2 DEF Next

\* Nothing that the coordinator does takes anything from a request in flight.
LEMMA ControlSound == ASSUME SInv, ControlStep PROVE SInv'
<1>1. IInv /\ Next /\ UNCHANGED <<req, refused>> /\ current.epoch \in Nat /\ drain.epoch \in Nat
  BY MaxEpochAssumption DEF SInv, IInv, TypeOK, ControlStep, servingVars
<1>2. IInv' /\ ServingTypeOK'
  <2>1. IInv'
    BY <1>1, NextIInv
  <2>2. ServingTypeOK'
    BY <1>1 DEF SInv, ServingTypeOK
  <2>3. QED
    BY <2>1, <2>2
<1>3. ASSUME NEW r \in Requests, req[r].status \in InFlight PROVE Bound(req[r])'
  <2>1. Bound(req[r]) /\ req[r].bound \in 1..current.epoch /\ req[r].bound # drain.epoch
    BY <1>3, RequestFacts DEF Sound, Bound
  <2>2. req[r].bound \in 1..current'.epoch
    <3>1. current'.epoch \in Nat /\ current.epoch <= current'.epoch
      BY <1>1, EpochsGrow
    <3>2. QED
      BY <1>1, <2>1, <3>1
  <2>3. req[r].bound # drain'.epoch
    <3>1. CASE drain'.epoch \in {drain.epoch, 0}
      BY <1>1, <2>1, <3>1
    <3>2. CASE drain'.epoch # 0 /\ drain.epoch = 0
      <4>1. InFlightOn(drain'.epoch) = {}
        BY <3>2 DEF ControlStep
      <4>2. QED
        BY <1>3, <4>1 DEF InFlightOn
    <3>3. QED
      BY <1>1, <3>1, <3>2, DrainMoves
  <2>4. QED
    BY <1>1, <2>1, <2>2, <2>3 DEF Bound
<1>4. ASSUME NEW r \in Requests, req[r].status = "running" PROVE OnHeld(req[r])'
  <2>1. OnHeld(req[r]) /\ Bound(req[r])
    BY <1>4, RequestFacts DEF Sound, InFlight
  <2>2. ASSUME NEW n \in Nodes PROVE HeldFor(n, req[r].epoch)' = HeldFor(n, req[r].epoch)
    BY <1>1, <2>1, HeldStays DEF Bound, HeldFor
  <2>3. Heads(req[r])' = Heads(req[r]) /\ Strict \subseteq Nodes
    BY <1>1, StrictAssumption DEF Heads
  <2>4. QED
    BY <1>1, <2>1, <2>2, <2>3 DEF OnHeld
<1>5. ASSUME NEW r \in Requests PROVE Sound(req[r])'
  <2>1. /\ req[r].status \in InFlight => Chained(req[r])
        /\ req[r].status \in InFlight \cup {"done"} => Passed(req[r])
        /\ req[r].status = "done" => req[r].todo = {}
    BY RequestFacts DEF Sound
  <2>2. QED
    BY <1>1, <1>3, <1>4, <2>1 DEF Sound, Chained, Passed
<1>6. QED
  BY <1>2, <1>5 DEF SInv

-----------------------------------------------------------------------------
(* The theorems *)

\* The requests are new, the coordinator is at its start.
LEMMA ServingInitSound == ASSUME ServingInit PROVE SInv
<1>1. IInv
  BY InitIInv DEF ServingInit
<1>2. req \in [Requests -> RequestType] /\ \A r \in Requests : Sound(req[r])
  BY NewRequestFacts DEF ServingInit
<1>3. ServingTypeOK
  BY <1>2 DEF ServingInit, ServingTypeOK, RequestType
<1>4. QED
  BY <1>1, <1>2, <1>3 DEF SInv

\* Every step keeps the requests sound.
LEMMA ServingStepSound == ASSUME SInv, [ServingNext]_allVars PROVE SInv'
<1>1. CASE ControlStep
  BY <1>1, ControlSound
<1>2. ASSUME NEW r \in Requests, NEW healthy \in SUBSET Nodes, Lookup(r, healthy) PROVE SInv'
  BY <1>2, LookupSound
<1>3. ASSUME NEW r \in Requests, Place(r) PROVE SInv'
  BY <1>3, PlaceSound
<1>4. ASSUME NEW r \in Requests, NEW n \in Nodes, Begin(r, n) PROVE SInv'
  BY <1>4, BeginSound
<1>5. ASSUME NEW r \in Requests, NEW n \in Nodes, Refuse(r, n) PROVE SInv'
  <2>1. /\ req[r].status \in InFlight /\ UNCHANGED vars /\ refused' \subseteq Requests
        /\ req' = [req EXCEPT ![r] = Recovered(req[r])]
    BY <1>5, RequestFacts DEF Refuse, InFlight
  <2>2. QED
    BY <2>1, RecoverySound
<1>6. ASSUME NEW r \in Requests, NEW n \in Nodes, Finish(r, n) PROVE SInv'
  BY <1>6, FinishSound
<1>7. ASSUME NEW r \in Requests, NEW n \in Nodes, EngineFails(r, n) PROVE SInv'
  <2>1. /\ req[r].status \in InFlight /\ UNCHANGED vars /\ refused' \subseteq Requests
        /\ req' = [req EXCEPT ![r] = Recovered(req[r])]
    BY <1>7, RequestFacts DEF EngineFails, InFlight
  <2>2. QED
    BY <2>1, RecoverySound
<1>8. ASSUME NEW r \in Requests, DeliveryFails(r) PROVE SInv'
  BY <1>8, DeliverySound
<1>9. CASE UNCHANGED allVars
  <2>1. IInv'
    BY <1>9, NextIInv DEF SInv, allVars
  <2>2. QED
    BY <1>9, <2>1 DEF allVars, vars, servingVars, SInv, ServingTypeOK, Sound, Bound, Chained, OnHeld,
       Passed, Heads, HeldFor
<1>10. QED
  BY <1>1, <1>2, <1>3, <1>4, <1>5, <1>6, <1>7, <1>8, <1>9 DEF ServingNext

\* Requests and coordinator stay in the inductive invariant.
THEOREM ServingInvariant == ServingSpec => []SInv
<1>1. ServingInit => SInv
  BY ServingInitSound
<1>2. SInv /\ [ServingNext]_allVars => SInv'
  BY ServingStepSound
<1>3. QED
  BY <1>1, <1>2, PTL DEF ServingSpec

\* No request is in flight in an epoch that is being drained.
THEOREM DrainedEpochNeverUsed == ServingSpec => []DrainedEpochUnused
<1>1. SInv => DrainedEpochUnused
  <2> SUFFICES ASSUME SInv, drain.epoch # 0, NEW r \in InFlightOn(drain.epoch) PROVE FALSE
    BY DEF DrainedEpochUnused
  <2>1. r \in Requests /\ req[r].status \in InFlight /\ req[r].bound = drain.epoch
    BY DEF InFlightOn
  <2>2. QED
    BY <2>1 DEF SInv, Sound, Bound
<1>2. QED
  BY <1>1, ServingInvariant, PTL

\* A strict node runs a task only with the layers that it holds for the task's epoch.
THEOREM AlwaysRunsOnHeldLayers == ServingSpec => []RunsOnHeldLayers
<1>1. SInv => RunsOnHeldLayers
  <2> SUFFICES ASSUME SInv, NEW r \in Requests, NEW n \in Strict,
                      req[r].status = "running", IsNext(r, n)
               PROVE  HeldFor(n, req[r].epoch) = req[r].chain[n]
    BY DEF RunsOnHeldLayers
  <2>1. OnHeld(req[r]) /\ n \in Heads(req[r])
    BY DEF SInv, Sound, IsNext, Heads
  <2>2. QED
    BY <2>1 DEF OnHeld
<1>2. QED
  BY <1>1, ServingInvariant, PTL

\* A request that ends without error on a chain that covers the model has been through
\* all of its layers.
THEOREM DoneAlwaysMeansAllStages == ServingSpec => []DoneMeansAllStages
<1>1. SInv => DoneMeansAllStages
  <2> SUFFICES ASSUME SInv, NEW r \in Requests, req[r].status = "done", CoversModel(req[r].chain)
               PROVE  req[r].ran = Layers
    BY DEF DoneMeansAllStages
  <2> DEFINE q == req[r]
  <2>1. q \in RequestType /\ Passed(q) /\ q.todo = {}
    BY RequestFacts DEF Sound
  <2>2. ASSUME NEW l \in Layers PROVE l \in q.ran
    <3>1. PICK n \in Nodes : l \in LayersOf(q.chain[n])
      BY DEF CoversModel
    <3>2. q.chain[n] # NoRange
      BY <3>1 DEF NoRange, LayersOf, Layers
    <3>3. QED
      BY <2>1, <3>1, <3>2 DEF Passed, Members
  <2>3. q.ran \subseteq Layers
    BY <2>1 DEF RequestType
  <2>4. QED
    BY <2>2, <2>3
<1>2. QED
  BY <1>1, ServingInvariant, PTL

\* The requests and the refusals recorded have their types.
THEOREM ServingTypeCorrect == ServingSpec => []ServingTypeOK
<1>1. SInv => ServingTypeOK
  BY DEF SInv
<1>2. QED
  BY <1>1, ServingInvariant, PTL

-----------------------------------------------------------------------------
(* Who may refuse a request: the invariant is about the epochs that the     *)
(* stages of its chain are active in, and about the activation that a retry *)
(* leaves behind, which carries no epoch.                                   *)

\* Two reconfigurations have passed since the request was bound.
Outlived(q) == current.epoch > q.bound + 1

\* A stage of the chain is active in the request's epoch or a later one; only a drain
\* of such a later one makes it inactive.
StagesKept(q) == \A n \in Members(q.chain) : active[n] >= q.bound \/ Outlived(q)

\* A task that is no retry has the request's epoch, and so has the activation that it
\* starts from; a retry passes only where no epoch is active any more.
Timely(q) ==
  q.status \in InFlight =>
    /\ StagesKept(q)
    /\ q.retries = 0 => q.epoch = q.bound
    /\ q.status = "running" /\ q.epoch = 0 => Outlived(q)
    /\ q.todo # Members(q.chain) => q.activation = q.bound \/ Outlived(q)

LeaverInv == SInv /\ \A r \in Requests : Timely(req[r])

\* A change of one request that leaves a timely record.
LEMMA OneTimely ==
  ASSUME LeaverInv, SInv', UNCHANGED vars, NEW r \in Requests, NEW q,
         req' = [req EXCEPT ![r] = q], Timely(q)
  PROVE  LeaverInv'
<1>1. \A x \in Requests : Timely(req'[x])
  BY DEF LeaverInv, SInv, ServingTypeOK
<1>2. QED
  BY <1>1 DEF LeaverInv, Timely, StagesKept, Outlived, Members, vars

\* A recovered request gives up, or has the epoch of a retry.
LEMMA RecoveredTimely ==
  ASSUME NEW q \in RequestType, Timely(q), q.status \in InFlight
  PROVE  Timely(Recovered(q))
<1> DEFINE again == [q EXCEPT !.status = "queued", !.epoch = 0, !.retries = q.retries + 1]
           over == [q EXCEPT !.status = "failed"]
<1>1. CASE q.retries < MaxRetries
  <2>1. Recovered(q) = again
    BY <1>1 DEF Recovered
  <2>2. /\ again.status = "queued" /\ again.epoch = 0 /\ again.bound = q.bound
        /\ again.chain = q.chain /\ again.todo = q.todo /\ again.activation = q.activation
        /\ again.retries = q.retries + 1 /\ q.retries \in Nat
    BY MaxRetriesAssumption DEF RequestType
  <2> HIDE DEF again
  <2>3. again.retries # 0
    BY <2>2
  <2>4. QED
    BY <2>1, <2>2, <2>3 DEF Timely, StagesKept, Outlived
<1>2. CASE ~(q.retries < MaxRetries)
  <2>1. Recovered(q) = over
    BY <1>2 DEF Recovered
  <2>2. over.status = "failed"
    BY DEF RequestType
  <2>3. QED
    BY <2>1, <2>2 DEF Timely, InFlight
<1>3. QED
  BY <1>1, <1>2

\* The stages of the plan in force are active in its epoch or in the next.
LEMMA ServingActive ==
  ASSUME IInv, NEW n \in Members(policy.plan)
  PROVE  active[n] >= policy.epoch
<1>1. /\ n \in Nodes /\ policy.epoch \in Nat /\ policy = current
      /\ active[n] = policy.epoch \/ (call.phase = "activate" /\ active[n] = call.epoch)
      /\ call.phase = "activate" => call.epoch = current.epoch + 1
  BY MaxEpochAssumption DEF IInv, TypeOK, ServingPlanReady, ServingConsistent, CallConsistent, Members
<1>2. QED
  BY <1>1

\* A placed request is bound to the epoch that its stages are active in.
LEMMA PlaceTimely ==
  ASSUME LeaverInv, NEW r \in Requests, Place(r)
  PROVE  LeaverInv'
<1> DEFINE chain == [n \in Nodes |-> IF n \in req[r].seen \cap alive
                                       THEN policy.plan[n] ELSE NoRange]
           none == [req[r] EXCEPT !.status = "failed"]
           q == [req[r] EXCEPT !.status = "queued", !.bound = policy.epoch,
                   !.epoch = policy.epoch, !.chain = chain, !.todo = Members(chain)]
<1>1. SInv' /\ SInv /\ IInv
  BY PlaceSound DEF LeaverInv, SInv
<1>2. UNCHANGED vars /\ req[r] \in RequestType
  BY <1>1, RequestFacts DEF Place
<1>3. CASE Members(chain) = {}
  <2>1. req' = [req EXCEPT ![r] = none]
    BY <1>3 DEF Place
  <2>2. Timely(none)
    BY <1>2 DEF Timely, RequestType, InFlight
  <2> HIDE DEF none
  <2>3. QED
    BY <1>1, <1>2, <2>1, <2>2, OneTimely
<1>4. CASE Members(chain) # {}
  <2>1. req' = [req EXCEPT ![r] = q]
    BY <1>4 DEF Place
  <2>2. /\ q.status = "queued" /\ q.bound = policy.epoch /\ q.epoch = policy.epoch
        /\ q.chain = chain /\ q.todo = Members(chain)
    BY <1>2 DEF RequestType
  <2>3. Members(chain) \subseteq Members(policy.plan)
    BY DEF Members
  <2> HIDE DEF q, chain
  <2>4. StagesKept(q)
    BY <1>1, <2>2, <2>3, ServingActive DEF StagesKept
  <2>5. Timely(q)
    BY <2>2, <2>4 DEF Timely
  <2>6. QED
    BY <1>1, <1>2, <2>1, <2>5, OneTimely
<1>5. QED
  BY <1>3, <1>4

\* A retry begins only on a node that is active in no epoch.
LEMMA BeginTimely ==
  ASSUME LeaverInv, NEW r \in Requests, NEW n \in Nodes, Begin(r, n)
  PROVE  LeaverInv'
<1> DEFINE old == req[r]
           q == [old EXCEPT !.status = "running"]
<1>1. SInv' /\ SInv /\ IInv
  BY BeginSound DEF LeaverInv, SInv
<1>2. /\ UNCHANGED vars /\ old \in RequestType /\ req' = [req EXCEPT ![r] = q]
      /\ old.status = "queued" /\ Timely(old) /\ Accepts(n, r)
      /\ old.bound \in 1..current.epoch /\ n \in Members(old.chain)
  BY <1>1, RequestFacts, OneHead DEF Begin, LeaverInv, Sound, Bound, InFlight
<1>3. /\ q.status = "running" /\ q.bound = old.bound /\ q.epoch = old.epoch
      /\ q.chain = old.chain /\ q.todo = old.todo /\ q.activation = old.activation
      /\ q.retries = old.retries
  BY <1>2 DEF RequestType
<1>4. ASSUME old.epoch = 0 PROVE Outlived(old)
  <2>1. old.chain[n] # NoRange /\ HeldFor(n, 0) = NoRange
    BY <1>2 DEF Members, HeldFor
  <2>2. active[n] = 0
    BY <1>2, <1>4, <2>1 DEF Accepts
  <2>3. active[n] >= old.bound \/ Outlived(old)
    BY <1>2 DEF Timely, StagesKept, InFlight
  <2>4. QED
    BY <1>1, <1>2, <2>2, <2>3 DEF IInv, TypeOK
<1> HIDE DEF q, old
<1>5. Timely(q)
  BY <1>2, <1>3, <1>4 DEF Timely, StagesKept, Outlived, InFlight
<1>6. QED
  BY <1>1, <1>2, <1>5, OneTimely DEF old

\* A stage hands its task's epoch on with the activation.
LEMMA FinishTimely ==
  ASSUME LeaverInv, NEW r \in Requests, NEW n \in Nodes, Finish(r, n)
  PROVE  LeaverInv'
<1> DEFINE old == req[r]
           last == old.todo = {n}
           q == [old EXCEPT !.status = IF last THEN "done" ELSE "queued",
                   !.ran = old.ran \cup LayersOf(old.chain[n]), !.todo = old.todo \ {n},
                   !.activation = old.epoch, !.epoch = old.bound, !.retries = 0]
<1>1. SInv' /\ SInv /\ IInv
  BY FinishSound DEF LeaverInv, SInv
<1>2. /\ UNCHANGED vars /\ old \in RequestType /\ req' = [req EXCEPT ![r] = q]
      /\ old.status = "running" /\ Timely(old) /\ old.epoch \in {0, old.bound}
  BY <1>1, RequestFacts DEF Finish, LeaverInv, Sound, Bound, InFlight
<1>3. /\ q.status = (IF last THEN "done" ELSE "queued") /\ q.bound = old.bound
      /\ q.epoch = old.bound /\ q.chain = old.chain /\ q.activation = old.epoch
  BY <1>2 DEF RequestType
<1> HIDE DEF q, old, last
<1>4. Timely(q)
  BY <1>2, <1>3 DEF Timely, StagesKept, Outlived, InFlight
<1>5. QED
  BY <1>1, <1>2, <1>4, OneTimely DEF old

-----------------------------------------------------------------------------
(* The coordinator under it *)

\* A runtime leaves an epoch for a later one, or for none when that one is drained.
LEMMA ActiveMoves ==
  ASSUME IInv, Next, NEW n \in Nodes, NEW e \in 1..current.epoch, e # drain.epoch,
         active[n] >= e \/ current.epoch > e + 1
  PROVE  active'[n] >= e \/ current'.epoch > e + 1
<1>1. /\ active \in [Nodes -> 0..MaxEpoch] /\ MaxEpoch \in Nat
      /\ current.epoch \in Nat /\ drain.epoch \in Nat /\ call.epoch \in Nat /\ e \in Nat
  BY MaxEpochAssumption DEF IInv, TypeOK
<1>2. current'.epoch \in Nat /\ current.epoch <= current'.epoch
  BY EpochsGrow
<1>3. CASE current.epoch > e + 1
  BY <1>1, <1>2, <1>3
<1>4. CASE active[n] >= e
  <2>1. ASSUME NEW m \in Nodes, Activate(m) PROVE active'[n] >= e
    <3>1. call.epoch = current.epoch + 1
      BY <2>1 DEF Activate, IInv, CallConsistent
    <3>2. active'[n] = IF m = n THEN call.epoch ELSE active[n]
      BY <1>1, <2>1 DEF Activate
    <3>3. QED
      BY <1>1, <1>4, <3>1, <3>2
  <2>2. ASSUME NEW m \in Nodes, Retire(m) PROVE active'[n] >= e \/ current'.epoch > e + 1
    <3>1. drain.epoch < current.epoch /\ current' = current
      BY <2>2 DEF Retire, IInv, ServingConsistent
    <3>2. active'[n] = IF m = n /\ active[n] = drain.epoch THEN 0 ELSE active[n]
      BY <1>1, <2>2 DEF Retire
    <3>3. QED
      BY <1>1, <1>4, <3>1, <3>2
  <2>3. CASE ~\E m \in Nodes : Activate(m) \/ Retire(m)
    <3>1. active' = active
      BY <2>3 DEF Next, StartApply, Prepare, UpdateLedger, CopyReusableKV, Commit, PrepareRefused,
         LedgerRefused, CallFails, Abandon, StartDrain, EndDrain, NodeLeaves, NodeReturns,
         AttachRuntime
    <3>2. QED
      BY <1>4, <3>1
  <2>4. QED
    BY <2>1, <2>2, <2>3
<1>5. QED
  BY <1>3, <1>4

LEMMA ControlTimely == LeaverInv /\ ControlStep => LeaverInv'
<1> SUFFICES ASSUME LeaverInv, ControlStep PROVE LeaverInv'
  OBVIOUS
<1>1. SInv /\ SInv' /\ IInv /\ Next /\ req' = req
  BY ControlSound DEF LeaverInv, ControlStep, SInv, servingVars
<1>2. ASSUME NEW r \in Requests PROVE Timely(req[r])'
  <2> DEFINE q == req[r]
  <2> SUFFICES ASSUME q.status \in InFlight PROVE Timely(q)'
    BY <1>1 DEF Timely
  <2>1. /\ q \in RequestType /\ q.bound \in 1..current.epoch /\ q.bound # drain.epoch
        /\ Timely(q) /\ Members(q.chain) \subseteq Nodes
    BY <1>1, RequestFacts DEF Sound, Bound, LeaverInv, Members
  <2>2. ASSUME Outlived(q) PROVE Outlived(q)'
    <3>1. current'.epoch \in Nat /\ current.epoch <= current'.epoch /\ q.bound \in Nat
          /\ current.epoch \in Nat
      BY <1>1, <2>1, EpochsGrow, MaxEpochAssumption DEF IInv, TypeOK
    <3>2. QED
      BY <1>1, <2>2, <3>1 DEF Outlived
  <2>3. StagesKept(q)'
    <3> SUFFICES ASSUME NEW n \in Members(q.chain) PROVE active'[n] >= q.bound \/ current'.epoch > q.bound + 1
      BY <1>1 DEF StagesKept, Outlived, Members
    <3>1. active[n] >= q.bound \/ current.epoch > q.bound + 1
      BY <2>1 DEF Timely, StagesKept, Outlived
    <3> HIDE DEF q
    <3>2. QED
      BY <1>1, <2>1, <3>1, ActiveMoves
  <2>4. QED
    BY <1>1, <2>1, <2>2, <2>3 DEF Timely, Members
<1>3. QED
  BY <1>1, <1>2 DEF LeaverInv

-----------------------------------------------------------------------------
LEMMA LeaverStep == LeaverInv /\ [ServingNext]_allVars => LeaverInv'
<1> SUFFICES ASSUME LeaverInv, [ServingNext]_allVars PROVE LeaverInv'
  OBVIOUS
<1>1. SInv /\ SInv' /\ \A r \in Requests : Timely(req[r])
  BY ServingStepSound DEF LeaverInv
<1>2. ASSUME NEW r \in Requests, NEW q, UNCHANGED vars, req' = [req EXCEPT ![r] = q],
             q.status \notin InFlight
      PROVE  LeaverInv'
  BY <1>1, <1>2, OneTimely DEF Timely
<1>3. CASE ControlStep
  BY <1>3, ControlTimely
<1>4. ASSUME NEW r \in Requests, NEW healthy \in SUBSET Nodes, Lookup(r, healthy) PROVE LeaverInv'
  <2> DEFINE q == IF healthy = {} THEN [req[r] EXCEPT !.status = "failed"]
                  ELSE [req[r] EXCEPT !.status = "lookup", !.seen = healthy]
  <2>1. req' = [req EXCEPT ![r] = q] /\ UNCHANGED vars
    BY <1>4 DEF Lookup
  <2>2. q.status \in {"failed", "lookup"}
    BY <1>1, RequestFacts DEF RequestType
  <2> HIDE DEF q
  <2>3. QED
    BY <1>2, <2>1, <2>2 DEF InFlight
<1>5. ASSUME NEW r \in Requests, Place(r) PROVE LeaverInv'
  BY <1>5, PlaceTimely
<1>6. ASSUME NEW r \in Requests, NEW n \in Nodes, Begin(r, n) PROVE LeaverInv'
  BY <1>6, BeginTimely
<1>7. ASSUME NEW r \in Requests, NEW n \in Nodes, Refuse(r, n) \/ EngineFails(r, n) PROVE LeaverInv'
  <2>1. /\ req[r].status \in InFlight /\ UNCHANGED vars /\ req[r] \in RequestType
        /\ req' = [req EXCEPT ![r] = Recovered(req[r])]
    BY <1>1, <1>7, RequestFacts DEF Refuse, EngineFails, InFlight
  <2>2. Timely(Recovered(req[r]))
    BY <1>1, <2>1, RecoveredTimely
  <2>3. QED
    BY <1>1, <2>1, <2>2, OneTimely
<1>8. ASSUME NEW r \in Requests, NEW n \in Nodes, Finish(r, n) PROVE LeaverInv'
  BY <1>8, FinishTimely
<1>9. ASSUME NEW r \in Requests, DeliveryFails(r) PROVE LeaverInv'
  <2> DEFINE q == [req[r] EXCEPT !.status = "failed"]
  <2>1. req' = [req EXCEPT ![r] = q] /\ UNCHANGED vars
    BY <1>9 DEF DeliveryFails
  <2>2. q.status = "failed"
    BY <1>1, RequestFacts DEF RequestType
  <2> HIDE DEF q
  <2>3. QED
    BY <1>2, <2>1, <2>2 DEF InFlight
<1>10. CASE UNCHANGED allVars
  BY <1>1, <1>10 DEF LeaverInv, Timely, StagesKept, Outlived, Members, allVars, vars, servingVars
<1>11. QED
  BY <1>3, <1>4, <1>5, <1>6, <1>7, <1>8, <1>9, <1>10 DEF ServingNext

\* A runtime that holds the layers refuses a request's task only when it has been
\* switched to a later epoch, or two reconfigurations have passed.
LEMMA RefusalsExplained ==
  ASSUME LeaverInv, NEW r \in Requests, NEW n \in Nodes, Refuse(r, n), r \notin refused, r \in refused'
  PROVE  /\ n \in req[r].todo /\ IsNext(r, n)
         /\ active[n] > req[r].epoch \/ current.epoch > req[r].epoch + 1
<1> DEFINE q == req[r]
<1>1. /\ SInv /\ IInv /\ q \in RequestType /\ q.status = "queued" /\ IsNext(r, n)
      /\ q.retries = 0 /\ HeldFor(n, q.epoch) = q.chain[n] /\ ~Accepts(n, r)
  BY RequestFacts DEF LeaverInv, SInv, Refuse
<1>2. n \in Members(q.chain) /\ n \in q.todo
  BY <1>1, OneHead DEF InFlight
<1>3. /\ q.epoch = q.bound /\ q.bound \in 1..current.epoch
      /\ active[n] >= q.bound \/ current.epoch > q.bound + 1
      /\ q.todo # Members(q.chain) => q.activation = q.bound \/ current.epoch > q.bound + 1
  BY <1>1, <1>2, RequestFacts DEF LeaverInv, Timely, StagesKept, Outlived, InFlight, Sound, Bound
<1>4. active[n] # q.epoch \/ (q.todo # Members(q.chain) /\ q.activation # q.epoch)
  BY <1>1 DEF Accepts, IsFirstStage
<1>5. active[n] \in Nat /\ q.epoch \in Nat /\ current.epoch \in Nat
  BY <1>1, MaxEpochAssumption DEF IInv, TypeOK, RequestType
<1>6. QED
  BY <1>1, <1>2, <1>3, <1>4, <1>5

\* A node that left the plan goes on serving the old epoch: it refuses a task whose
\* layers it still holds only after having moved on itself, whatever is prepared on
\* it, fails or is drained.
THEOREM LeaversAlwaysServe == ServingSpec => LeaversServeOldEpoch
<1> DEFINE Explained ==
      \A r \in refused' \ refused : \E n \in req[r].todo :
        /\ IsNext(r, n)
        /\ active[n] > req[r].epoch \/ current.epoch > req[r].epoch + 1
<1>1. ServingInit => LeaverInv
  <2> SUFFICES ASSUME ServingInit PROVE LeaverInv
    OBVIOUS
  <2>1. SInv /\ \A r \in Requests : req[r].status = "new"
    BY ServingInitSound DEF ServingInit, NewRequest
  <2>2. QED
    BY <2>1 DEF LeaverInv, Timely, InFlight
<1>2. LeaverInv /\ [ServingNext]_allVars => [Explained]_allVars
  <2> SUFFICES ASSUME LeaverInv, ServingNext, NEW r \in refused' \ refused
               PROVE  \E n \in req[r].todo :
                        /\ IsNext(r, n)
                        /\ active[n] > req[r].epoch \/ current.epoch > req[r].epoch + 1
    OBVIOUS
  <2>1. PICK x \in Requests, n \in Nodes : Refuse(x, n)
    BY DEF ServingNext, ControlStep, Lookup, Place, Begin, Finish, EngineFails, DeliveryFails, servingVars
  <2>2. x = r
    BY <2>1 DEF Refuse
  <2>3. QED
    BY <2>1, <2>2, RefusalsExplained
<1>3. QED
  BY <1>1, <1>2, LeaverStep, PTL DEF ServingSpec, LeaversServeOldEpoch
=============================================================================
