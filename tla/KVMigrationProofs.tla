------------------------- MODULE KVMigrationProofs -------------------------
(***************************************************************************)
(* The KV blocks of departed nodes, for every number of nodes, requests,    *)
(* retries and events, under both migration policies: no block is forgotten *)
(* on a node that is gone, none is lost but by plan, and the stages of the  *)
(* next plan get their blocks.                                              *)
(***************************************************************************)
EXTENDS KVMigration, TLAPS

Events == [kind : {"left", "joined"}, node : Nodes]
Phases == {"idle", "recover", "move", "prepare", "copy"}
RunType ==
  [st : {"idle", "lookup", "engine", "save", "save again"}, req : Requests \cup {None},
   node : Nodes \cup {None}, tries : 0..MaxRetries]

\* The handler's record, whatever its fields hold.
Work(phase, node, listed, todo, moves, drops, given, plan, owner) ==
  [phase |-> phase, node |-> node, listed |-> listed, todo |-> todo, moves |-> moves,
   drops |-> drops, given |-> given, plan |-> plan, owner |-> owner]

Formed(h) ==
  h = Work(h.phase, h.node, h.listed, h.todo, h.moves, h.drops, h.given, h.plan, h.owner)

Typed ==
  /\ config.migration \in {"default", "priority"}
  /\ catalog \in [Blocks -> SUBSET Places]
  /\ up \subseteq Nodes /\ members \subseteq Nodes
  /\ queue \in Seq(Events)
  /\ run \in [Runners -> RunType]
  /\ pending \in [Nodes -> SUBSET Ids]
  /\ results \in [Requests -> {"none", "ok", "error"}]

\* Who runs has a request and a node; the handler runs only while it recovers, and its
\* ids are pending only at the node where it runs.
Runs ==
  /\ \A x \in Runners : run[x].st # "idle" => run[x].req \in Requests /\ run[x].node \in Nodes
  /\ run[Handler].st # "lookup"
  /\ run[Handler].st # "idle" => handler.phase = "recover"
  /\ \A n \in Nodes : \A id \in pending[n] :
       id[1] = Handler => run[Handler].st # "idle" /\ run[Handler].node = n

Reachable == up \cup Departures

\* The handler's plan against the catalog and the nodes: while it is busy, nobody else
\* removes a location or takes an event.
Handling(h) ==
  /\ Formed(h) /\ h.phase \in Phases
  /\ h.listed \subseteq Blocks /\ h.drops \subseteq Blocks /\ h.plan \subseteq Nodes
  /\ h.phase = "recover" =>
       /\ h.node \in Nodes /\ h.todo \subseteq Requests \X (0..MaxRetries)
       /\ \A b \in h.listed : h.node \in catalog[b]
  /\ h.phase = "move" =>
       /\ h.node \in Nodes /\ DOMAIN h.moves \subseteq Blocks
       /\ \A b \in DOMAIN h.moves :
            /\ h.node \in catalog[b] /\ h.moves[b] \in Places \ {h.node}
            /\ config.migration = "priority" => h.moves[b] \in Reachable
       /\ h.drops \subseteq h.given
       /\ config.migration = "default" => h.given = {}
  /\ h.phase = "copy" =>
       /\ \A b \in Blocks : h.owner[b] \in Reachable \cup {None}
       /\ \A b \in h.listed :
            catalog[b] # {} /\ (b \in h.todo \/ h.owner[b] = None \/ h.owner[b] \in catalog[b])

KInv == Typed /\ Runs /\ Handling(handler) /\ StrandedIsPending

-----------------------------------------------------------------------------
(* The queue of events *)

\* A node whose departure is queued stays so when an event is appended.
LEMMA Queued ==
  ASSUME queue \in Seq(Events), NEW e \in Events, queue' = Append(queue, e)
  PROVE  /\ queue' \in Seq(Events) /\ Departures \subseteq Departures'
         /\ e.kind = "left" => e.node \in Departures'
<1>1. queue' \in Seq(Events) /\ Len(queue) \in Nat /\ Len(queue') = Len(queue) + 1
      /\ queue'[Len(queue) + 1] = e /\ \A i \in 1..Len(queue) : queue'[i] = queue[i]
  OBVIOUS
<1>2. ASSUME NEW n \in Departures PROVE n \in Departures'
  <2>1. PICK i \in 1..Len(queue) : queue[i].kind = "left" /\ queue[i].node = n
    BY <1>2 DEF Departures
  <2>2. i \in 1..Len(queue') /\ queue'[i] = queue[i]
    BY <1>1
  <2>3. QED
    BY <2>1, <2>2 DEF Departures
<1>3. ASSUME e.kind = "left" PROVE e.node \in Departures'
  <2>1. Len(queue) + 1 \in 1..Len(queue')
    BY <1>1
  <2>2. QED
    BY <1>1, <1>3, <2>1 DEF Departures
<1>4. QED
  BY <1>1, <1>2, <1>3

\* Taking the first event removes at most the departure of its node.
LEMMA Dequeued ==
  ASSUME queue \in Seq(Events), queue # <<>>, queue' = Tail(queue)
  PROVE  /\ queue' \in Seq(Events) /\ Head(queue) \in Events
         /\ Departures \subseteq Departures' \cup {Head(queue).node}
         /\ Head(queue).kind # "left" => Departures \subseteq Departures'
<1>1. /\ queue' \in Seq(Events) /\ Head(queue) \in Events /\ Head(queue) = queue[1]
      /\ Len(queue) \in Nat /\ Len(queue') = Len(queue) - 1
      /\ \A i \in 1..Len(queue') : queue'[i] = queue[i + 1]
  OBVIOUS
<1>2. ASSUME NEW n \in Departures
      PROVE  n \in Departures' \/ (n = Head(queue).node /\ Head(queue).kind = "left")
  <2>1. PICK i \in 1..Len(queue) : queue[i].kind = "left" /\ queue[i].node = n
    BY <1>2 DEF Departures
  <2>2. CASE i = 1
    BY <1>1, <2>1, <2>2
  <2>3. CASE i # 1
    <3>1. i - 1 \in 1..Len(queue') /\ queue'[i - 1] = queue[i]
      BY <1>1, <2>3
    <3>2. QED
      BY <2>1, <3>1 DEF Departures
  <2>4. QED
    BY <2>2, <2>3
<1>3. QED
  BY <1>1, <1>2

-----------------------------------------------------------------------------
(* The fleet *)

\* Whatever the handler does stays right when nodes come and go, as long as events are
\* only appended, and when blocks are saved.
LEMMA HandlingStays ==
  ASSUME KInv, UNCHANGED <<config, handler>>, Reachable \subseteq Reachable',
         \A b \in Blocks : catalog[b] \subseteq catalog'[b]
  PROVE  Handling(handler)'
<1>1. handler.phase = "recover" => \A b \in handler.listed : handler.node \in catalog'[b]
  BY DEF KInv, Handling
<1>2. handler.phase = "move" =>
        \A b \in DOMAIN handler.moves :
          /\ handler.node \in catalog'[b] /\ handler.moves[b] \in Places \ {handler.node}
          /\ config.migration = "priority" => handler.moves[b] \in Reachable'
  BY DEF KInv, Handling
<1>3. handler.phase = "copy" =>
        /\ \A b \in Blocks : handler.owner[b] \in Reachable' \cup {None}
        /\ \A b \in handler.listed :
             catalog'[b] # {} /\ (b \in handler.todo \/ handler.owner[b] = None
                                  \/ handler.owner[b] \in catalog'[b])
  BY DEF KInv, Handling
<1>4. QED
  BY <1>1, <1>2, <1>3 DEF KInv, Handling, Formed, Work

\* Nodes come and go, and report states that forget what is pending.
LEMMA FleetSound ==
  ASSUME KInv, NEW n \in Nodes, Unregister(n) \/ Register(n) \/ HeartbeatWithState(n)
  PROVE  KInv'
<1>1. /\ UNCHANGED <<config, catalog, run, results, handler, members>> /\ up' \subseteq Nodes
      /\ pending' = pending \/ pending' = [pending EXCEPT ![n] = {}]
  BY DEF KInv, Typed, Unregister, Register, HeartbeatWithState, tasks
<1>2. pending' \in [Nodes -> SUBSET Ids] /\ \A m \in Nodes : pending'[m] \subseteq pending[m]
  BY <1>1 DEF KInv, Typed
<1>3. /\ queue' \in Seq(Events) /\ Departures \subseteq Departures' /\ up \subseteq up' \cup Departures'
  <2>1. queue \in Seq(Events)
    BY DEF KInv, Typed
  <2>2. CASE Unregister(n)
    <3> DEFINE e == [kind |-> "left", node |-> n]
    <3>1. e \in Events /\ queue' = Append(queue, e) /\ up' = up \ {n} /\ e.kind = "left" /\ e.node = n
      BY <2>2 DEF Unregister, Happens, Events
    <3> HIDE DEF e
    <3>2. QED
      BY <2>1, <3>1, Queued
  <2>3. CASE Register(n)
    <3> DEFINE e == [kind |-> "joined", node |-> n]
    <3>1. e \in Events /\ queue' = Append(queue, e) /\ up' = up \cup {n}
      BY <2>3 DEF Register, Happens, Events
    <3> HIDE DEF e
    <3>2. QED
      BY <2>1, <3>1, Queued
  <2>4. CASE HeartbeatWithState(n)
    BY <2>1, <2>4 DEF HeartbeatWithState, Departures
  <2>5. QED
    BY <2>2, <2>3, <2>4
<1>4. Typed'
  BY <1>1, <1>2, <1>3 DEF KInv, Typed
<1>5. Runs'
  BY <1>1, <1>2 DEF KInv, Runs
<1>6. Handling(handler)'
  BY <1>1, <1>3, HandlingStays DEF Reachable
<1>7. StrandedIsPending'
  <2> SUFFICES ASSUME NEW m \in Nodes \ up', NEW b \in HeldAt(m)
               PROVE  m \in Departures' \/ Clearing(b, m) \/ <<b, m>> \in stray'
    BY <1>1 DEF StrandedIsPending, HeldAt, Clearing
  <2>1. CASE m \in up
    BY <1>3, <2>1
  <2>2. CASE m \notin up
    <3>1. m \in Departures \/ Clearing(b, m) \/ <<b, m>> \in stray
      BY <2>2 DEF KInv, StrandedIsPending
    <3>2. <<b, m>> \in stray => <<b, m>> \in stray'
      BY DEF Unregister, Register, HeartbeatWithState
    <3>3. QED
      BY <1>3, <3>1, <3>2
  <2>3. QED
    BY <2>1, <2>2
<1>8. QED
  BY <1>4, <1>5, <1>6, <1>7 DEF KInv

-----------------------------------------------------------------------------
(* Requests and their runs *)

\* Tasks that move leave fleet, catalog and handler alone.
LEMMA TasksMove ==
  ASSUME KInv, UNCHANGED <<config, fleet, catalog, handler, members, stray>>,
         run' \in [Runners -> RunType], pending' \in [Nodes -> SUBSET Ids],
         results' \in [Requests -> {"none", "ok", "error"}], Runs'
  PROVE  KInv'
<1>1. Typed'
  BY DEF KInv, Typed, fleet
<1>2. Handling(handler)'
  <2>1. Reachable' = Reachable
    BY DEF Reachable, Departures, fleet
  <2>2. QED
    BY <2>1, HandlingStays
<1>3. StrandedIsPending'
  BY DEF KInv, StrandedIsPending, HeldAt, Clearing, Departures, fleet
<1>4. QED
  BY <1>1, <1>2, <1>3 DEF KInv

\* What is known of a runner at work.
LEMMA RunnerFacts ==
  ASSUME KInv, NEW x \in Runners, run[x].st # "idle"
  PROVE  /\ run[x].req \in Requests /\ run[x].node \in Nodes /\ run[x].tries \in 0..MaxRetries
         /\ x = Handler => handler.phase = "recover"
         /\ run \in [Runners -> RunType] /\ pending \in [Nodes -> SUBSET Ids]
         /\ \A y \in Runners : run[y] \in RunType
  BY DEF KInv, Typed, Runs, RunType

\* A run that starts, at the runner's own node where it has one.
LEMMA Started ==
  ASSUME KInv, NEW x \in Runners, NEW r \in Requests, NEW n \in Nodes, NEW k \in 0..MaxRetries,
         StartRun(x, r, n, k), x = Handler => handler'.phase = "recover",
         x = Handler /\ run[x].st # "idle" => run[x].node = n,
         handler'.phase = handler.phase
  PROVE  /\ run' \in [Runners -> RunType] /\ pending' \in [Nodes -> SUBSET Ids] /\ Runs'
<1> DEFINE q == [st |-> "engine", req |-> r, node |-> n, tries |-> k]
<1>1. q \in RunType /\ q.st = "engine" /\ q.req = r /\ q.node = n
  BY DEF RunType
<1>2. run' = [run EXCEPT ![x] = q] /\ pending' = [pending EXCEPT ![n] = @ \cup {<<x, k>>}]
  BY DEF StartRun
<1>3. run \in [Runners -> RunType] /\ pending \in [Nodes -> SUBSET Ids] /\ Handler \in Runners
  BY DEF KInv, Typed, Runners
<1>4. <<x, k>> \in Ids
  BY DEF Ids
<1> HIDE DEF q
<1>5. run' \in [Runners -> RunType] /\ pending' \in [Nodes -> SUBSET Ids]
  BY <1>1, <1>2, <1>3, <1>4
<1>6. /\ \A y \in Runners : run'[y] = IF y = x THEN q ELSE run[y]
      /\ \A m \in Nodes : pending'[m] = IF m = n THEN pending[m] \cup {<<x, k>>} ELSE pending[m]
  BY <1>2, <1>3
<1>7. \A y \in Runners : run'[y].st # "idle" => run'[y].req \in Requests /\ run'[y].node \in Nodes
  BY <1>1, <1>6 DEF KInv, Runs
<1>8. run'[Handler].st # "lookup" /\ (run'[Handler].st # "idle" => handler'.phase = "recover")
  BY <1>1, <1>3, <1>6 DEF KInv, Runs
<1>9. ASSUME NEW m \in Nodes, NEW id \in pending'[m], id[1] = Handler
      PROVE  run'[Handler].st # "idle" /\ run'[Handler].node = m
  <2>1. CASE id \in pending[m]
    <3>1. run[Handler].st # "idle" /\ run[Handler].node = m
      BY <1>9, <2>1 DEF KInv, Runs
    <3>2. QED
      BY <1>1, <1>3, <1>6, <3>1
  <2>2. CASE id = <<x, k>> /\ m = n
    BY <1>1, <1>3, <1>6, <1>9, <2>2
  <2>3. QED
    BY <1>6, <2>1, <2>2
<1>10. QED
  BY <1>5, <1>7, <1>8, <1>9 DEF Runs

\* A run that ends takes its ids away.
LEMMA Ended ==
  ASSUME KInv, NEW x \in Runners, run[x].st # "idle", NEW outcome \in {"ok", "error"},
         EndRun(x, outcome), UNCHANGED handler
  PROVE  /\ run' \in [Runners -> RunType] /\ pending' \in [Nodes -> SUBSET Ids]
         /\ results' \in [Requests -> {"none", "ok", "error"}] /\ Runs'
<1> DEFINE n == run[x].node
<1>1. Idle \in RunType /\ Idle.st = "idle"
  BY RetriesAssumption DEF Idle, RunType
<1>2. /\ run \in [Runners -> RunType] /\ pending \in [Nodes -> SUBSET Ids] /\ Handler \in Runners
      /\ n \in Nodes /\ run[x].req \in Requests
      /\ results \in [Requests -> {"none", "ok", "error"}]
  BY DEF KInv, Typed, Runs, Runners
<1>3. /\ run' = [run EXCEPT ![x] = Idle]
      /\ pending' = [pending EXCEPT ![n] = {id \in @ : id[1] # x}]
      /\ results' = results \/ results' = [results EXCEPT ![run[x].req] = outcome]
  BY DEF EndRun
<1> HIDE DEF n
<1>4. /\ run' \in [Runners -> RunType] /\ pending' \in [Nodes -> SUBSET Ids]
      /\ results' \in [Requests -> {"none", "ok", "error"}]
  BY <1>1, <1>2, <1>3
<1>5. /\ \A y \in Runners : run'[y] = IF y = x THEN Idle ELSE run[y]
      /\ \A m \in Nodes : \A id \in pending'[m] : id \in pending[m] /\ (m = n => id[1] # x)
  BY <1>2, <1>3
<1>6. \A y \in Runners : run'[y].st # "idle" => run'[y].req \in Requests /\ run'[y].node \in Nodes
  BY <1>1, <1>5 DEF KInv, Runs
<1>7. run'[Handler].st # "lookup" /\ (run'[Handler].st # "idle" => handler'.phase = "recover")
  BY <1>1, <1>2, <1>5 DEF KInv, Runs
<1>8. ASSUME NEW m \in Nodes, NEW id \in pending'[m], id[1] = Handler
      PROVE  run'[Handler].st # "idle" /\ run'[Handler].node = m
  <2>1. run[Handler].st # "idle" /\ run[Handler].node = m
    BY <1>5, <1>8 DEF KInv, Runs
  <2>2. x # Handler
    BY <1>5, <1>8, <2>1 DEF n
  <2>3. QED
    BY <1>2, <1>5, <2>1, <2>2
<1>9. QED
  BY <1>4, <1>6, <1>7, <1>8 DEF Runs

\* A runner goes on to its next step.
LEMMA GoesOn ==
  ASSUME KInv, NEW x \in Runners, run[x].st \in {"engine", "save"}, UNCHANGED <<pending, handler>>,
         NEW st \in {"save", "save again"}, run' = [run EXCEPT ![x].st = st]
  PROVE  run' \in [Runners -> RunType] /\ pending' \in [Nodes -> SUBSET Ids] /\ Runs'
<1> DEFINE q == [run[x] EXCEPT !.st = st]
<1>1. run[x] \in RunType /\ Handler \in Runners
  BY RunnerFacts DEF Runners
<1>2. q \in RunType /\ q.st = st /\ q.req = run[x].req /\ q.node = run[x].node
  BY <1>1 DEF RunType
<1>3. run' = [run EXCEPT ![x] = q]
  BY DEF KInv, Typed
<1> HIDE DEF q
<1>4. run' \in [Runners -> RunType] /\ \A y \in Runners : run'[y] = IF y = x THEN q ELSE run[y]
  BY <1>2, <1>3 DEF KInv, Typed
<1>5. run[x].req \in Requests /\ run[x].node \in Nodes
  BY RunnerFacts
<1>6. \A y \in Runners : run'[y].st # "idle" => run'[y].req \in Requests /\ run'[y].node \in Nodes
  BY <1>2, <1>4, <1>5 DEF KInv, Runs
<1>7. /\ run'[Handler].st # "lookup" /\ (run'[Handler].st # "idle" => handler'.phase = "recover")
      /\ \A n \in Nodes : \A id \in pending'[n] :
           id[1] = Handler => run'[Handler].st # "idle" /\ run'[Handler].node = n
  BY <1>1, <1>2, <1>4 DEF KInv, Runs
<1>8. QED
  BY <1>4, <1>6, <1>7 DEF KInv, Typed, Runs

\* A request that arrives is refused when nobody is there, or gets a node.
LEMMA Arrives ==
  ASSUME KInv, NEW r \in Requests, HandleRequest(r)
  PROVE  KInv'
<1>1. /\ UNCHANGED <<config, fleet, catalog, pending, handler, members, stray>>
      /\ run[r] = Idle /\ r \in Runners /\ Handler \in Runners /\ r # Handler
  BY NamesAssumption DEF HandleRequest, Runners
<1>2. CASE UNCHANGED run /\ results' = [results EXCEPT ![r] = "error"]
  <2>1. results' \in [Requests -> {"none", "ok", "error"}]
    BY <1>2 DEF KInv, Typed
  <2>2. Runs'
    BY <1>1, <1>2 DEF KInv, Runs
  <2>3. QED
    BY <1>1, <1>2, <2>1, <2>2, TasksMove DEF KInv, Typed
<1>3. ASSUME NEW n \in up, UNCHANGED results,
             run' = [run EXCEPT ![r] = [Idle EXCEPT !.st = "lookup", !.req = r, !.node = n]]
      PROVE  KInv'
  <2> DEFINE q == [st |-> "lookup", req |-> r, node |-> n, tries |-> 0]
  <2>1. n \in Nodes
    BY DEF KInv, Typed
  <2>2. q \in RunType /\ q.st = "lookup" /\ q.req = r /\ q.node = n
    BY <2>1, RetriesAssumption DEF RunType
  <2>3. [Idle EXCEPT !.st = "lookup", !.req = r, !.node = n] = q
    <3> DEFINE e1 == [Idle EXCEPT !.st = "lookup"]
    <3>1. e1 = [st |-> "lookup", req |-> None, node |-> None, tries |-> 0]
      BY DEF Idle
    <3> HIDE DEF e1
    <3> DEFINE e2 == [e1 EXCEPT !.req = r]
    <3>2. e2 = [st |-> "lookup", req |-> r, node |-> None, tries |-> 0]
      BY <3>1
    <3> HIDE DEF e2
    <3>3. [e2 EXCEPT !.node = n] = q
      BY <3>2
    <3>4. QED
      BY <3>3 DEF e1, e2
  <2>4. run' = [run EXCEPT ![r] = q]
    BY <1>3, <2>3
  <2> HIDE DEF q
  <2>5. run' \in [Runners -> RunType] /\ \A y \in Runners : run'[y] = IF y = r THEN q ELSE run[y]
    BY <1>1, <2>2, <2>4 DEF KInv, Typed
  <2>6. Runs'
    BY <1>1, <2>1, <2>2, <2>5 DEF KInv, Runs
  <2>7. QED
    BY <1>1, <1>3, <2>5, <2>6, TasksMove DEF KInv, Typed
<1>4. QED
  BY <1>2, <1>3 DEF HandleRequest

\* A task is placed, fails, is retried or is answered.
LEMMA TaskSound ==
  ASSUME KInv, NEW x \in Runners, Place(x) \/ EngineFails(x) \/ EngineAnswers(x)
  PROVE  KInv'
<1>1. /\ run[x].st # "idle" /\ UNCHANGED <<config, fleet, catalog, handler, members, stray>>
      /\ results \in [Requests -> {"none", "ok", "error"}]
  BY DEF Place, EngineFails, EngineAnswers, KInv, Typed
<1>2. run[x].req \in Requests /\ run[x].node \in Nodes /\ run[x].tries \in 0..MaxRetries
      /\ (x = Handler => handler'.phase = "recover") /\ handler'.phase = handler.phase
  BY <1>1, RunnerFacts
<1>3. CASE Place(x)
  <2>1. x # Handler /\ x \in Requests
    BY <1>3 DEF Place, KInv, Runs, Runners
  <2>2. StartRun(x, x, run[x].node, 0) /\ 0 \in 0..MaxRetries /\ UNCHANGED results
    BY <1>3, RetriesAssumption DEF Place
  <2>3. run' \in [Runners -> RunType] /\ pending' \in [Nodes -> SUBSET Ids] /\ Runs'
    BY <1>2, <2>1, <2>2, Started
  <2>4. QED
    BY <1>1, <2>2, <2>3, TasksMove
<1>4. CASE EngineFails(x) /\ run[x].tries < MaxRetries
  <2> DEFINE k == run[x].tries + 1
  <2>1. k \in 0..MaxRetries
    BY <1>2, <1>4, RetriesAssumption
  <2>2. StartRun(x, run[x].req, run[x].node, k) /\ UNCHANGED results
    BY <1>2, <1>4 DEF EngineFails
  <2> HIDE DEF k
  <2>3. run' \in [Runners -> RunType] /\ pending' \in [Nodes -> SUBSET Ids] /\ Runs'
    BY <1>2, <2>1, <2>2, Started
  <2>4. QED
    BY <1>1, <2>2, <2>3, TasksMove
<1>5. CASE EngineFails(x) /\ ~(run[x].tries < MaxRetries)
  <2>1. EndRun(x, "error")
    BY <1>5 DEF EngineFails
  <2>2. QED
    BY <1>1, <2>1, Ended, TasksMove
<1>6. CASE EngineAnswers(x)
  <2>1. UNCHANGED <<pending, results, handler>> /\ run[x].st = "engine"
        /\ run' = [run EXCEPT ![x].st = "save"]
    BY <1>6 DEF EngineAnswers
  <2>2. QED
    BY <1>1, <2>1, GoesOn, TasksMove
<1>7. QED
  BY <1>3, <1>4, <1>5, <1>6

\* A block is saved, perhaps on a node that is gone.
LEMMA SaveSound ==
  ASSUME KInv, NEW x \in Runners, SaveBlock(x)
  PROVE  KInv'
<1> DEFINE b == run[x].req
           n == run[x].node
<1>1. /\ run[x].st \in {"save", "save again"} /\ UNCHANGED <<config, fleet, handler, members>>
      /\ b \in Requests /\ n \in Nodes /\ catalog' = Saved(b, n) /\ b \in Blocks /\ n \in Places
  BY RunnerFacts DEF SaveBlock, Blocks, Places
<1>2. /\ stray \subseteq stray' /\ (n \notin up \cup Departures => <<b, n>> \in stray')
  BY DEF SaveBlock
<1>3. /\ run' \in [Runners -> RunType] /\ pending' \in [Nodes -> SUBSET Ids] /\ Runs'
      /\ results' \in [Requests -> {"none", "ok", "error"}]
  <2>1. CASE run[x].st = "save"
    <3>1. run' = [run EXCEPT ![x].st = "save again"] /\ UNCHANGED <<pending, results>>
      BY <2>1 DEF SaveBlock
    <3>2. QED
      <4>1. UNCHANGED <<pending, handler>> /\ run[x].st \in {"engine", "save"}
        BY <1>1, <2>1, <3>1
      <4>2. run' \in [Runners -> RunType] /\ pending' \in [Nodes -> SUBSET Ids] /\ Runs'
        BY <3>1, <4>1, GoesOn
      <4>3. QED
        BY <3>1, <4>2 DEF KInv, Typed
  <2>2. CASE run[x].st # "save"
    <3>1. EndRun(x, "ok")
      BY <2>2 DEF SaveBlock
    <3>2. QED
      BY <1>1, <3>1, Ended
  <2>3. QED
    BY <2>1, <2>2
<1> HIDE DEF b, n
<1>4. /\ catalog' \in [Blocks -> SUBSET Places]
      /\ \A c \in Blocks : catalog'[c] = IF c = b THEN catalog[c] \cup {n} ELSE catalog[c]
  BY <1>1 DEF KInv, Typed, Saved
<1>5. Typed'
  BY <1>1, <1>3, <1>4 DEF KInv, Typed, fleet
<1>6. Handling(handler)'
  <2>1. Reachable' = Reachable
    BY <1>1 DEF Reachable, Departures, fleet
  <2>2. QED
    BY <1>1, <1>4, <2>1, HandlingStays
<1>7. StrandedIsPending'
  <2> SUFFICES ASSUME NEW m \in Nodes \ up, NEW c \in Blocks, m \in catalog'[c]
               PROVE  m \in Departures \/ Clearing(c, m) \/ <<c, m>> \in stray'
    BY <1>1 DEF StrandedIsPending, HeldAt, Clearing, Departures, fleet
  <2>1. CASE m \in catalog[c]
    <3>1. m \in Departures \/ Clearing(c, m) \/ <<c, m>> \in stray
      BY <2>1 DEF KInv, StrandedIsPending, HeldAt
    <3>2. QED
      BY <1>2, <3>1
  <2>2. CASE m \notin catalog[c]
    BY <1>2, <1>4, <2>2
  <2>3. QED
    BY <2>1, <2>2
<1>8. QED
  BY <1>3, <1>5, <1>6, <1>7 DEF KInv

-----------------------------------------------------------------------------
(* The handler *)

\* What the handler's record holds.
LEMMA WorkFields ==
  ASSUME NEW phase, NEW node, NEW listed, NEW todo, NEW moves, NEW drops, NEW given, NEW plan,
         NEW owner
  PROVE  LET h == Work(phase, node, listed, todo, moves, drops, given, plan, owner) IN
         /\ Formed(h) /\ h.phase = phase /\ h.node = node /\ h.listed = listed /\ h.todo = todo
         /\ h.moves = moves /\ h.drops = drops /\ h.given = given /\ h.plan = plan
         /\ h.owner = owner
  BY DEF Formed, Work

\* A step of the handler that runs no task.
LEMMA HandlerOnly ==
  ASSUME KInv, UNCHANGED <<config, up, tasks>>, catalog' \in [Blocks -> SUBSET Places],
         queue' \in Seq(Events), members' \subseteq Nodes, run[Handler].st = "idle",
         Handling(handler)', StrandedIsPending'
  PROVE  KInv'
<1>1. Typed'
  BY DEF KInv, Typed, tasks
<1>2. Runs'
  BY DEF KInv, Runs, tasks
<1>3. QED
  BY <1>1, <1>2 DEF KInv

\* Outside of a recovery the handler runs no task.
LEMMA NotRunning ==
  ASSUME KInv, handler.phase # "recover" \/ run[Handler] = Idle
  PROVE  run[Handler].st = "idle"
  BY DEF KInv, Runs, Idle

\* The handler's record with nothing in hand.
LEMMA NoWorkIs ==
  NoWork = Work("idle", None, {}, {}, NoWork.moves, {}, {}, {}, NoWork.owner)
  BY DEF NoWork, Work

\* A handler that has nothing in hand, or goes on to the next plan.
LEMMA Free ==
  ASSUME handler' \in {NoWork, [NoWork EXCEPT !.phase = "prepare"]}
  PROVE  Handling(handler)' /\ handler'.phase \in {"idle", "prepare"}
<1>1. NoWork = Work("idle", None, {}, {}, NoWork.moves, {}, {}, {}, NoWork.owner)
  BY NoWorkIs
<1>2. [NoWork EXCEPT !.phase = "prepare"] =
        Work("prepare", None, {}, {}, NoWork.moves, {}, {}, {}, NoWork.owner)
  BY <1>1 DEF Work
<1>3. PICK p \in {"idle", "prepare"} :
        handler' = Work(p, None, {}, {}, NoWork.moves, {}, {}, {}, NoWork.owner)
  BY <1>1, <1>2
<1>4. /\ Formed(handler') /\ handler'.phase = p /\ handler'.listed = {} /\ handler'.drops = {}
      /\ handler'.plan = {}
  BY <1>3, WorkFields
<1>5. QED
  BY <1>4 DEF Handling, Phases, Formed

\* The tasks listed for recovery are those of requests.
LEMMA TaskIds ==
  ASSUME KInv, run[Handler].st = "idle", NEW n \in Nodes
  PROVE  pending[n] \subseteq Requests \X (0..MaxRetries)
<1> SUFFICES ASSUME NEW id \in pending[n] PROVE id \in Requests \X (0..MaxRetries)
  OBVIOUS
<1>1. id \in Ids /\ id[1] # Handler
  BY DEF KInv, Typed, Runs
<1>2. QED
  BY <1>1 DEF Ids, Runners

\* A departure is taken from the queue: what the node holds is listed.
LEMMA TakeDepartureSound == ASSUME KInv, TakeDeparture PROVE KInv'
<1> DEFINE n == Head(queue).node
<1>1. /\ handler.phase = "idle" /\ queue # <<>> /\ Head(queue).kind = "left" /\ queue' = Tail(queue)
      /\ UNCHANGED <<config, up, catalog, tasks, members, stray>> /\ queue \in Seq(Events)
  BY DEF TakeDeparture, Takes, KInv, Typed
<1>2. /\ queue' \in Seq(Events) /\ n \in Nodes /\ Departures \subseteq Departures' \cup {n}
  BY <1>1, Dequeued DEF Events
<1>3. run[Handler].st = "idle"
  BY <1>1, NotRunning
<1>4. pending[n] \subseteq Requests \X (0..MaxRetries)
  BY <1>2, <1>3, TaskIds
<1> DEFINE L == HeldAt(n)
           T == pending[n]
<1>5. handler' = [NoWork EXCEPT !.phase = "recover", !.node = n, !.listed = L, !.todo = T]
  BY DEF TakeDeparture
<1> HIDE DEF n, L, T
<1>6. handler' = Work("recover", n, L, T, NoWork.moves, {}, {}, {}, NoWork.owner)
  <2> DEFINE e1 == [NoWork EXCEPT !.phase = "recover"]
  <2>1. e1 = Work("recover", None, {}, {}, NoWork.moves, {}, {}, {}, NoWork.owner)
    BY NoWorkIs DEF Work
  <2> HIDE DEF e1
  <2> DEFINE e2 == [e1 EXCEPT !.node = n]
  <2>2. e2 = Work("recover", n, {}, {}, NoWork.moves, {}, {}, {}, NoWork.owner)
    BY <2>1 DEF Work
  <2> HIDE DEF e2
  <2> DEFINE e3 == [e2 EXCEPT !.listed = L]
  <2>3. e3 = Work("recover", n, L, {}, NoWork.moves, {}, {}, {}, NoWork.owner)
    BY <2>2 DEF Work
  <2> HIDE DEF e3
  <2>4. [e3 EXCEPT !.todo = T] = Work("recover", n, L, T, NoWork.moves, {}, {}, {}, NoWork.owner)
    BY <2>3 DEF Work
  <2>5. QED
    BY <1>5, <2>4 DEF e1, e2, e3
<1>7. /\ Formed(handler') /\ handler'.phase = "recover" /\ handler'.node = n /\ handler'.listed = L
      /\ handler'.todo = T /\ handler'.drops = {} /\ handler'.plan = {}
  BY <1>6, WorkFields
<1>8. L \subseteq Blocks /\ \A b \in L : n \in catalog[b]
  BY DEF L, HeldAt
<1>9. Handling(handler)'
  BY <1>1, <1>2, <1>4, <1>7, <1>8 DEF Handling, Phases, Formed, T
<1>10. StrandedIsPending'
  <2> SUFFICES ASSUME NEW m \in Nodes \ up, NEW b \in HeldAt(m)
               PROVE  m \in Departures' \/ Clearing(b, m)' \/ <<b, m>> \in stray
    BY <1>1 DEF StrandedIsPending, HeldAt
  <2>1. CASE m = n
    BY <1>7, <2>1 DEF Clearing, L
  <2>2. CASE m # n
    <3>1. m \in Departures \/ <<b, m>> \in stray
      BY <1>1 DEF KInv, StrandedIsPending, Clearing
    <3>2. QED
      BY <1>2, <2>2, <3>1
  <2>3. QED
    BY <2>1, <2>2
<1>11. QED
  BY <1>1, <1>2, <1>3, <1>9, <1>10, HandlerOnly DEF KInv, Typed

\* Events that change nothing but the queue, or lead to a new plan.
LEMMA OtherEventsSound == ASSUME KInv, IgnoreDeparture \/ TakeJoin PROVE KInv'
<1> DEFINE n == Head(queue).node
<1>1. /\ handler.phase = "idle" /\ queue # <<>> /\ queue' = Tail(queue)
      /\ UNCHANGED <<config, up, catalog, tasks, members>> /\ queue \in Seq(Events)
      /\ stray \subseteq stray'
      /\ handler' \in {handler, [NoWork EXCEPT !.phase = "prepare"]}
  BY DEF IgnoreDeparture, TakeJoin, Takes, KInv, Typed
<1>2. /\ queue' \in Seq(Events) /\ Departures \subseteq Departures' \cup {n}
      /\ Head(queue).kind # "left" => Departures \subseteq Departures'
  BY <1>1, Dequeued
<1>3. run[Handler].st = "idle"
  BY <1>1, NotRunning
<1>4. Handling(handler)'
  <2>1. CASE handler' = handler
    BY <1>1, <2>1 DEF KInv, Handling, Formed, Work
  <2>2. CASE handler' # handler
    BY <1>1, <2>2, Free
  <2>3. QED
    BY <2>1, <2>2
<1>5. StrandedIsPending'
  <2> SUFFICES ASSUME NEW m \in Nodes \ up, NEW b \in HeldAt(m)
               PROVE  m \in Departures' \/ <<b, m>> \in stray'
    BY <1>1 DEF StrandedIsPending, HeldAt
  <2>1. m \in Departures \/ <<b, m>> \in stray
    BY <1>1 DEF KInv, StrandedIsPending, Clearing
  <2>2. CASE m = n /\ IgnoreDeparture
    BY <2>2 DEF IgnoreDeparture
  <2>3. CASE TakeJoin
    <3>1. Head(queue).kind # "left"
      BY <2>3 DEF TakeJoin, Takes
    <3>2. QED
      BY <1>1, <1>2, <2>1, <3>1
  <2>4. CASE m # n
    BY <1>1, <1>2, <2>1, <2>4
  <2>5. QED
    BY <2>2, <2>3, <2>4
<1>6. QED
  BY <1>1, <1>2, <1>3, <1>4, <1>5, HandlerOnly DEF KInv, Typed

-----------------------------------------------------------------------------
(* Recovery and migration *)

\* A task that was pending at the departure is recovered, or has used its retries.
LEMMA RecoverTaskSound ==
  ASSUME KInv, NEW id \in Ids, RecoverTask(id)
  PROVE  KInv'
<1>1. /\ handler.phase = "recover" /\ id \in handler.todo /\ run[Handler] = Idle
      /\ UNCHANGED <<config, fleet, catalog, results, members, stray>>
      /\ handler' = [handler EXCEPT !.todo = @ \ {id}]
  BY DEF RecoverTask
<1>2. /\ Formed(handler) /\ handler.node \in Nodes /\ handler.listed \subseteq Blocks
      /\ handler.drops \subseteq Blocks /\ handler.plan \subseteq Nodes
      /\ handler.todo \subseteq Requests \X (0..MaxRetries)
      /\ \A b \in handler.listed : handler.node \in catalog[b]
  BY <1>1 DEF KInv, Handling
<1>3. /\ Formed(handler') /\ handler'.phase = "recover" /\ handler'.node = handler.node
      /\ handler'.listed = handler.listed /\ handler'.drops = handler.drops
      /\ handler'.plan = handler.plan /\ handler'.todo \subseteq handler.todo
  BY <1>1, <1>2 DEF Formed, Work
<1>4. Handling(handler)'
  BY <1>1, <1>2, <1>3 DEF Handling, Phases, Formed
<1>5. StrandedIsPending'
  BY <1>1, <1>3 DEF KInv, StrandedIsPending, HeldAt, Clearing, Departures, fleet
<1>6. run' \in [Runners -> RunType] /\ pending' \in [Nodes -> SUBSET Ids] /\ Runs'
  <2>1. id[1] \in Requests /\ id[2] \in 0..MaxRetries /\ Handler \in Runners
        /\ run[Handler].st = "idle"
    BY <1>1, <1>2, NotRunning DEF Runners
  <2>2. CASE id[2] < MaxRetries
    <3> DEFINE r == id[1]
               k == id[2] + 1
    <3>1. k \in 0..MaxRetries /\ StartRun(Handler, r, handler.node, k)
      BY <1>1, <2>1, <2>2, RetriesAssumption DEF RecoverTask
    <3> HIDE DEF k, r
    <3>2. QED
      BY <1>1, <1>2, <1>3, <2>1, <3>1, Started DEF r
  <2>3. CASE ~(id[2] < MaxRetries)
    <3>1. UNCHANGED <<run, pending>>
      BY <2>3 DEF RecoverTask
    <3>2. QED
      BY <1>3, <3>1 DEF KInv, Typed, Runs
  <2>4. QED
    BY <2>2, <2>3
<1>7. Typed'
  BY <1>1, <1>6 DEF KInv, Typed, fleet
<1>8. QED
  BY <1>4, <1>5, <1>6, <1>7 DEF KInv

\* The migration plan covers what was listed.
LEMMA DecideSound == ASSUME KInv, DecideDefault \/ DecidePriority PROVE KInv'
<1>1. /\ handler.phase = "recover" /\ run[Handler] = Idle
      /\ UNCHANGED <<config, fleet, catalog, tasks, members, stray>>
  BY DEF DecideDefault, DecidePriority, Recovered
<1>2. /\ Formed(handler) /\ handler.node \in Nodes /\ handler.listed \subseteq Blocks
      /\ handler.plan \subseteq Nodes
      /\ \A b \in handler.listed : handler.node \in catalog[b]
  BY <1>1 DEF KInv, Handling
<1>3. PICK moves, drops :
        /\ MigrationDecided(moves, drops)
        /\ DOMAIN moves \subseteq handler.listed /\ drops = handler.listed \ DOMAIN moves
        /\ \A b \in DOMAIN moves :
             /\ moves[b] \in Places \ {handler.node}
             /\ config.migration = "priority" => moves[b] \in Reachable
        /\ config.migration = "default" => drops = {}
  <2>1. CASE DecideDefault
    <3> DEFINE used == (UNION {catalog[b] : b \in Blocks}) \ {handler.node}
               targets == IF used = {} THEN {Cloud} ELSE used
    <3>1. PICK moves \in [handler.listed -> targets] : MigrationDecided(moves, {})
      BY <2>1 DEF DecideDefault
    <3>2. targets \subseteq Places \ {handler.node}
      <4>0. \A b \in Blocks : catalog[b] \subseteq Places
        BY DEF KInv, Typed
      <4>1. ASSUME NEW p \in used PROVE p \in Places \ {handler.node}
        <5>1. p \in UNION {catalog[b] : b \in Blocks} /\ p # handler.node
          BY <4>1
        <5>2. PICK b \in Blocks : p \in catalog[b]
          BY <5>1
        <5>3. QED
          BY <4>0, <5>1, <5>2
      <4>2. Cloud \in Places \ {handler.node}
        BY <1>2, NamesAssumption DEF Places
      <4>3. QED
        BY <4>1, <4>2
    <3> HIDE DEF targets
    <3>3. config.migration = "default"
      BY <2>1 DEF DecideDefault
    <3>4. QED
      BY <3>1, <3>2, <3>3
  <2>2. CASE DecidePriority
    <3>1. PICK kept \in SUBSET Loadable :
            \E moves \in [kept -> Targets] : MigrationDecided(moves, handler.listed \ kept)
      BY <2>2 DEF DecidePriority
    <3>2. PICK moves \in [kept -> Targets] : MigrationDecided(moves, handler.listed \ kept)
      BY <3>1
    <3>3. kept \subseteq handler.listed /\ Targets \subseteq (Places \ {handler.node}) \cap Reachable
      BY <3>1 DEF Loadable, Targets, Places, Reachable, KInv, Typed
    <3>4. config.migration = "priority"
      BY <2>2 DEF DecidePriority
    <3>5. QED
      BY <3>1, <3>2, <3>3, <3>4
  <2>3. QED
    BY <2>1, <2>2
<1>4. handler' = Work("move", handler.node, handler.listed, handler.todo, moves, drops, drops,
                      handler.plan, handler.owner)
  <2> DEFINE e1 == [handler EXCEPT !.phase = "move"]
  <2>1. e1 = Work("move", handler.node, handler.listed, handler.todo, handler.moves,
                  handler.drops, handler.given, handler.plan, handler.owner)
    BY <1>2 DEF Formed, Work
  <2> HIDE DEF e1
  <2> DEFINE e2 == [e1 EXCEPT !.moves = moves]
  <2>2. e2 = Work("move", handler.node, handler.listed, handler.todo, moves,
                  handler.drops, handler.given, handler.plan, handler.owner)
    BY <2>1 DEF Work
  <2> HIDE DEF e2
  <2> DEFINE e3 == [e2 EXCEPT !.drops = drops]
  <2>3. e3 = Work("move", handler.node, handler.listed, handler.todo, moves,
                  drops, handler.given, handler.plan, handler.owner)
    BY <2>2 DEF Work
  <2> HIDE DEF e3
  <2>4. [e3 EXCEPT !.given = drops] =
          Work("move", handler.node, handler.listed, handler.todo, moves, drops, drops,
               handler.plan, handler.owner)
    BY <2>3 DEF Work
  <2>5. handler' = [e3 EXCEPT !.given = drops]
    BY <1>3 DEF MigrationDecided, e1, e2, e3
  <2>6. QED
    BY <2>4, <2>5
<1>5. /\ Formed(handler') /\ handler'.phase = "move" /\ handler'.node = handler.node
      /\ handler'.listed = handler.listed /\ handler'.moves = moves /\ handler'.drops = drops
      /\ handler'.given = drops /\ handler'.plan = handler.plan
  BY <1>4, WorkFields
<1>6. Reachable' = Reachable
  BY <1>1 DEF Reachable, Departures, fleet
<1>7. Handling(handler)'
  BY <1>1, <1>2, <1>3, <1>5, <1>6 DEF Handling, Phases, Formed
<1>8. StrandedIsPending'
  <2> SUFFICES ASSUME NEW m \in Nodes \ up, NEW b \in HeldAt(m)
               PROVE  m \in Departures \/ Clearing(b, m)' \/ <<b, m>> \in stray
    BY <1>1 DEF StrandedIsPending, HeldAt, Departures, fleet
  <2>1. m \in Departures \/ Clearing(b, m) \/ <<b, m>> \in stray
    BY DEF KInv, StrandedIsPending
  <2>2. Clearing(b, m) => Clearing(b, m)'
    BY <1>1, <1>3, <1>5 DEF Clearing
  <2>3. QED
    BY <2>1, <2>2
<1>9. run[Handler].st = "idle"
  BY <1>1, NotRunning
<1>10. QED
  BY <1>1, <1>7, <1>8, <1>9, HandlerOnly DEF KInv, Typed, fleet

\* A block is moved: its source is still listed, so the move never fails.
LEMMA MoveSound == ASSUME KInv, NEW b \in Blocks, Move(b) PROVE KInv'
<1> DEFINE n == handler.node
           dst == handler.moves[b]
           rest == [c \in DOMAIN handler.moves \ {b} |-> handler.moves[c]]
<1>1. /\ handler.phase = "move" /\ b \in DOMAIN handler.moves
      /\ UNCHANGED <<config, fleet, tasks, members>>
  BY DEF Move
<1>2. /\ Formed(handler) /\ n \in Nodes /\ handler.listed \subseteq Blocks
      /\ handler.drops \subseteq Blocks /\ handler.plan \subseteq Nodes
      /\ DOMAIN handler.moves \subseteq Blocks
      /\ \A c \in DOMAIN handler.moves :
           /\ n \in catalog[c] /\ handler.moves[c] \in Places \ {n}
           /\ config.migration = "priority" => handler.moves[c] \in Reachable
      /\ handler.drops \subseteq handler.given
      /\ config.migration = "default" => handler.given = {}
  BY <1>1 DEF KInv, Handling
<1>3. n \in catalog[b] /\ dst \in Places \ {n}
      /\ (config.migration = "priority" => dst \in Reachable)
  BY <1>1, <1>2
<1>4. /\ catalog' = Moved(b, n, dst) /\ handler' = [handler EXCEPT !.moves = rest]
      /\ stray \subseteq stray'
      /\ config.migration = "default" /\ dst \notin up \cup Departures \cup {Cloud}
           => <<b, dst>> \in stray'
  BY <1>3 DEF Move
<1>5. /\ DOMAIN rest = DOMAIN handler.moves \ {b}
      /\ \A c \in DOMAIN rest : rest[c] = handler.moves[c]
  OBVIOUS
<1> HIDE DEF rest, dst
<1>6. /\ Formed(handler') /\ handler'.phase = "move" /\ handler'.node = n
      /\ handler'.listed = handler.listed /\ handler'.moves = rest
      /\ handler'.drops = handler.drops /\ handler'.given = handler.given
      /\ handler'.plan = handler.plan
  BY <1>1, <1>2, <1>4 DEF Formed, Work
<1>7. /\ catalog' \in [Blocks -> SUBSET Places]
      /\ \A c \in Blocks : catalog'[c] = IF c = b THEN (catalog[b] \ {n}) \cup {dst} ELSE catalog[c]
  BY <1>3, <1>4 DEF Moved, KInv, Typed
<1>8. Reachable' = Reachable
  BY <1>1 DEF Reachable, Departures, fleet
<1>9. Handling(handler)'
  <2>1. \A c \in DOMAIN rest :
          /\ n \in catalog'[c] /\ rest[c] \in Places \ {n}
          /\ config.migration = "priority" => rest[c] \in Reachable'
    BY <1>2, <1>5, <1>7, <1>8
  <2>2. DOMAIN rest \subseteq Blocks
    BY <1>2, <1>5
  <2>3. QED
    BY <1>1, <1>2, <1>6, <2>1, <2>2 DEF Handling, Phases, Formed
<1>10. StrandedIsPending'
  <2> SUFFICES ASSUME NEW m \in Nodes \ up, NEW c \in Blocks, m \in catalog'[c]
               PROVE  m \in Departures \/ Clearing(c, m)' \/ <<c, m>> \in stray'
    BY <1>1 DEF StrandedIsPending, HeldAt, Departures, fleet
  <2>1. CASE m \in catalog[c]
    <3>1. m \in Departures \/ Clearing(c, m) \/ <<c, m>> \in stray
      BY <2>1 DEF KInv, StrandedIsPending, HeldAt
    <3>2. c = b => m # n
      BY <1>3, <1>7
    <3>3. Clearing(c, m) => Clearing(c, m)'
      BY <1>1, <1>5, <1>6, <3>2 DEF Clearing
    <3>4. QED
      BY <1>4, <3>1, <3>3
  <2>2. CASE m \notin catalog[c]
    <3>1. c = b /\ m = dst
      BY <1>7, <2>2
    <3>2. m # Cloud
      BY NamesAssumption
    <3>3. config.migration \in {"default", "priority"}
      BY DEF KInv, Typed
    <3>4. QED
      BY <1>3, <1>4, <3>1, <3>2, <3>3 DEF Reachable
  <2>3. QED
    BY <2>1, <2>2
<1>11. run[Handler].st = "idle"
  BY <1>1, NotRunning
<1>12. QED
  BY <1>1, <1>7, <1>9, <1>10, <1>11, HandlerOnly DEF KInv, Typed, fleet

\* A block that the plan gave up is evicted everywhere.
LEMMA DropSound == ASSUME KInv, NEW b \in Blocks, Drop(b) PROVE KInv'
<1>1. /\ handler.phase = "move" /\ DOMAIN handler.moves = {} /\ b \in handler.drops
      /\ catalog' = Evicted(b) /\ handler' = [handler EXCEPT !.drops = @ \ {b}]
      /\ UNCHANGED <<config, fleet, tasks, members, stray>>
  BY DEF Drop
<1>2. /\ Formed(handler) /\ handler.node \in Nodes /\ handler.listed \subseteq Blocks
      /\ handler.drops \subseteq Blocks /\ handler.plan \subseteq Nodes
      /\ handler.drops \subseteq handler.given
      /\ config.migration = "default" => handler.given = {}
  BY <1>1 DEF KInv, Handling
<1>3. /\ Formed(handler') /\ handler'.phase = "move" /\ handler'.node = handler.node
      /\ handler'.listed = handler.listed /\ handler'.moves = handler.moves
      /\ handler'.drops = handler.drops \ {b} /\ handler'.given = handler.given
      /\ handler'.plan = handler.plan
  BY <1>1, <1>2 DEF Formed, Work
<1>4. /\ catalog' \in [Blocks -> SUBSET Places]
      /\ \A c \in Blocks : catalog'[c] = IF c = b THEN {} ELSE catalog[c]
  BY <1>1 DEF Evicted, KInv, Typed
<1>5. Handling(handler)'
  BY <1>1, <1>2, <1>3 DEF Handling, Phases, Formed
<1>6. StrandedIsPending'
  <2> SUFFICES ASSUME NEW m \in Nodes \ up, NEW c \in Blocks, m \in catalog'[c]
               PROVE  m \in Departures \/ Clearing(c, m)' \/ <<c, m>> \in stray
    BY <1>1 DEF StrandedIsPending, HeldAt, Departures, fleet
  <2>1. c # b /\ m \in catalog[c]
    BY <1>4
  <2>2. m \in Departures \/ Clearing(c, m) \/ <<c, m>> \in stray
    BY <2>1 DEF KInv, StrandedIsPending, HeldAt
  <2>3. Clearing(c, m) => Clearing(c, m)'
    BY <1>1, <1>3, <2>1 DEF Clearing
  <2>4. QED
    BY <2>2, <2>3
<1>7. run[Handler].st = "idle"
  BY <1>1, NotRunning
<1>8. QED
  BY <1>1, <1>4, <1>5, <1>6, <1>7, HandlerOnly DEF KInv, Typed, fleet

-----------------------------------------------------------------------------
(* The next plan *)

\* A handler with nothing left to clear lets go: nothing stranded depended on it.
LEMMA LetsGo ==
  ASSUME KInv, UNCHANGED <<config, fleet, catalog, tasks, stray>>, members' \subseteq Nodes,
         handler' \in {NoWork, [NoWork EXCEPT !.phase = "prepare"]}, run[Handler].st = "idle",
         \A b \in Blocks, n \in Nodes : ~Clearing(b, n)
  PROVE  KInv'
<1>1. Handling(handler)'
  BY Free
<1>2. StrandedIsPending'
  BY DEF KInv, StrandedIsPending, HeldAt, Departures, fleet
<1>3. QED
  BY <1>1, <1>2, HandlerOnly DEF KInv, Typed, fleet

\* The migration ends, no plan can be made, or the plan comes into force.
LEMMA LetsGoSound == ASSUME KInv, EndMigration \/ PrepareFails \/ Commit PROVE KInv'
<1>1. /\ UNCHANGED <<config, fleet, catalog, tasks, stray>>
      /\ handler' \in {NoWork, [NoWork EXCEPT !.phase = "prepare"]}
      /\ handler.phase \in {"move", "prepare", "copy"}
  BY DEF EndMigration, PrepareFails, Commit
<1>2. members' \subseteq Nodes
  BY DEF EndMigration, PrepareFails, Commit, KInv, Typed, Handling
<1>3. \A b \in Blocks, n \in Nodes : ~Clearing(b, n)
  BY DEF EndMigration, PrepareFails, Commit, Clearing
<1>4. run[Handler].st = "idle"
  BY <1>1, NotRunning
<1>5. QED
  BY <1>1, <1>2, <1>3, <1>4, LetsGo

\* A plan is made for nodes alive, and all the blocks listed are to be copied.
LEMMA PrepareSound == ASSUME KInv, Prepare PROVE KInv'
<1>1. /\ handler.phase = "prepare" /\ UNCHANGED <<config, fleet, catalog, tasks, members, stray>>
  BY DEF Prepare
<1>2. PICK plan \in (SUBSET up) \ {{}} : \E owner \in [Blocks -> plan \cup {None}] :
        handler' = [handler EXCEPT !.phase = "copy", !.plan = plan, !.owner = owner,
                                   !.listed = Listed, !.todo = Listed]
  BY DEF Prepare
<1>3. PICK owner \in [Blocks -> plan \cup {None}] :
        handler' = [handler EXCEPT !.phase = "copy", !.plan = plan, !.owner = owner,
                                   !.listed = Listed, !.todo = Listed]
  BY <1>2
<1>4. Formed(handler) /\ handler.drops \subseteq Blocks
  BY DEF KInv, Handling
<1> DEFINE L == Listed
<1>5. L \subseteq Blocks /\ \A b \in L : catalog[b] # {}
  BY DEF Listed
<1>6. handler' = [handler EXCEPT !.phase = "copy", !.plan = plan, !.owner = owner,
                                 !.listed = L, !.todo = L]
  BY <1>3
<1> HIDE DEF L
<1>7. handler' = Work("copy", handler.node, L, L, handler.moves, handler.drops, handler.given,
                      plan, owner)
  <2> DEFINE e1 == [handler EXCEPT !.phase = "copy"]
  <2>1. e1 = Work("copy", handler.node, handler.listed, handler.todo, handler.moves,
                  handler.drops, handler.given, handler.plan, handler.owner)
    BY <1>4 DEF Formed, Work
  <2> HIDE DEF e1
  <2> DEFINE e2 == [e1 EXCEPT !.plan = plan]
  <2>2. e2 = Work("copy", handler.node, handler.listed, handler.todo, handler.moves,
                  handler.drops, handler.given, plan, handler.owner)
    BY <2>1 DEF Work
  <2> HIDE DEF e2
  <2> DEFINE e3 == [e2 EXCEPT !.owner = owner]
  <2>3. e3 = Work("copy", handler.node, handler.listed, handler.todo, handler.moves,
                  handler.drops, handler.given, plan, owner)
    BY <2>2 DEF Work
  <2> HIDE DEF e3
  <2> DEFINE e4 == [e3 EXCEPT !.listed = L]
  <2>4. e4 = Work("copy", handler.node, L, handler.todo, handler.moves,
                  handler.drops, handler.given, plan, owner)
    BY <2>3 DEF Work
  <2> HIDE DEF e4
  <2>5. [e4 EXCEPT !.todo = L] =
          Work("copy", handler.node, L, L, handler.moves, handler.drops, handler.given, plan, owner)
    BY <2>4 DEF Work
  <2>6. handler' = [e4 EXCEPT !.todo = L]
    BY <1>6 DEF e1, e2, e3, e4
  <2>7. QED
    BY <2>5, <2>6
<1>8. /\ Formed(handler') /\ handler'.phase = "copy" /\ handler'.listed = L /\ handler'.todo = L
      /\ handler'.drops = handler.drops /\ handler'.plan = plan /\ handler'.owner = owner
  BY <1>7, WorkFields
<1>9. plan \subseteq up /\ plan \subseteq Nodes /\ \A b \in Blocks : owner[b] \in up \cup {None}
  BY DEF KInv, Typed
<1>10. Handling(handler)'
  BY <1>1, <1>4, <1>5, <1>8, <1>9 DEF Handling, Phases, Formed, Reachable, fleet
<1>11. StrandedIsPending'
  BY <1>1 DEF KInv, StrandedIsPending, HeldAt, Clearing, Departures, fleet
<1>12. run[Handler].st = "idle"
  BY <1>1, NotRunning
<1>13. QED
  BY <1>1, <1>10, <1>11, <1>12, HandlerOnly DEF KInv, Typed, fleet

\* A block is copied to its owner in the new plan, who is alive or whose departure is
\* still queued behind the event being handled.
LEMMA CopySound == ASSUME KInv, NEW b \in Blocks, CopyReusableKV(b) PROVE KInv'
<1> DEFINE owner == handler.owner[b]
<1>1. /\ handler.phase = "copy" /\ handler' = [handler EXCEPT !.todo = @ \ {b}]
      /\ UNCHANGED <<config, fleet, tasks, members, stray>>
      /\ IF owner # None /\ catalog[b] \ {owner} # {}
           THEN catalog' = Saved(b, owner) ELSE UNCHANGED catalog
  BY DEF CopyReusableKV
<1>2. /\ Formed(handler) /\ handler.listed \subseteq Blocks
      /\ handler.drops \subseteq Blocks /\ handler.plan \subseteq Nodes
      /\ \A c \in Blocks : handler.owner[c] \in Reachable \cup {None}
      /\ \A c \in handler.listed :
           /\ catalog[c] # {}
           /\ c \in handler.todo \/ handler.owner[c] = None \/ handler.owner[c] \in catalog[c]
  BY <1>1 DEF KInv, Handling
<1>3. /\ Formed(handler') /\ handler'.phase = "copy" /\ handler'.listed = handler.listed
      /\ handler'.todo = handler.todo \ {b} /\ handler'.drops = handler.drops
      /\ handler'.plan = handler.plan /\ handler'.owner = handler.owner
  BY <1>1, <1>2 DEF Formed, Work
<1>4. Reachable' = Reachable
  BY <1>1 DEF Reachable, Departures, fleet
<1>5. owner # None => owner \in Places /\ owner \in Reachable
  <2>1. \A m \in Departures : m \in Nodes
    <3> SUFFICES ASSUME NEW m \in Departures PROVE m \in Nodes
      OBVIOUS
    <3>1. PICK i \in 1..Len(queue) : queue[i].node = m
      BY DEF Departures
    <3>2. queue[i] \in Events
      BY <3>1 DEF KInv, Typed
    <3>3. QED
      BY <3>1, <3>2 DEF Events
  <2>2. up \subseteq Nodes
    BY DEF KInv, Typed
  <2>3. QED
    BY <1>2, <2>1, <2>2 DEF Reachable, Places
<1>6. catalog \in [Blocks -> SUBSET Places]
  BY DEF KInv, Typed
<1> HIDE DEF owner
<1>7. /\ catalog' \in [Blocks -> SUBSET Places]
      /\ \A c \in Blocks : /\ c # b => catalog'[c] = catalog[c]
                           /\ catalog[c] \subseteq catalog'[c]
      /\ catalog'[b] \subseteq catalog[b] \cup ({owner} \cap Reachable)
      /\ catalog[b] # {} /\ owner # None => owner \in catalog'[b]
  <2>1. CASE owner # None /\ catalog[b] \ {owner} # {}
    BY <1>1, <1>5, <1>6, <2>1 DEF Saved
  <2>2. CASE ~(owner # None /\ catalog[b] \ {owner} # {})
    BY <1>1, <1>6, <2>2
  <2>3. QED
    BY <2>1, <2>2
<1>8. Handling(handler)'
  <2>1. \A c \in handler.listed :
          /\ catalog'[c] # {}
          /\ c \in handler.todo \ {b} \/ handler.owner[c] = None \/ handler.owner[c] \in catalog'[c]
    <3> SUFFICES ASSUME NEW c \in handler.listed
                 PROVE  /\ catalog'[c] # {}
                        /\ c \in handler.todo \ {b} \/ handler.owner[c] = None
                           \/ handler.owner[c] \in catalog'[c]
      OBVIOUS
    <3>1. CASE c = b
      BY <1>2, <1>7, <3>1 DEF owner
    <3>2. CASE c # b
      BY <1>2, <1>7, <3>2
    <3>3. QED
      BY <3>1, <3>2
  <2>2. QED
    BY <1>1, <1>2, <1>3, <1>4, <2>1 DEF Handling, Phases, Formed
<1>9. StrandedIsPending'
  <2> SUFFICES ASSUME NEW m \in Nodes \ up, NEW c \in Blocks, m \in catalog'[c]
               PROVE  m \in Departures \/ <<c, m>> \in stray
    BY <1>1 DEF StrandedIsPending, HeldAt, Departures, fleet
  <2>1. CASE m \in catalog[c]
    BY <1>1, <2>1 DEF KInv, StrandedIsPending, HeldAt, Clearing
  <2>2. CASE m \notin catalog[c]
    BY <1>7, <2>2 DEF Reachable
  <2>3. QED
    BY <2>1, <2>2
<1>10. run[Handler].st = "idle"
  BY <1>1, NotRunning
<1>11. QED
  BY <1>1, <1>7, <1>8, <1>9, <1>10, HandlerOnly DEF KInv, Typed, fleet

-----------------------------------------------------------------------------
(* The theorems *)

\* The system starts right: everybody is up and nothing is in hand.
LEMMA KVInit == ASSUME Init PROVE KInv
<1>1. Typed
  <2>1. Idle \in RunType
    BY RetriesAssumption DEF Idle, RunType
  <2>2. catalog \in [Blocks -> SUBSET Places]
    <3>1. PICK places \in SUBSET Nodes : catalog = [b \in Blocks |-> IF b = Warm THEN places ELSE {}]
      BY DEF Init
    <3>2. QED
      BY <3>1 DEF Places
  <2>3. QED
    BY <2>1, <2>2 DEF Init, Typed
<1>2. Runs
  BY DEF Init, Runs, Idle, Runners
<1>3. Handling(handler)
  <2>1. /\ Formed(handler) /\ handler.phase = "idle" /\ handler.listed = {} /\ handler.drops = {}
        /\ handler.plan = {}
    BY NoWorkIs, WorkFields DEF Init
  <2>2. QED
    BY <2>1 DEF Handling, Phases
<1>4. StrandedIsPending
  BY DEF Init, StrandedIsPending
<1>5. QED
  BY <1>1, <1>2, <1>3, <1>4 DEF KInv

\* Every step keeps the invariant.
LEMMA KVStep == ASSUME KInv, [Next]_vars PROVE KInv'
<1>1. CASE UNCHANGED vars
  BY <1>1 DEF vars, fleet, tasks, KInv, Typed, Runs, Handling, Formed, Work, Reachable, Departures,
              StrandedIsPending, HeldAt, Clearing
<1>2. CASE FleetStep
  BY <1>2, FleetSound DEF FleetStep
<1>3. ASSUME NEW r \in Requests, HandleRequest(r) PROVE KInv'
  BY <1>3, Arrives
<1>4. ASSUME NEW x \in Runners, RunnerStep(x) PROVE KInv'
  BY <1>4, TaskSound, SaveSound DEF RunnerStep
<1>5. CASE HandlerStep
  BY <1>5, TakeDepartureSound, OtherEventsSound, RecoverTaskSound, DecideSound, MoveSound,
     DropSound, LetsGoSound, PrepareSound, CopySound DEF HandlerStep
<1>6. QED
  BY <1>1, <1>2, <1>3, <1>4, <1>5 DEF Next

\* In every state the handler's lists fit the catalog, its targets can be reached, and
\* what is stranded is still to be cleared.
THEOREM KVInvariant == Spec => []KInv
<1>1. Init => KInv
  BY KVInit
<1>2. KInv /\ [Next]_vars => KInv'
  BY KVStep
<1>3. QED
  BY <1>1, <1>2, PTL DEF Spec

\* The variables keep their types.
THEOREM KVTypeCorrect == Spec => []KVTypeOK
<1>1. KInv => KVTypeOK
  BY DEF KInv, Typed, Handling, Phases, RunType, KVTypeOK
<1>2. QED
  BY <1>1, KVInvariant, PTL

\* No block is forgotten on a node that is gone, but for the late saves, the targets of
\* DefaultMigration and the departures outside the plan that the history names.
THEOREM NothingForgotten == Spec => []StrandedIsPending
<1>1. KInv => StrandedIsPending
  BY DEF KInv
<1>2. QED
  BY <1>1, KVInvariant, PTL

\* When a plan comes into force, each stage has the blocks of its layers.
THEOREM StagesGetTheirBlocks == Spec => []CopiesReachOwners
<1>1. KInv => CopiesReachOwners
  BY DEF KInv, Handling, CopiesReachOwners
<1>2. QED
  BY <1>1, KVInvariant, PTL

\* Only the eviction of a block that the plan gave up empties its entry.
LEMMA LossIsPlanned ==
  ASSUME KInv, [Next]_vars, NEW b \in Blocks, catalog[b] # {}, catalog'[b] = {}
  PROVE  b \in handler.given /\ config.migration = "priority"
<1>1. catalog \in [Blocks -> SUBSET Places]
  BY DEF KInv, Typed
<1>2. catalog' # catalog
  OBVIOUS
<1>3. ASSUME NEW x \in Runners, SaveBlock(x) PROVE FALSE
  BY <1>1, <1>3 DEF SaveBlock, Saved
<1>4. ASSUME NEW c \in Blocks, CopyReusableKV(c) PROVE FALSE
  BY <1>1, <1>4 DEF CopyReusableKV, Saved
<1>5. ASSUME NEW c \in Blocks, Move(c) PROVE FALSE
  <2>1. catalog' = Moved(c, handler.node, handler.moves[c])
    BY <1>2, <1>5 DEF Move
  <2>2. QED
    BY <1>1, <2>1 DEF Moved
<1>6. ASSUME NEW c \in Blocks, Drop(c)
      PROVE  b \in handler.given /\ config.migration = "priority"
  <2>1. /\ handler.phase = "move" /\ c \in handler.drops /\ catalog' = Evicted(c)
    BY <1>6 DEF Drop
  <2>2. c = b
    BY <1>1, <2>1 DEF Evicted
  <2>3. /\ handler.drops \subseteq handler.given
        /\ config.migration = "default" => handler.given = {}
        /\ config.migration \in {"default", "priority"}
    BY <2>1 DEF KInv, Handling, Typed
  <2>4. QED
    BY <2>1, <2>2, <2>3
<1>7. CASE FleetStep
  BY <1>2, <1>7 DEF FleetStep, Unregister, Register, HeartbeatWithState
<1>8. ASSUME NEW r \in Requests, HandleRequest(r) PROVE FALSE
  BY <1>2, <1>8 DEF HandleRequest
<1>9. ASSUME NEW x \in Runners, Place(x) \/ EngineFails(x) \/ EngineAnswers(x) PROVE FALSE
  BY <1>2, <1>9 DEF Place, EngineFails, EngineAnswers
<1>10. CASE HandlerStep
  BY <1>2, <1>4, <1>5, <1>6, <1>10 DEF HandlerStep, TakeDeparture, IgnoreDeparture, TakeJoin,
     RecoverTask, DecideDefault, DecidePriority, EndMigration, Prepare, PrepareFails, Commit
<1>11. CASE UNCHANGED vars
  BY <1>2, <1>11 DEF vars
<1>12. QED
  BY <1>3, <1>7, <1>8, <1>9, <1>10, <1>11 DEF Next, RunnerStep

\* A block vanishes from the catalog only when PriorityMigration gave it up.
THEOREM LossesArePlanned == Spec => OnlyPlannedLosses
<1>1. KInv /\ [Next]_vars =>
        [\A b \in Blocks : catalog[b] # {} /\ catalog'[b] = {} =>
           b \in handler.given /\ config.migration = "priority"]_vars
  BY LossIsPlanned
<1>2. QED
  BY <1>1, KVInvariant, PTL DEF Spec, OnlyPlannedLosses
=============================================================================
