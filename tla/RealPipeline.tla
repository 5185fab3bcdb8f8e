---------------------------- MODULE RealPipeline ----------------------------
(***************************************************************************)
(* The pipeline over real machines: the controller of run_real_pipeline    *)
(* (main, RealPipeline, AgentClient), one stage agent per machine          *)
(* (stage_agent.EngineService) and the engine in it (HFLayeredEngine).     *)
(*                                                                         *)
(* A call is a frame on a thread's own connection.  When the connection    *)
(* breaks, the client connects again and sends the same frame once more,   *)
(* while the agent's thread may still execute the first one.  Requests     *)
(* carry no epoch: an agent uses whatever is active when the frame is      *)
(* executed.  Tensors are left out; what a forward pass did is told by the *)
(* layers it went through and by the cache length that it started from.    *)
(***************************************************************************)
EXTENDS Integers, FiniteSets, Sequences, Functions

CONSTANTS
  NumStages,      \* stages are numbered in the order of RealPipeline.stages
  NumLayers,
  MaxWeight,      \* weights of the layer split, 0..MaxWeight
  PromptLength,
  MaxTokens,
  BaseRequests,   \* --leave-after
  Leaving,        \* the stage named by --leave-node
  Concurrency,    \* --concurrency, a sequence
  MaxBreaks,      \* connections that break although the agent is up
  MaxRestarts     \* agents restarted by start_agent.sh

ASSUME SizesAssumption == NumStages \in Nat \ {0} /\ NumLayers \in Nat \ {0}
ASSUME WeightAssumption == MaxWeight \in Nat
ASSUME RoundsAssumption == BaseRequests \in Nat /\ Concurrency \in Seq(Nat)
ASSUME LeavingAssumption == Leaving \in 1..NumStages
ASSUME LengthsAssumption == PromptLength \in Nat \ {0} /\ MaxTokens \in Nat \ {0}

Stages == 1..NumStages
NoRange == <<0, 0>>
NoWeights == [i \in Stages |-> 0]

-----------------------------------------------------------------------------
(* main: a straight line of plans and rounds of requests *)

Plan == [do |-> "plan", ids |-> {}, threads |-> FALSE]
Leave == [Plan EXCEPT !.do = "leave"]
Retire == [Plan EXCEPT !.do = "retire"]
Run(ids, threads) == [do |-> "run", ids |-> ids, threads |-> threads]

Script ==
  <<Plan>>
    \o [i \in 1..BaseRequests |-> Run({<<"req", i>>}, FALSE)]
    \o <<Leave, Plan, Run({<<"after", 1>>}, FALSE), Retire>>
    \o [i \in 1..Len(Concurrency) |-> Run({<<"conc", k>> : k \in 1..Concurrency[i]}, TRUE)]

Requests == UNION {Script[i].ids : i \in 1..Len(Script)}
Main == <<"main", 0>>
Callers == Requests \cup {Main}
MaxEpoch == Cardinality({i \in 1..Len(Script) : Script[i] = Plan})
Epochs == 1..MaxEpoch

VARIABLES
  main,      \* [phase, line, todo, epoch] of the controller's main thread
  plan,      \* [total, weights, cursor, range]: the layer split of apply_plan
  alive,     \* stages with StageNode.alive
  worker,    \* worker[r]: the thread in run_request for r
  calls,     \* calls[c]: the call that thread c is waiting for
  frames,    \* frames that an agent has received and not executed
  agent,     \* agent[n]: [up, prepared, active, busy]
  cache,     \* cache[n][e][r]: length of the KV cache, -1 if there is none
  broken,    \* history: calls sent again, by caller, or Activation
  budget     \* breaks and restarts left

vars == <<main, plan, alive, worker, calls, frames, agent, cache, broken, budget>>
control == <<main, plan, alive>>
machines == <<agent, cache>>

Activation == <<"activation", 0>>
Idle == [st |-> "idle"]
NotBusy == [epoch |-> 0]
NewWorker == [status |-> "new", todo |-> {}, pass |-> 0, kind |-> "tokens", token |-> FALSE,
              reached |-> 0, gap |-> FALSE, skew |-> FALSE]
NewAgent == [up |-> TRUE, prepared |-> [e \in Epochs |-> NoRange], active |-> 0, busy |-> NotBusy]
EmptyCache == [e \in Epochs |-> [r \in Requests |-> -1]]

First(S) == CHOOSE i \in S : \A j \in S : i <= j

Init ==
  /\ main = [phase |-> "wait", line |-> 1, todo |-> Stages, epoch |-> 0]
  /\ plan = [total |-> 0, weights |-> NoWeights, cursor |-> 0, range |-> [i \in Stages |-> NoRange]]
  /\ alive = Stages
  /\ worker = [r \in Requests |-> NewWorker]
  /\ calls = [c \in Callers |-> Idle]
  /\ frames = {}
  /\ agent = [n \in Stages |-> [NewAgent EXCEPT !.up = FALSE]]
  /\ cache = [n \in Stages |-> EmptyCache]
  /\ broken = {}
  /\ budget = [breaks |-> MaxBreaks, restarts |-> MaxRestarts]

-----------------------------------------------------------------------------
(* AgentClient.call *)

\* Without a listener, both connection attempts are refused.
Send(c, n, what) ==
  LET f == [from |-> c, line |-> main.line, node |-> n, what |-> what, try |-> 1] IN
  /\ calls[c] = Idle
  /\ IF agent[n].up
       THEN /\ calls' = [calls EXCEPT ![c] = [st |-> "sent", frame |-> f]]
            /\ frames' = frames \cup {f}
       ELSE /\ calls' = [calls EXCEPT ![c] = [st |-> "raised"]]
            /\ UNCHANGED frames
  /\ UNCHANGED <<machines, broken, budget>>

Working(f) == agent[f.node].busy # NotBusy /\ agent[f.node].busy.frame = f

\* The connection of c breaks before the answer is read: by a timeout or on the
\* way, then the first frame may have been executed, be executed later, or be lost
\* (breaks counts those), or because the agent is gone.
Break(c) ==
  LET f == calls[c].frame IN
  /\ calls[c].st \in {"sent", "answered"}
  /\ IF f \in frames \/ Working(f) \/ calls[c].st = "answered"
       THEN budget.breaks > 0 /\ budget' = [budget EXCEPT !.breaks = @ - 1]
       ELSE UNCHANGED budget
  /\ \E kept \in {frames, frames \ {f}} :
       IF f.try = 1 /\ agent[f.node].up
         THEN LET again == [f EXCEPT !.try = 2] IN
              /\ frames' = kept \cup {again}
              /\ calls' = [calls EXCEPT ![c] = [st |-> "sent", frame |-> again]]
              /\ broken' = broken \cup {IF f.what.op = "activate" THEN Activation ELSE c}
         ELSE /\ frames' = kept
              /\ calls' = [calls EXCEPT ![c] = [st |-> "raised"]]
              /\ UNCHANGED broken
  /\ UNCHANGED <<control, worker, machines>>

\* The answer reaches a caller only over the connection of the frame.
Answered(f, answer) ==
  IF calls[f.from] # [st |-> "sent", frame |-> f]
    THEN calls
    ELSE [calls EXCEPT ![f.from] = [st |-> "answered", frame |-> f, answer |-> answer]]

Refused == [ok |-> FALSE]
Success == [ok |-> TRUE]

Returned(c) == calls[c].st \in {"answered", "raised"}
ReturnedOk(c) == calls[c].st = "answered" /\ calls[c].answer.ok

-----------------------------------------------------------------------------
(* EngineService and HFLayeredEngine *)

LegalRange(range) == range[1] >= 0 /\ range[2] > range[1] /\ range[2] <= NumLayers

\* prepare_epoch, under the service's lock.  Loading the weights may fail for any range.
AgentPrepare(f) ==
  LET n == f.node IN
  /\ f \in frames /\ f.what.op = "prepare"
  /\ agent[n].busy = NotBusy
  /\ \/ /\ LegalRange(f.what.range)
        /\ agent' = [agent EXCEPT ![n].prepared[f.what.epoch] = f.what.range]
        /\ calls' = Answered(f, Success)
     \/ calls' = Answered(f, Refused) /\ UNCHANGED agent
  /\ frames' = frames \ {f}
  /\ UNCHANGED <<control, worker, cache, broken, budget>>

\* Faulty variant: the epoch need not be prepared.
AgentActivatesAnything(f) ==
  /\ f \in frames /\ f.what.op = "activate"
  /\ agent' = [agent EXCEPT ![f.node].active = f.what.epoch]
  /\ calls' = Answered(f, Success)
  /\ frames' = frames \ {f}
  /\ UNCHANGED <<control, worker, cache, broken, budget>>

\* activate_epoch and retire_epoch do not take the lock.
AgentActivate(f) ==
  LET n == f.node
      e == f.what.epoch
  IN
  /\ f \in frames /\ f.what.op = "activate"
  /\ IF agent[n].prepared[e] # NoRange
       THEN /\ agent' = [agent EXCEPT ![n].active = e]
            /\ calls' = Answered(f, Success)
       ELSE calls' = Answered(f, Refused) /\ UNCHANGED agent
  /\ frames' = frames \ {f}
  /\ UNCHANGED <<control, worker, cache, broken, budget>>

\* Faulty variant: the caches of every epoch are dropped.
AgentRetireAllCaches(f) ==
  LET n == f.node
      e == f.what.epoch
  IN
  /\ f \in frames /\ f.what.op = "retire"
  /\ agent' = [agent EXCEPT ![n].prepared[e] = NoRange, ![n].active = IF @ = e THEN 0 ELSE @]
  /\ cache' = [cache EXCEPT ![n] = EmptyCache]
  /\ calls' = Answered(f, Success)
  /\ frames' = frames \ {f}
  /\ UNCHANGED <<control, worker, broken, budget>>

AgentRetire(f) ==
  LET n == f.node
      e == f.what.epoch
  IN
  /\ f \in frames /\ f.what.op = "retire"
  /\ agent' = [agent EXCEPT ![n].prepared[e] = NoRange, ![n].active = IF @ = e THEN 0 ELSE @]
  /\ cache' = [cache EXCEPT ![n][e] = [r \in Requests |-> -1]]
  /\ calls' = Answered(f, Success)
  /\ frames' = frames \ {f}
  /\ UNCHANGED <<control, worker, broken, budget>>

\* shutdown: serve_forever returns and the process exits.
AgentShutdown(f) ==
  LET n == f.node IN
  /\ f \in frames /\ f.what.op = "shutdown"
  /\ agent' = [agent EXCEPT ![n] = [NewAgent EXCEPT !.up = FALSE]]
  /\ cache' = [cache EXCEPT ![n] = EmptyCache]
  /\ calls' = Answered(f, Success)
  /\ frames' = {g \in frames : g.node # n}
  /\ UNCHANGED <<control, worker, broken, budget>>

\* prefill or decode takes the lock, the stage of the active epoch and the cache of
\* the request in that epoch.
ForwardBegins(f) ==
  LET n == f.node
      e == agent[n].active
      range == agent[n].prepared[e]
  IN
  /\ f \in frames /\ f.what.op \in {"prefill", "decode"}
  /\ agent[n].busy = NotBusy
  /\ IF e # 0 /\ f.what.kind = (IF range[1] = 0 THEN "tokens" ELSE "hidden")
       THEN /\ agent' = [agent EXCEPT ![n].busy = [epoch |-> e, range |-> range, frame |-> f]]
            /\ cache' = [cache EXCEPT ![n][e][f.from] = IF @ = -1 THEN 0 ELSE @]
            /\ UNCHANGED calls
       ELSE calls' = Answered(f, Refused) /\ UNCHANGED machines
  /\ frames' = frames \ {f}
  /\ UNCHANGED <<control, worker, broken, budget>>

\* The end of _forward: the cache has grown by the tokens of the pass.  When the
\* epoch was retired meanwhile, the layers are gone (TypeError) unless the loop over
\* them had started, and the cache is no longer in the table.
ForwardEnds(n) ==
  LET job == agent[n].busy
      past == cache[n][job.epoch][job.frame.from]
      seq == IF job.frame.what.op = "prefill" THEN PromptLength ELSE 1
      done == [ok |-> TRUE, past |-> IF past = -1 THEN 0 ELSE past, range |-> job.range]
      retired == agent[n].prepared[job.epoch] = NoRange
  IN
  /\ job # NotBusy
  /\ \E answer \in {done} \cup (IF retired THEN {Refused} ELSE {}) :
       calls' = Answered(job.frame, answer)
  /\ cache' = IF past = -1 THEN cache ELSE [cache EXCEPT ![n][job.epoch][job.frame.from] = past + seq]
  /\ agent' = [agent EXCEPT ![n].busy = NotBusy]
  /\ UNCHANGED <<control, worker, frames, broken, budget>>

AgentStarts(n) ==
  /\ main.phase = "wait" /\ ~agent[n].up
  /\ agent' = [agent EXCEPT ![n].up = TRUE]
  /\ UNCHANGED <<control, worker, calls, frames, cache, broken, budget>>

\* A machine goes down and its agent is started again, with nothing prepared.
AgentRestarts(n) ==
  /\ agent[n].up
  /\ budget.restarts > 0
  /\ budget' = [budget EXCEPT !.restarts = @ - 1]
  /\ agent' = [agent EXCEPT ![n] = NewAgent]
  /\ cache' = [cache EXCEPT ![n] = EmptyCache]
  /\ frames' = {f \in frames : f.node # n}
  /\ UNCHANGED <<control, worker, calls, broken>>

AgentStep(n) ==
  \/ \E f \in {g \in frames : g.node = n} :
       AgentPrepare(f) \/ AgentActivate(f) \/ AgentRetire(f) \/ AgentShutdown(f) \/ ForwardBegins(f)
  \/ ForwardEnds(n)


-----------------------------------------------------------------------------
(* main *)

CallingPhases == {"prepare", "activate", "retire", "leave"}
Phases == CallingPhases \cup {"wait", "next", "split", "serve", "over", "failed"}

Goto(phase, todo) == main' = [main EXCEPT !.phase = phase, !.todo = todo]
NextLine == main' = [main EXCEPT !.phase = "next", !.line = @ + 1, !.todo = {}]
Raise == Goto("failed", {})

\* wait_for_agents and probe say hello to one stage after the other.
Greet ==
  LET rest == main.todo \ {First(main.todo)} IN
  /\ main.phase = "wait"
  /\ agent[First(main.todo)].up
  /\ Goto(IF rest = {} THEN "next" ELSE "wait", rest)
  /\ UNCHANGED <<plan, alive, worker, calls, frames, machines, broken, budget>>

NotReadyInTime ==
  /\ main.phase = "wait"
  /\ ~agent[First(main.todo)].up
  /\ Raise
  /\ UNCHANGED <<plan, alive, worker, calls, frames, machines, broken, budget>>

\* apply_plan up to the loop of split_layers; total stands for sum(weights).
StartPlan(weights, total) ==
  /\ main.phase = "next" /\ main.line <= Len(Script) /\ Script[main.line].do = "plan"
  /\ total = FoldFunctionOnSet(+, 0, weights, alive)
  /\ IF alive = {}
       THEN Raise /\ UNCHANGED plan
       ELSE /\ Goto("split", alive)
            /\ plan' = [total |-> IF total = 0 THEN Cardinality(alive) ELSE total,
                        weights |-> weights, cursor |-> 0, range |-> [i \in Stages |-> NoRange]]
  /\ UNCHANGED <<alive, worker, calls, frames, machines, broken, budget>>

\* Python's round: half to even.
Rounded(a, b) ==
  LET q == a \div b
      r == a % b
  IN IF 2 * r > b \/ (2 * r = b /\ q % 2 = 1) THEN q + 1 ELSE q

AtLeast(a, b) == IF a >= b THEN a ELSE b
AtMost(a, b) == IF a <= b THEN a ELSE b

\* Faulty variant: the stages that follow are not left a layer each.
SplitStageGreedily ==
  LET i == First(main.todo)
      rest == main.todo \ {i}
      share == AtMost(AtLeast(1, Rounded(NumLayers * plan.weights[i], plan.total)),
                      NumLayers - plan.cursor)
      end == IF rest = {} THEN NumLayers ELSE plan.cursor + share
  IN
  /\ main.phase = "split" /\ main.todo # {}
  /\ plan' = [range |-> [plan.range EXCEPT ![i] = <<plan.cursor, end>>], cursor |-> end,
              weights |-> IF rest = {} THEN NoWeights ELSE plan.weights,
              total |-> IF rest = {} THEN 0 ELSE plan.total]
  /\ IF rest = {}
       THEN main' = [phase |-> "prepare", line |-> main.line, todo |-> alive,
                     epoch |-> main.epoch + 1]
       ELSE Goto("split", rest)
  /\ UNCHANGED <<alive, worker, calls, frames, machines, broken, budget>>

\* Faulty variant: the epoch advances with every stage.
SplitStageCounting ==
  LET rest == main.todo \ {First(main.todo)} IN
  /\ main.phase = "split" /\ main.todo # {}
  /\ plan' = [plan EXCEPT !.range[First(main.todo)] = <<0, NumLayers>>]
  /\ main' = [main EXCEPT !.phase = IF rest = {} THEN "prepare" ELSE "split",
                          !.todo = IF rest = {} THEN alive ELSE rest, !.epoch = @ + 1]
  /\ UNCHANGED <<alive, worker, calls, frames, machines, broken, budget>>

\* One round of the loop of split_layers.
SplitStage ==
  LET i == First(main.todo)
      rest == main.todo \ {i}
      share == AtMost(AtLeast(1, Rounded(NumLayers * plan.weights[i], plan.total)),
                      NumLayers - plan.cursor - Cardinality(rest))
      end == IF rest = {} THEN NumLayers ELSE plan.cursor + share
  IN
  /\ main.phase = "split" /\ main.todo # {}
  /\ plan' = [range |-> [plan.range EXCEPT ![i] = <<plan.cursor, end>>], cursor |-> end,
              weights |-> IF rest = {} THEN NoWeights ELSE plan.weights,
              total |-> IF rest = {} THEN 0 ELSE plan.total]
  /\ IF rest = {}
       THEN main' = [phase |-> "prepare", line |-> main.line, todo |-> alive,
                     epoch |-> main.epoch + 1]
       ELSE Goto("split", rest)
  /\ UNCHANGED <<alive, worker, calls, frames, machines, broken, budget>>

\* The calls of apply_plan, retire_epoch and of the departure, one at a time.
MainCalls ==
  LET i == First(main.todo)
      what == CASE main.phase = "prepare" ->
                     [op |-> "prepare", epoch |-> main.epoch, range |-> plan.range[i]]
                [] main.phase = "activate" -> [op |-> "activate", epoch |-> main.epoch]
                [] main.phase = "retire" -> [op |-> "retire", epoch |-> main.epoch - 1]
                [] main.phase = "leave" -> [op |-> "shutdown"]
  IN
  /\ main.phase \in CallingPhases
  /\ Send(Main, i, what)
  /\ UNCHANGED <<control, worker>>

\* A departure and the retirements go on whatever the call brought.
MainReturns ==
  LET rest == main.todo \ {First(main.todo)} IN
  /\ main.phase \in CallingPhases
  /\ Returned(Main)
  /\ calls' = [calls EXCEPT ![Main] = Idle]
  /\ alive' = IF main.phase = "leave" THEN alive \ {Leaving} ELSE alive
  /\ IF ~ReturnedOk(Main) /\ main.phase \in {"prepare", "activate"} THEN Raise
     ELSE IF rest # {} THEN Goto(main.phase, rest)
     ELSE IF main.phase = "prepare" THEN Goto("activate", alive)
     ELSE NextLine
  /\ UNCHANGED <<plan, worker, frames, machines, broken, budget>>

StartDeparture ==
  /\ main.phase = "next" /\ main.line <= Len(Script) /\ Script[main.line].do = "leave"
  /\ Goto("leave", {Leaving})
  /\ UNCHANGED <<plan, alive, worker, calls, frames, machines, broken, budget>>

StartRetire ==
  /\ main.phase = "next" /\ main.line <= Len(Script) /\ Script[main.line].do = "retire"
  /\ Goto("retire", alive)
  /\ UNCHANGED <<plan, alive, worker, calls, frames, machines, broken, budget>>

\* A request runs in main itself, or K of them in a thread each.
StartRound ==
  /\ main.phase = "next" /\ main.line <= Len(Script) /\ Script[main.line].do = "run"
  /\ Goto("serve", {})
  /\ worker' = [r \in Requests |-> IF r \in Script[main.line].ids
       THEN [NewWorker EXCEPT !.status = "running", !.todo = alive] ELSE worker[r]]
  /\ UNCHANGED <<plan, alive, calls, frames, machines, broken, budget>>

\* Faulty variants: the threads are not joined; a thread that died is waited for.
EndRoundUnjoined ==
  /\ main.phase = "serve"
  /\ NextLine
  /\ UNCHANGED <<plan, alive, worker, calls, frames, machines, broken, budget>>

EndRoundWhenDone ==
  /\ main.phase = "serve"
  /\ \A r \in Script[main.line].ids : worker[r].status = "done"
  /\ NextLine
  /\ UNCHANGED <<plan, alive, worker, calls, frames, machines, broken, budget>>

\* join; an exception in a worker thread is only printed, in main it ends all.
EndRound ==
  LET round == Script[main.line] IN
  /\ main.phase = "serve"
  /\ \A r \in round.ids : worker[r].status \in {"done", "failed"}
  /\ IF ~round.threads /\ \E r \in round.ids : worker[r].status = "failed" THEN Raise ELSE NextLine
  /\ UNCHANGED <<plan, alive, worker, calls, frames, machines, broken, budget>>

Finish ==
  /\ main.phase = "next" /\ main.line > Len(Script)
  /\ Goto("over", {})
  /\ UNCHANGED <<plan, alive, worker, calls, frames, machines, broken, budget>>

-----------------------------------------------------------------------------
(* run_request *)

\* Tokens that a stage has processed before pass k: 0 is the prefill.
Before(k) == IF k = 0 THEN 0 ELSE PromptLength + k - 1

WorkerCalls(r) ==
  LET w == worker[r]
      what == [op |-> IF w.pass = 0 THEN "prefill" ELSE "decode", kind |-> w.kind]
  IN
  /\ w.status = "running"
  /\ Send(r, First(w.todo), what)
  /\ UNCHANGED <<control, worker>>

\* The answer of one stage is the input of the next; after the last one the token
\* is fed back, until there is none or there are enough.
WorkerReturns(r) ==
  LET w == worker[r]
      answer == calls[r].answer
      rest == w.todo \ {First(w.todo)}
      last == answer.range[2] = NumLayers
      token == w.token \/ last
      seen == [w EXCEPT !.gap = @ \/ answer.range[1] # w.reached,
                        !.skew = @ \/ answer.past # Before(w.pass),
                        !.reached = answer.range[2],
                        !.token = token,
                        !.kind = IF last THEN "none" ELSE "hidden",
                        !.todo = rest]
  IN
  /\ w.status = "running" /\ Returned(r)
  /\ calls' = [calls EXCEPT ![r] = Idle]
  /\ worker' = [worker EXCEPT ![r] =
       IF ~ReturnedOk(r) THEN [w EXCEPT !.status = "failed"]
       ELSE IF rest # {} THEN seen
       ELSE IF ~token \/ w.pass + 1 = MaxTokens
         THEN [seen EXCEPT !.status = "done", !.gap = @ \/ ~last]
         ELSE [seen EXCEPT !.todo = alive, !.pass = @ + 1, !.kind = "tokens",
                           !.token = FALSE, !.reached = 0, !.gap = @ \/ ~last]]
  /\ UNCHANGED <<control, frames, machines, broken, budget>>

-----------------------------------------------------------------------------
MainStep ==
  \/ Greet
  \/ NotReadyInTime
  \/ \E weights \in [Stages -> 0..MaxWeight], total \in 0..(NumStages * MaxWeight) :
       StartPlan(weights, total)
  \/ SplitStage
  \/ MainCalls
  \/ MainReturns
  \/ StartDeparture
  \/ StartRetire
  \/ StartRound
  \/ EndRound
  \/ Finish

WorkerStep(r) == WorkerCalls(r) \/ WorkerReturns(r)

Next ==
  \/ MainStep
  \/ \E r \in Requests : WorkerStep(r)
  \/ \E c \in Callers : Break(c)
  \/ \E n \in Stages : AgentStep(n)
  \/ \E n \in Stages : AgentStarts(n)
  \/ \E n \in Stages : AgentRestarts(n)

Spec == Init /\ [][Next]_vars

\* Threads are scheduled, agents serve their connections, and a call whose agent is
\* gone is cut off by the reset of the connection or by the 600 s timeout.
FairSpec ==
  /\ Spec
  /\ WF_vars(MainStep)
  /\ \A r \in Requests : WF_vars(WorkerStep(r))
  /\ \A n \in Stages : WF_vars(AgentStep(n))
  /\ \A c \in Callers : WF_vars(Break(c) /\ UNCHANGED budget)

-----------------------------------------------------------------------------
(* Properties *)

RealPipelineTypeOK ==
  /\ main.phase \in Phases
  /\ main.todo \subseteq Stages /\ main.epoch \in 0..MaxEpoch
  /\ plan.cursor \in (-NumStages)..NumLayers
  /\ alive \subseteq Stages
  /\ \A n \in Stages : agent[n].active \in 0..MaxEpoch
  /\ \A c \in Callers : calls[c].st \in {"idle", "sent", "answered", "raised"}

\* What apply_plan prepares and activates is a split of the whole model: the stages
\* alive follow each other without gap or overlap and each has a layer, whatever
\* the weights, if there are no more stages than layers.
PlanTilesModel ==
  main.phase \in {"prepare", "activate"} /\ NumStages <= NumLayers =>
    /\ \A i \in alive : plan.range[i][1] < plan.range[i][2]
    /\ \A i, j \in alive : i < j => plan.range[i][2] <= plan.range[j][1]
    /\ \A x \in 0..(NumLayers - 1) :
         \E i \in alive : plan.range[i][1] <= x /\ x < plan.range[i][2]

\* A forward pass whose caller still waits for it keeps its layers to the end:
\* retire_epoch, which does not take the lock, never pulls them away, unless an
\* activation sent twice has switched the agent back to the epoch that is retired.
CallerKeepsStage ==
  Activation \in broken \/ \A n \in Stages :
    LET job == agent[n].busy IN
    job # NotBusy /\ calls[job.frame.from] = [st |-> "sent", frame |-> job.frame]
      => agent[n].prepared[job.epoch] = job.range

\* The passes of a request go through every layer once and in order, although its
\* frames name no epoch and agents are restarted; only an activation sent twice may
\* switch an agent back later.
PassesCoverModel == Activation \in broken \/ \A r \in Requests : ~worker[r].gap

\* Ids of an earlier round: run_concurrent numbers its requests from 0 every time.
UsedBefore(r) == \E l \in 1..(main.line - 1) : r \in Script[l].ids

\* Every pass of a request finds in each stage's cache exactly the tokens before it,
\* unless one of its own calls was sent twice, its id was used before, or an
\* activation was sent twice.
CacheMatchesPass ==
  \A r \in Requests :
    worker[r].skew => r \in broken \/ Activation \in broken \/ UsedBefore(r)

\* The experiment ends, with its results or with an exception.
ExperimentEnds == <>(main.phase \in {"over", "failed"})

(* What the documentation says and the code does not do *)

\* request_positions: the position is the number of tokens of the request that have
\* been computed, prompt and generated ones.
PositionCountsTokens == \A r \in Requests : ~worker[r].skew
=============================================================================
