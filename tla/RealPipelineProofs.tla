------------------------- MODULE RealPipelineProofs -------------------------
(***************************************************************************)
(* The safety of the pipeline over real machines, for any number of        *)
(* stages, layers, requests, breaks and restarts.                          *)
(*                                                                         *)
(* The split.  The loop of split_layers keeps as many layers as there are  *)
(* stages to come, so the share of a stage is never below one; the ranges  *)
(* assigned so far tile 0..cursor.                                         *)
(*                                                                         *)
(* The passes.  Frames of requests name no epoch, so what an agent does    *)
(* with one depends on when it is executed.  PipelineInv says why that is  *)
(* the plan in force: the epoch counts the plans that the script has made  *)
(* (LineInv); what is under way was planned (FrameInv), and so was what    *)
(* agents have prepared (AgentInv); threads run only in their round        *)
(* (WorkerInv); and an agent that has confirmed the activation stays with  *)
(* the epoch or loses everything, unless an activation was sent twice      *)
(* (SteadyInv).                                                            *)
(*                                                                         *)
(* The caches.  CacheInv follows the tokens that each stage has seen of a  *)
(* request by what its thread knows: one pass more where the thread has    *)
(* been, and one more where the answer waits to be read.                   *)
(***************************************************************************)
EXTENDS RealPipeline, TLAPS, FiniteSetTheorems, WellFoundedInduction, SequenceTheorems

ControlTypeOK ==
  /\ main \in [phase : Phases, line : Int, todo : SUBSET Stages, epoch : Int]
  /\ plan \in [total : Int, weights : [Stages -> Int], cursor : Int,
               range : [Stages -> Int \X Int]]
  /\ alive \in SUBSET Stages

\* The stages in S tile the layers below end, in their order.
Tiles(range, S, end) ==
  /\ \A i \in S : 0 <= range[i][1] /\ range[i][1] < range[i][2] /\ range[i][2] <= end
  /\ \A i, j \in S : i < j => range[i][2] <= range[j][1]
  /\ \A x \in Int : 0 <= x /\ x < end =>
       \E i \in S : range[i][1] <= x /\ x < range[i][2]

\* In the loop, every stage that has its range comes before those that have not, and
\* enough layers are left for the latter.
Splitting ==
  /\ main.todo # {} /\ main.todo \subseteq alive
  /\ plan.total > 0
  /\ \A i \in alive \ main.todo, j \in main.todo : i < j
  /\ NumStages <= NumLayers =>
       /\ plan.cursor >= 0
       /\ plan.cursor + Cardinality(main.todo) <= NumLayers
       /\ Tiles(plan.range, alive \ main.todo, plan.cursor)

SplitInv ==
  /\ ControlTypeOK
  /\ main.phase = "split" => Splitting
  /\ main.phase \in {"prepare", "activate"} /\ NumStages <= NumLayers => Tiles(plan.range, alive, NumLayers)

-----------------------------------------------------------------------------
\* The first stage of a non-empty set is its least element.
LEMMA FirstIsLeast ==
  ASSUME NEW S \in SUBSET Stages, S # {}
  PROVE  First(S) \in S /\ \A j \in S : First(S) <= j
<1> DEFINE N == 1..NumStages
           T == {1..x : x \in S}
<1>1. S \subseteq Int /\ S \subseteq Nat \ {0}
  BY SizesAssumption DEF Stages
<1>2. T # {} /\ T \subseteq FiniteSubsetsOf(N)
  <2>1. ASSUME NEW x \in S PROVE 1..x \in FiniteSubsetsOf(N)
    <3>1. 1..x \subseteq N /\ IsFiniteSet(1..x)
      BY <1>1, FS_Interval, SizesAssumption DEF Stages
    <3> QED BY <3>1 DEF FiniteSubsetsOf
  <2> QED BY <2>1
<1>3. PICK t \in T : \A u \in T : ~ (<<u, t>> \in StrictSubsetOrdering(N))
  <2> HIDE DEF T
  <2> QED BY <1>2, FS_StrictSubsetOrderingWellFounded, WFMin
<1>4. PICK x \in S : t = 1..x
  OBVIOUS
<1>5. ASSUME NEW y \in S, ~ (x <= y) PROVE FALSE
  <2>1. 1..y \in T /\ 1..y \subseteq 1..x /\ x \in 1..x /\ x \notin 1..y
    BY <1>1, <1>5
  <2>2. 1..y \in SUBSET N /\ 1..x \in SUBSET N
    BY <1>1, SizesAssumption DEF Stages
  <2>3. <<1..y, t>> \in StrictSubsetOrdering(N)
    BY <2>1, <2>2, <1>4 DEF StrictSubsetOrdering
  <2> QED BY <2>1, <2>3, <1>3
<1>6. \E i \in S : \A j \in S : i <= j
  BY <1>5
<1> QED BY <1>6 DEF First

\* Subsets of the stages are finite; removing an element takes one off their size.
LEMMA StageSets ==
  ASSUME NEW S \in SUBSET Stages
  PROVE  /\ IsFiniteSet(S) /\ Cardinality(S) \in Nat /\ Cardinality(S) <= NumStages
         /\ S # {} => Cardinality(S) > 0
         /\ \A i \in S : Cardinality(S \ {i}) = Cardinality(S) - 1
<1>1. IsFiniteSet(Stages) /\ Cardinality(Stages) = NumStages
  BY FS_Interval, SizesAssumption DEF Stages
<1>2. IsFiniteSet(S) /\ Cardinality(S) <= NumStages
  BY <1>1, FS_Subset
<1>3. Cardinality(S) \in Nat
  BY <1>2, FS_CardinalityType
<1>4. S # {} => Cardinality(S) > 0
  BY <1>2, <1>3, FS_EmptySet
<1>5. \A i \in S : Cardinality(S \ {i}) = Cardinality(S) - 1
  BY <1>2, FS_RemoveElement
<1> QED BY <1>2, <1>3, <1>4, <1>5

\* Rounding an integer fraction gives an integer.
LEMMA RoundedIsInteger ==
  ASSUME NEW a \in Int, NEW b \in Int, b > 0
  PROVE  Rounded(a, b) \in Int
<1>1. a \div b \in Int /\ (a \div b) + 1 \in Int
  OBVIOUS
<1> QED BY <1>1 DEF Rounded

\* The loop of split_layers keeps what has been tiled and what is left for the rest.
LEMMA SplitStagePreserves == SplitInv /\ SplitStage => SplitInv'
<1> SUFFICES ASSUME SplitInv, SplitStage PROVE SplitInv'
  OBVIOUS
<1> DEFINE i == First(main.todo)
           rest == main.todo \ {i}
           share == AtMost(AtLeast(1, Rounded(NumLayers * plan.weights[i], plan.total)),
                           NumLayers - plan.cursor - Cardinality(rest))
           end == IF rest = {} THEN NumLayers ELSE plan.cursor + share
<1>1. /\ main.phase = "split" /\ Splitting /\ ControlTypeOK
      /\ plan' = [range |-> [plan.range EXCEPT ![i] = <<plan.cursor, end>>], cursor |-> end,
                  weights |-> IF rest = {} THEN NoWeights ELSE plan.weights,
                  total |-> IF rest = {} THEN 0 ELSE plan.total]
      /\ main' = IF rest = {}
                   THEN [phase |-> "prepare", line |-> main.line, todo |-> alive,
                         epoch |-> main.epoch + 1]
                   ELSE [main EXCEPT !.phase = "split", !.todo = rest]
      /\ alive' = alive
  <2>1. main.phase = "split" /\ Splitting /\ ControlTypeOK
    BY DEF SplitInv, SplitStage
  <2>2. /\ plan' = [range |-> [plan.range EXCEPT ![i] = <<plan.cursor, end>>], cursor |-> end,
                    weights |-> IF rest = {} THEN NoWeights ELSE plan.weights,
                    total |-> IF rest = {} THEN 0 ELSE plan.total]
        /\ alive' = alive
    BY DEF SplitStage
  <2>3. CASE rest = {}
    <3>1. main' = [phase |-> "prepare", line |-> main.line, todo |-> alive,
                   epoch |-> main.epoch + 1]
      BY <2>3, Zenon DEF SplitStage
    <3> QED BY <2>1, <2>2, <2>3, <3>1, Zenon
  <2>4. CASE rest # {}
    <3>1. main' = [main EXCEPT !.phase = "split", !.todo = rest]
      BY <2>4, Zenon DEF SplitStage, Goto
    <3> QED BY <2>1, <2>2, <2>4, <3>1, Zenon
  <2> QED BY <2>3, <2>4
<1>2. /\ i \in main.todo /\ i \in alive /\ i \in Stages /\ i \in Int
      /\ \A j \in rest : i < j
      /\ \A j \in alive \ main.todo : j < i
      /\ alive \subseteq Int
  <2>1. i \in main.todo /\ \A j \in main.todo : i <= j
    BY <1>1, FirstIsLeast DEF Splitting, ControlTypeOK
  <2>2. main.todo \subseteq alive /\ alive \subseteq Stages /\ Stages \subseteq Int
    BY <1>1, SizesAssumption DEF Splitting, ControlTypeOK, Stages
  <2> QED BY <1>1, <2>1, <2>2 DEF Splitting
<1>3. /\ Cardinality(rest) = Cardinality(main.todo) - 1
      /\ Cardinality(main.todo) \in Nat /\ Cardinality(rest) \in Nat
      /\ rest # {} => Cardinality(rest) > 0
      /\ rest \in SUBSET Stages
  <2>1. main.todo \in SUBSET Stages /\ rest \in SUBSET Stages
    BY <1>1 DEF ControlTypeOK
  <2> QED BY <1>2, <2>1, StageSets
<1>4. share \in Int /\ end \in Int /\ plan.cursor \in Int /\ NumLayers \in Int
  <2>1. plan.cursor \in Int /\ plan.total \in Int /\ plan.total > 0 /\ NumLayers \in Int
        /\ plan.weights[i] \in Int
    BY <1>1, <1>2, SizesAssumption DEF ControlTypeOK, Splitting
  <2>2. NumLayers * plan.weights[i] \in Int
    BY <2>1
  <2>3. Rounded(NumLayers * plan.weights[i], plan.total) \in Int
    BY <2>1, <2>2, RoundedIsInteger
  <2>4. share \in Int
    BY <2>1, <2>3, <1>3 DEF AtMost, AtLeast
  <2> QED BY <2>1, <2>4
<1> HIDE DEF i, rest, share, end
<1>5. ControlTypeOK'
  <2>1. main' \in [phase : Phases, line : Int, todo : SUBSET Stages, epoch : Int]
    <3>1. "prepare" \in Phases /\ "split" \in Phases
      BY DEF Phases, CallingPhases
    <3>2. main.line \in Int /\ main.epoch \in Int /\ main.epoch + 1 \in Int /\ alive \in SUBSET Stages
      BY <1>1 DEF ControlTypeOK
    <3>3. CASE rest = {}
      <4>1. main' = [phase |-> "prepare", line |-> main.line, todo |-> alive,
                     epoch |-> main.epoch + 1]
        BY <1>1, <3>3
      <4> QED BY <4>1, <3>1, <3>2
    <3>4. CASE rest # {}
      <4>1. main' = [main EXCEPT !.phase = "split", !.todo = rest]
        BY <1>1, <3>4
      <4>2. main \in [phase : Phases, line : Int, todo : SUBSET Stages, epoch : Int]
        BY <1>1 DEF ControlTypeOK
      <4> QED BY <4>1, <4>2, <3>1, <1>3
    <3> QED BY <3>3, <3>4
  <2>2. [plan.range EXCEPT ![i] = <<plan.cursor, end>>] \in [Stages -> Int \X Int]
    BY <1>1, <1>4 DEF ControlTypeOK
  <2>3. NoWeights \in [Stages -> Int]
    BY DEF NoWeights
  <2> QED BY <1>1, <1>4, <2>1, <2>2, <2>3 DEF ControlTypeOK
<1>6. /\ plan'.cursor = end
      /\ plan'.range[i] = <<plan.cursor, end>>
      /\ \A j \in alive \ {i} : plan'.range[j] = plan.range[j]
  BY <1>1, <1>2 DEF ControlTypeOK
<1>7. ASSUME NumStages <= NumLayers
      PROVE  /\ plan.cursor >= 0 /\ plan.cursor < end /\ end <= NumLayers
             /\ end + Cardinality(rest) <= NumLayers
             /\ Tiles(plan'.range, (alive \ main.todo) \cup {i}, end)
  <2>1. /\ plan.cursor >= 0
        /\ plan.cursor + Cardinality(main.todo) <= NumLayers
        /\ Tiles(plan.range, alive \ main.todo, plan.cursor)
    BY <1>1, <1>7 DEF Splitting
  <2>2. rest = {} => Cardinality(rest) = 0
    BY FS_EmptySet
  <2>3. share >= 1 /\ share <= NumLayers - plan.cursor - Cardinality(rest)
    <3>1. NumLayers - plan.cursor - Cardinality(rest) >= 1
      BY <1>3, <1>4, <2>1
    <3>2. Rounded(NumLayers * plan.weights[i], plan.total) \in Int
      <4>1. plan.weights[i] \in Int /\ plan.total \in Int /\ plan.total > 0 /\ NumLayers \in Int
        BY <1>1, <1>2, <1>4 DEF ControlTypeOK, Splitting
      <4>2. NumLayers * plan.weights[i] \in Int
        BY <4>1
      <4> QED BY <4>1, <4>2, RoundedIsInteger
    <3> QED BY <3>1, <3>2, <1>3, <1>4 DEF share, AtMost, AtLeast
  <2>4. /\ plan.cursor < end /\ end <= NumLayers
        /\ end + Cardinality(rest) <= NumLayers
    BY <1>3, <1>4, <2>1, <2>2, <2>3 DEF end
  <2> DEFINE S == alive \ main.todo
  <2>5. i \notin S /\ S \subseteq Int /\ \A j \in S : j < i /\ plan'.range[j] = plan.range[j]
                                               /\ plan.range[j] \in Int \X Int
    BY <1>1, <1>2, <1>6 DEF ControlTypeOK
  <2> HIDE DEF S
  <2>6. ASSUME NEW j \in S \cup {i}
        PROVE  0 <= plan'.range[j][1] /\ plan'.range[j][1] < plan'.range[j][2]
               /\ plan'.range[j][2] <= end
    <3>1. CASE j = i
      BY <3>1, <1>6, <2>1, <2>4, <1>4
    <3>2. CASE j \in S
      BY <3>2, <2>1, <2>4, <2>5, <1>4 DEF Tiles, S
    <3> QED BY <3>1, <3>2
  <2>7. ASSUME NEW j \in S \cup {i}, NEW k \in S \cup {i}, j < k
        PROVE  plan'.range[j][2] <= plan'.range[k][1]
    <3>1. CASE k = i
      <4>1. j \in S
        BY <3>1, <2>7, <1>2
      <4> QED BY <3>1, <4>1, <2>1, <2>5, <1>6 DEF Tiles, S
    <3>2. CASE k # i
      <4>1. k \in S /\ k < i /\ k \in Int /\ i \in Int
        BY <3>2, <2>5, <1>2
      <4>2. j \in S
        BY <4>1, <2>7
      <4> QED BY <4>1, <4>2, <2>1, <2>5, <2>7 DEF Tiles, S
    <3> QED BY <3>1, <3>2
  <2>8. ASSUME NEW x \in Int, 0 <= x, x < end
        PROVE  \E j \in S \cup {i} : plan'.range[j][1] <= x /\ x < plan'.range[j][2]
    <3>1. CASE x < plan.cursor
      <4>1. PICK j \in S : plan.range[j][1] <= x /\ x < plan.range[j][2]
        BY <3>1, <2>1, <2>8 DEF Tiles, S
      <4> QED BY <4>1, <2>5
    <3>2. CASE ~ (x < plan.cursor)
      BY <3>2, <2>8, <1>4, <1>6
    <3> QED BY <3>1, <3>2
  <2> QED BY <2>1, <2>4, <2>6, <2>7, <2>8 DEF S, Tiles
<1>8. CASE rest = {}
  <2>1. /\ main'.phase = "prepare" /\ end = NumLayers /\ alive' = alive
        /\ (alive \ main.todo) \cup {i} = alive
    <3>1. main'.phase = "prepare"
      BY <1>1, <1>8 DEF ControlTypeOK
    <3>2. main.todo = {i}
      BY <1>2, <1>8 DEF rest
    <3> QED BY <1>1, <1>2, <1>8, <3>1, <3>2 DEF end
  <2>2. NumStages <= NumLayers => Tiles(plan'.range, alive', NumLayers)
    BY <1>7, <2>1
  <2> QED BY <1>5, <2>1, <2>2 DEF SplitInv
<1>9. CASE rest # {}
  <2>1. /\ main'.phase = "split" /\ main'.todo = rest /\ alive' = alive
        /\ plan'.total = plan.total /\ plan'.cursor = end
    BY <1>1, <1>9 DEF ControlTypeOK
  <2>2. alive \ rest = (alive \ main.todo) \cup {i} /\ rest \subseteq alive
    BY <1>1, <1>2 DEF rest, Splitting
  <2>3. \A j \in alive \ rest, k \in rest : j < k
    <3> SUFFICES ASSUME NEW j \in alive \ rest, NEW k \in rest PROVE j < k
      OBVIOUS
    <3>1. CASE j = i
      BY <3>1, <1>2
    <3>2. CASE j # i
      <4>1. j \in alive \ main.todo /\ k \in main.todo
        BY <3>2, <2>2 DEF rest
      <4> QED BY <4>1, <1>1 DEF Splitting
    <3> QED BY <3>1, <3>2
  <2>4. NumStages <= NumLayers =>
          /\ end >= 0 /\ end + Cardinality(rest) <= NumLayers
          /\ Tiles(plan'.range, alive \ rest, end)
    BY <1>4, <1>7, <2>2
  <2>5. Splitting'
    BY <1>1, <1>9, <2>1, <2>2, <2>3, <2>4 DEF Splitting
  <2> QED BY <1>5, <2>1, <2>5 DEF SplitInv
<1> QED BY <1>8, <1>9

-----------------------------------------------------------------------------
\* Where Goto and NextLine lead.
LEMMA GotoTyped ==
  ASSUME ControlTypeOK, NEW phase \in Phases, NEW todo \in SUBSET Stages, Goto(phase, todo)
  PROVE  /\ main' \in [phase : Phases, line : Int, todo : SUBSET Stages, epoch : Int]
         /\ main'.phase = phase
BY DEF ControlTypeOK, Goto

\* Going on with the next line of the script keeps the type.
LEMMA NextLineTyped ==
  ASSUME ControlTypeOK, NextLine
  PROVE  /\ main' \in [phase : Phases, line : Int, todo : SUBSET Stages, epoch : Int]
         /\ main'.phase = "next"
<1>1. main' = [phase |-> "next", line |-> main.line + 1, todo |-> {}, epoch |-> main.epoch]
  BY DEF ControlTypeOK, NextLine
<1> QED BY <1>1 DEF ControlTypeOK, Phases, CallingPhases

\* A step that leaves plan and alive as they are, and does not enter the loop or the
\* calls of apply_plan, preserves the invariant.
LEMMA OtherPhasePreserves ==
  ASSUME SplitInv, UNCHANGED <<plan, alive>>,
         main' \in [phase : Phases, line : Int, todo : SUBSET Stages, epoch : Int],
         main'.phase \notin {"split", "prepare", "activate"}
  PROVE  SplitInv'
<1>1. ControlTypeOK'
  BY DEF SplitInv, ControlTypeOK
<1> QED BY <1>1 DEF SplitInv

\* Steps of workers and agents touch neither the plan nor the main thread.
LEMMA ControlUnchangedPreserves == SplitInv /\ UNCHANGED control => SplitInv'
BY DEF SplitInv, ControlTypeOK, Splitting, Tiles, control

\* apply_plan enters the loop with the whole model left to tile.
LEMMA StartPlanPreserves ==
  ASSUME SplitInv, NEW weights \in [Stages -> 0..MaxWeight],
         NEW total \in 0..(NumStages * MaxWeight), StartPlan(weights, total)
  PROVE  SplitInv'
<1>1. ControlTypeOK
  BY DEF SplitInv
<1>2. CASE alive = {}
  <2>1. main' \in [phase : Phases, line : Int, todo : SUBSET Stages, epoch : Int]
        /\ main'.phase = "failed" /\ UNCHANGED <<plan, alive>>
    BY <1>1, <1>2 DEF ControlTypeOK, StartPlan, Raise, Goto, Phases, CallingPhases
  <2> QED BY <2>1, OtherPhasePreserves
<1>3. CASE alive # {}
  <2>1. /\ main' = [main EXCEPT !.phase = "split", !.todo = alive]
        /\ plan' = [total |-> IF total = 0 THEN Cardinality(alive) ELSE total,
                    weights |-> weights, cursor |-> 0, range |-> [i \in Stages |-> NoRange]]
        /\ alive' = alive
    BY <1>3 DEF StartPlan, Goto
  <2>2. /\ Cardinality(alive) \in Nat /\ Cardinality(alive) > 0
        /\ Cardinality(alive) <= NumStages
    BY <1>1, <1>3, StageSets DEF ControlTypeOK
  <2>3. total \in Int /\ total >= 0 /\ weights \in [Stages -> Int]
    <3>1. NumStages * MaxWeight \in Int
      BY SizesAssumption, WeightAssumption
    <3> QED BY <3>1, WeightAssumption
  <2>4. main'.phase = "split" /\ main'.todo = alive
        /\ main' \in [phase : Phases, line : Int, todo : SUBSET Stages, epoch : Int]
    BY <1>1, <2>1 DEF ControlTypeOK, Phases, CallingPhases
  <2>5. ControlTypeOK'
    BY <1>1, <2>1, <2>2, <2>3, <2>4 DEF ControlTypeOK, NoRange
  <2>6. Tiles(plan'.range, {}, 0)
    BY DEF Tiles
  <2>7. Splitting'
    <3>1. main'.todo # {} /\ main'.todo \subseteq alive' /\ alive' \ main'.todo = {}
      BY <1>3, <2>1, <2>4
    <3>2. plan'.total > 0 /\ plan'.cursor = 0
      BY <2>1, <2>2, <2>3
    <3>3. NumStages <= NumLayers => 0 + Cardinality(main'.todo) <= NumLayers
      BY <2>2, <2>4, SizesAssumption
    <3>4. Tiles(plan'.range, alive' \ main'.todo, plan'.cursor)
      BY <2>6, <3>1, <3>2
    <3>5. plan'.cursor >= 0 /\ \A i \in alive' \ main'.todo, j \in main'.todo : i < j
      BY <3>1, <3>2
    <3>6. NumStages <= NumLayers => plan'.cursor + Cardinality(main'.todo) <= NumLayers
      BY <3>2, <3>3
    <3> QED BY <3>1, <3>2, <3>4, <3>5, <3>6 DEF Splitting
  <2> QED BY <2>4, <2>5, <2>7 DEF SplitInv
<1> QED BY <1>2, <1>3

\* The calls of apply_plan, retire_epoch and of the departure leave the split alone.
LEMMA MainReturnsPreserves ==
  ASSUME SplitInv, MainReturns
  PROVE  SplitInv'
<1>1. ControlTypeOK
  BY DEF SplitInv
<1> DEFINE rest == main.todo \ {First(main.todo)}
<1>2. /\ main.phase \in CallingPhases
      /\ plan' = plan
      /\ alive' = IF main.phase = "leave" THEN alive \ {Leaving} ELSE alive
      /\ IF ~ReturnedOk(Main) /\ main.phase \in {"prepare", "activate"} THEN Raise
         ELSE IF rest # {} THEN Goto(main.phase, rest)
         ELSE IF main.phase = "prepare" THEN Goto("activate", alive)
         ELSE NextLine
  BY DEF MainReturns
<1> HIDE DEF rest
<1>3. rest \in SUBSET Stages
  BY <1>1 DEF ControlTypeOK, rest
<1>4. \/ Raise
      \/ Goto(main.phase, rest)
      \/ main.phase = "prepare" /\ Goto("activate", alive)
      \/ NextLine
  BY <1>2, Zenon
<1>5. /\ main' \in [phase : Phases, line : Int, todo : SUBSET Stages, epoch : Int]
      /\ main'.phase # "split"
      /\ main'.phase \in {"prepare", "activate"} => main.phase \in {"prepare", "activate"}
  <2>1. main.phase \in Phases /\ "failed" \in Phases /\ "activate" \in Phases
        /\ main.phase # "split" /\ alive \in SUBSET Stages /\ {} \in SUBSET Stages
    BY <1>1, <1>2 DEF ControlTypeOK, Phases, CallingPhases
  <2>2. CASE Raise
    BY <2>1, <2>2, <1>1, GotoTyped DEF Raise
  <2>3. CASE Goto(main.phase, rest)
    BY <2>1, <2>3, <1>1, <1>3, GotoTyped
  <2>4. CASE main.phase = "prepare" /\ Goto("activate", alive)
    BY <2>1, <2>4, <1>1, GotoTyped
  <2>5. CASE NextLine
    BY <2>5, <1>1, NextLineTyped
  <2> QED BY <1>4, <2>2, <2>3, <2>4, <2>5
<1>6. alive' \in SUBSET Stages /\ (main.phase # "leave" => alive' = alive)
  BY <1>1, <1>2 DEF ControlTypeOK
<1>7. ControlTypeOK'
  BY <1>1, <1>2, <1>5, <1>6 DEF ControlTypeOK
<1>8. main'.phase \in {"prepare", "activate"} => alive' = alive
  BY <1>5, <1>6
<1> QED BY <1>2, <1>5, <1>7, <1>8 DEF SplitInv

\* The remaining steps of main go to a phase outside apply_plan.
LEMMA MainOtherPreserves ==
  ASSUME SplitInv,
         \/ Greet \/ NotReadyInTime \/ StartDeparture \/ StartRetire
         \/ StartRound \/ EndRound \/ Finish
  PROVE  SplitInv'
<1>1. ControlTypeOK
  BY DEF SplitInv
<1>2. UNCHANGED <<plan, alive>>
  BY DEF Greet, NotReadyInTime, StartDeparture, StartRetire, StartRound, EndRound, Finish
<1>3. \/ NextLine
      \/ \E phase \in {"next", "wait", "failed", "leave", "retire", "serve", "over"},
            todo \in {main.todo \ {First(main.todo)}, {}, {Leaving}, alive} : Goto(phase, todo)
  <2>1. CASE Greet
    BY <2>1 DEF Greet
  <2>2. CASE ~Greet
    BY <2>2, Zenon DEF NotReadyInTime, StartDeparture, StartRetire, StartRound, EndRound, Finish, Raise
  <2> QED BY <2>1, <2>2
<1>4. {Leaving} \in SUBSET Stages
  BY LeavingAssumption DEF Stages
<1>5. /\ main' \in [phase : Phases, line : Int, todo : SUBSET Stages, epoch : Int]
      /\ main'.phase \notin {"split", "prepare", "activate"}
  <2>1. CASE NextLine
    BY <2>1, <1>1, NextLineTyped
  <2>2. ASSUME NEW phase \in {"next", "wait", "failed", "leave", "retire", "serve", "over"},
               NEW todo \in {main.todo \ {First(main.todo)}, {}, {Leaving}, alive},
               Goto(phase, todo)
        PROVE  /\ main' \in [phase : Phases, line : Int, todo : SUBSET Stages, epoch : Int]
               /\ main'.phase \notin {"split", "prepare", "activate"}
    <3>1. phase \in Phases /\ todo \in SUBSET Stages
      BY <1>1, <1>4 DEF ControlTypeOK, Phases, CallingPhases
    <3> QED BY <3>1, <2>2, <1>1, GotoTyped
  <2> QED BY <1>3, <2>1, <2>2
<1> QED BY <1>2, <1>5, OtherPhasePreserves

\* Every step of the specification preserves the invariant.
LEMMA StepPreserves == SplitInv /\ [Next]_vars => SplitInv'
<1> SUFFICES ASSUME SplitInv, [Next]_vars PROVE SplitInv'
  OBVIOUS
<1>1. CASE MainStep
  BY <1>1, StartPlanPreserves, SplitStagePreserves, MainReturnsPreserves, MainOtherPreserves,
     ControlUnchangedPreserves, Zenon DEF MainStep, MainCalls
<1>2. CASE Next /\ ~MainStep
  <2>1. UNCHANGED control
    BY <1>2, Zenon DEF Next, WorkerStep, WorkerCalls, WorkerReturns, Break, AgentStep, AgentPrepare,
       AgentActivate, AgentRetire, AgentShutdown, ForwardBegins, ForwardEnds, AgentStarts,
       AgentRestarts
  <2> QED BY <2>1, ControlUnchangedPreserves
<1>3. CASE UNCHANGED vars
  BY <1>3, ControlUnchangedPreserves DEF vars, control
<1> QED BY <1>1, <1>2, <1>3

\* The invariant of the layer split, for every number of stages, layers and any weights.
THEOREM SplitInductive == Spec => []SplitInv
<1>1. Init => SplitInv
  BY SizesAssumption DEF Init, SplitInv, ControlTypeOK, Phases, CallingPhases, NoWeights, NoRange,
     Stages
<1> QED BY <1>1, StepPreserves, PTL DEF Spec

\* What apply_plan prepares and activates gives every stage a layer and every layer to
\* exactly one stage, unless there are more stages than layers.
THEOREM PlanAlwaysTilesModel == Spec => []PlanTilesModel
<1>1. SplitInv => PlanTilesModel
  <2> SUFFICES ASSUME SplitInv, main.phase \in {"prepare", "activate"}, NumStages <= NumLayers
               PROVE  /\ \A i \in alive : plan.range[i][1] < plan.range[i][2]
                      /\ \A i, j \in alive : i < j => plan.range[i][2] <= plan.range[j][1]
                      /\ \A x \in 0..(NumLayers - 1) :
                           \E i \in alive : plan.range[i][1] <= x /\ x < plan.range[i][2]
    BY DEF PlanTilesModel
  <2>1. Tiles(plan.range, alive, NumLayers)
    BY DEF SplitInv
  <2>2. \A x \in 0..(NumLayers - 1) : x \in Int /\ 0 <= x /\ x < NumLayers
    BY SizesAssumption
  <2> QED BY <2>1, <2>2 DEF Tiles
<1> QED BY <1>1, SplitInductive, PTL

-----------------------------------------------------------------------------
(* The script *)

\* Where the script plans, lets a machine go, retires an epoch and ends.
PlanLines == {1, BaseRequests + 3}
LeaveLine == BaseRequests + 2
RetireLine == BaseRequests + 5
LastLine == BaseRequests + 5 + Len(Concurrency)

\* What the lines of the script are made of.
Ids == {<<"req", i>> : i \in Nat} \cup {<<"after", 1>>} \cup {<<"conc", i>> : i \in Nat}
RunLines == [do : {"run"}, ids : SUBSET Ids, threads : BOOLEAN]
Lines == {Plan, Leave, Retire} \cup RunLines

\* A function on an initial stretch of the positive numbers is a sequence.
LEMMA FunctionIsSequence ==
  ASSUME NEW S, NEW n \in Nat, NEW f \in [1..n -> S]
  PROVE  f \in Seq(S) /\ Len(f) = n
<1>1. f \in Seq(S)
  BY SeqDef
<1>2. Len(f) \in Nat /\ 1..Len(f) = 1..n
  BY <1>1, LenProperties
<1> QED BY <1>1, <1>2

\* So are four elements.
LEMMA FourElements ==
  ASSUME NEW S, NEW a \in S, NEW b \in S, NEW c \in S, NEW d \in S
  PROVE  /\ <<a, b, c, d>> \in Seq(S) /\ Len(<<a, b, c, d>>) = 4
         /\ <<a, b, c, d>>[1] = a /\ <<a, b, c, d>>[2] = b
         /\ <<a, b, c, d>>[3] = c /\ <<a, b, c, d>>[4] = d
  OBVIOUS

\* The elements of two sequences, one after the other.
LEMMA ConcatLength ==
  ASSUME NEW S, NEW s \in Seq(S), NEW t \in Seq(S)
  PROVE  s \o t \in Seq(S) /\ Len(s \o t) = Len(s) + Len(t)
BY ConcatProperties

\* And what they are.
LEMMA ConcatElements ==
  ASSUME NEW S, NEW s \in Seq(S), NEW t \in Seq(S), NEW i \in 1..(Len(s) + Len(t))
  PROVE  (s \o t)[i] = IF i <= Len(s) THEN s[i] ELSE t[i - Len(s)]
BY ConcatProperties

\* The parts of the script.
BaseLines == [i \in 1..BaseRequests |-> Run({<<"req", i>>}, FALSE)]
Departure == <<Leave, Plan, Run({<<"after", 1>>}, FALSE), Retire>>
Rounds == [i \in 1..Len(Concurrency) |-> Run({<<"conc", k>> : k \in 1..Concurrency[i]}, TRUE)]

\* Each of them is a sequence of lines.
LEMMA ScriptParts ==
  /\ BaseRequests \in Nat /\ Len(Concurrency) \in Nat /\ LastLine \in Nat
  /\ BaseLines \in Seq(Lines) /\ Len(BaseLines) = BaseRequests
  /\ Departure \in Seq(Lines) /\ Len(Departure) = 4
  /\ Rounds \in Seq(Lines) /\ Len(Rounds) = Len(Concurrency)
  /\ \A i \in 1..BaseRequests : BaseLines[i] \in RunLines
  /\ \A i \in 1..Len(Concurrency) : Rounds[i] \in RunLines
  /\ Departure[1] = Leave /\ Departure[2] = Plan /\ Departure[3] \in RunLines /\ Departure[4] = Retire
<1>0. BaseRequests \in Nat /\ Len(Concurrency) \in Nat /\ LastLine \in Nat
  BY RoundsAssumption DEF LastLine
<1>1. \A i \in 1..Len(Concurrency) : Concurrency[i] \in Nat
  BY RoundsAssumption
<1>2. \A i \in 1..BaseRequests : BaseLines[i] \in RunLines
  BY <1>0 DEF BaseLines, Run, RunLines, Ids
<1>3. \A i \in 1..Len(Concurrency) : Rounds[i] \in RunLines
  BY <1>0, <1>1 DEF Rounds, Run, RunLines, Ids
<1>4. BaseLines \in [1..BaseRequests -> Lines] /\ Rounds \in [1..Len(Concurrency) -> Lines]
  BY <1>2, <1>3 DEF BaseLines, Rounds, Lines
<1>5. Run({<<"after", 1>>}, FALSE) \in RunLines
  BY DEF Run, RunLines, Ids
<1>6. Departure \in Seq(Lines) /\ Len(Departure) = 4
      /\ Departure[1] = Leave /\ Departure[2] = Plan /\ Departure[3] = Run({<<"after", 1>>}, FALSE)
      /\ Departure[4] = Retire
  <2>1. Leave \in Lines /\ Plan \in Lines /\ Retire \in Lines /\ Run({<<"after", 1>>}, FALSE) \in Lines
    BY <1>5 DEF Lines
  <2> DEFINE run == Run({<<"after", 1>>}, FALSE)
  <2>2. Departure = <<Leave, Plan, run, Retire>>
    BY DEF Departure
  <2> HIDE DEF run
  <2>3. run \in Lines
    BY <2>1 DEF run
  <2>4. /\ <<Leave, Plan, run, Retire>> \in Seq(Lines) /\ Len(<<Leave, Plan, run, Retire>>) = 4
        /\ <<Leave, Plan, run, Retire>>[1] = Leave /\ <<Leave, Plan, run, Retire>>[2] = Plan
        /\ <<Leave, Plan, run, Retire>>[3] = run /\ <<Leave, Plan, run, Retire>>[4] = Retire
    BY <2>1, <2>3, FourElements
  <2> QED BY <2>2, <2>4 DEF run
<1> QED BY <1>0, <1>2, <1>3, <1>4, <1>5, <1>6, FunctionIsSequence

\* Each line of the script is a line of one of its parts.
LEMMA ScriptSplit ==
  /\ Len(Script) = LastLine
  /\ Script[1] = Plan
  /\ \A l \in 2..(BaseRequests + 1) : Script[l] = BaseLines[l - 1]
  /\ \A l \in (BaseRequests + 2)..(BaseRequests + 5) : Script[l] = Departure[l - (BaseRequests + 1)]
  /\ \A l \in (BaseRequests + 6)..LastLine : Script[l] = Rounds[l - (BaseRequests + 5)]
<1> DEFINE first == <<Plan>>
           two == first \o BaseLines
           three == two \o Departure
<1>1. first \in Seq(Lines) /\ Len(first) = 1 /\ first[1] = Plan
  BY DEF Lines
<1>2. /\ BaseRequests \in Nat /\ Len(Concurrency) \in Nat /\ LastLine = BaseRequests + 5 + Len(Concurrency)
      /\ BaseLines \in Seq(Lines) /\ Len(BaseLines) = BaseRequests
      /\ Departure \in Seq(Lines) /\ Len(Departure) = 4
      /\ Rounds \in Seq(Lines) /\ Len(Rounds) = Len(Concurrency)
  BY ScriptParts DEF LastLine
<1> HIDE DEF first
<1>3. two \in Seq(Lines) /\ Len(two) = 1 + BaseRequests
  <2>1. two \in Seq(Lines) /\ Len(two) = Len(first) + Len(BaseLines)
    BY <1>1, <1>2, ConcatLength
  <2> QED BY <1>1, <1>2, <2>1
<1>4. ASSUME NEW i \in 1..(1 + BaseRequests)
      PROVE  two[i] = IF i <= 1 THEN first[i] ELSE BaseLines[i - 1]
  <2>1. i \in 1..(Len(first) + Len(BaseLines))
    BY <1>1, <1>2
  <2>2. two[i] = IF i <= Len(first) THEN first[i] ELSE BaseLines[i - Len(first)]
    BY <1>1, <1>2, <2>1, ConcatElements
  <2> QED BY <1>1, <2>2
<1> HIDE DEF two
<1>5. three \in Seq(Lines) /\ Len(three) = BaseRequests + 5
  <2>1. three \in Seq(Lines) /\ Len(three) = Len(two) + Len(Departure)
    BY <1>2, <1>3, ConcatLength
  <2> QED BY <1>2, <1>3, <2>1
<1>6. ASSUME NEW i \in 1..(BaseRequests + 5)
      PROVE  three[i] = IF i <= 1 + BaseRequests THEN two[i] ELSE Departure[i - (1 + BaseRequests)]
  <2>1. i \in 1..(Len(two) + Len(Departure))
    BY <1>2, <1>3
  <2>2. three[i] = IF i <= Len(two) THEN two[i] ELSE Departure[i - Len(two)]
    BY <1>2, <1>3, <2>1, ConcatElements
  <2> QED BY <1>3, <2>2
<1> HIDE DEF three
<1>7. Len(three \o Rounds) = LastLine
  <2>1. Len(three \o Rounds) = Len(three) + Len(Rounds)
    BY <1>2, <1>5, ConcatLength
  <2> QED BY <1>2, <1>5, <2>1
<1>8. ASSUME NEW i \in 1..LastLine
      PROVE  (three \o Rounds)[i] = IF i <= BaseRequests + 5 THEN three[i] ELSE Rounds[i - (BaseRequests + 5)]
  <2>1. i \in 1..(Len(three) + Len(Rounds))
    BY <1>2, <1>5
  <2>2. (three \o Rounds)[i] = IF i <= Len(three) THEN three[i] ELSE Rounds[i - Len(three)]
    BY <1>2, <1>5, <2>1, ConcatElements
  <2> QED BY <1>5, <2>2
<1>9. Script = three \o Rounds
  BY DEF Script, first, two, three, BaseLines, Departure, Rounds
<1>10. Script[1] = Plan
  <2>1. 1 \in 1..LastLine /\ 1 \in 1..(BaseRequests + 5) /\ 1 \in 1..(1 + BaseRequests)
        /\ 1 <= BaseRequests + 5 /\ 1 <= 1 + BaseRequests
    BY <1>2
  <2>2. (three \o Rounds)[1] = three[1]
    BY <1>8, <2>1
  <2>3. three[1] = two[1]
    BY <1>6, <2>1
  <2>4. two[1] = first[1]
    BY <1>4, <2>1
  <2> QED BY <1>1, <1>9, <2>2, <2>3, <2>4
<1>11. ASSUME NEW l \in 2..(BaseRequests + 1) PROVE Script[l] = BaseLines[l - 1]
  <2>1. l \in 1..LastLine /\ l \in 1..(BaseRequests + 5) /\ l \in 1..(1 + BaseRequests)
        /\ l <= BaseRequests + 5 /\ l <= 1 + BaseRequests /\ ~ (l <= 1)
    BY <1>2
  <2> QED BY <1>4, <1>6, <1>8, <1>9, <2>1
<1>12. ASSUME NEW l \in (BaseRequests + 2)..(BaseRequests + 5)
       PROVE  Script[l] = Departure[l - (BaseRequests + 1)]
  <2>1. l \in 1..LastLine /\ l \in 1..(BaseRequests + 5)
        /\ l <= BaseRequests + 5 /\ ~ (l <= 1 + BaseRequests)
        /\ l - (1 + BaseRequests) = l - (BaseRequests + 1)
    BY <1>2
  <2> QED BY <1>6, <1>8, <1>9, <2>1
<1>13. ASSUME NEW l \in (BaseRequests + 6)..LastLine
       PROVE  Script[l] = Rounds[l - (BaseRequests + 5)]
  <2>1. l \in 1..LastLine /\ ~ (l <= BaseRequests + 5)
    BY <1>2
  <2> QED BY <1>8, <1>9, <2>1
<1> QED BY <1>7, <1>9, <1>10, <1>11, <1>12, <1>13

\* What main does at each line.
LEMMA ScriptLines ==
  /\ Len(Script) = LastLine /\ LastLine \in Nat /\ BaseRequests \in Nat
  /\ RetireLine <= LastLine
  /\ \A l \in 1..LastLine :
       /\ l \in PlanLines => Script[l] = Plan
       /\ l = LeaveLine => Script[l] = Leave
       /\ l = RetireLine => Script[l] = Retire
       /\ l \notin PlanLines \cup {LeaveLine, RetireLine} => Script[l] \in RunLines
<1>1. /\ BaseRequests \in Nat /\ Len(Concurrency) \in Nat
      /\ LastLine \in Nat /\ LastLine = BaseRequests + 5 + Len(Concurrency)
  BY ScriptParts DEF LastLine
<1>2. Script[BaseRequests + 2] = Leave /\ Script[BaseRequests + 3] = Plan
      /\ Script[BaseRequests + 4] \in RunLines /\ Script[BaseRequests + 5] = Retire
  <2>1. \A l \in (BaseRequests + 2)..(BaseRequests + 5) : Script[l] = Departure[l - (BaseRequests + 1)]
    BY ScriptSplit
  <2>2. /\ (BaseRequests + 2) - (BaseRequests + 1) = 1 /\ (BaseRequests + 3) - (BaseRequests + 1) = 2
        /\ (BaseRequests + 4) - (BaseRequests + 1) = 3 /\ (BaseRequests + 5) - (BaseRequests + 1) = 4
    BY <1>1
  <2>3. /\ Script[BaseRequests + 2] = Departure[1] /\ Script[BaseRequests + 3] = Departure[2]
        /\ Script[BaseRequests + 4] = Departure[3] /\ Script[BaseRequests + 5] = Departure[4]
    <3>1. ASSUME NEW k \in 2..5
          PROVE  Script[BaseRequests + k] = Departure[(BaseRequests + k) - (BaseRequests + 1)]
      <4>1. BaseRequests + k \in (BaseRequests + 2)..(BaseRequests + 5)
        BY <1>1
      <4> QED BY <2>1, <4>1
    <3> QED BY <2>2, <3>1
  <2> QED BY <2>3, ScriptParts
<1>3. ASSUME NEW l \in 1..LastLine, l \in 2..(BaseRequests + 1) PROVE Script[l] \in RunLines
  <2>1. l - 1 \in 1..BaseRequests
    BY <1>1, <1>3
  <2> QED BY <1>3, <2>1, ScriptSplit, ScriptParts
<1>4. ASSUME NEW l \in (BaseRequests + 6)..LastLine PROVE Script[l] \in RunLines
  <2>1. l - (BaseRequests + 5) \in 1..Len(Concurrency)
    BY <1>1
  <2> QED BY <2>1, ScriptSplit, ScriptParts
<1>5. \A l \in 1..LastLine :
        \/ l = 1 \/ l \in 2..(BaseRequests + 1) \/ l = BaseRequests + 2 \/ l = BaseRequests + 3
        \/ l = BaseRequests + 4 \/ l = BaseRequests + 5 \/ l \in (BaseRequests + 6)..LastLine
  BY <1>1
<1>6. \A l \in 1..LastLine : l \notin PlanLines \cup {LeaveLine, RetireLine} => Script[l] \in RunLines
  BY <1>2, <1>3, <1>4, <1>5 DEF PlanLines, LeaveLine, RetireLine
<1>7. \A l \in 1..LastLine :
       /\ l \in PlanLines => Script[l] = Plan
       /\ l = LeaveLine => Script[l] = Leave
       /\ l = RetireLine => Script[l] = Retire
  BY <1>2, ScriptSplit DEF PlanLines, LeaveLine, RetireLine
<1> QED BY <1>1, <1>6, <1>7, ScriptSplit DEF RetireLine

\* The lines by what they do, and the identifiers in them.
LEMMA LineKinds ==
  ASSUME NEW l \in 1..LastLine
  PROVE  /\ Script[l].do = "plan" <=> l \in PlanLines
         /\ Script[l].do = "leave" <=> l = LeaveLine
         /\ Script[l].do = "retire" <=> l = RetireLine
         /\ Script[l].do = "run" <=> l \notin PlanLines \cup {LeaveLine, RetireLine}
         /\ Script[l].ids \in SUBSET Ids
<1>1. /\ Plan.do = "plan" /\ Leave.do = "leave" /\ Retire.do = "retire"
      /\ Plan.ids = {} /\ Leave.ids = {} /\ Retire.ids = {}
  BY DEF Plan, Leave, Retire
<1>2. \A x \in RunLines : x.do = "run" /\ x.ids \in SUBSET Ids
  BY DEF RunLines
<1>3. BaseRequests \in Nat
  BY ScriptLines
<1>4. CASE l \in PlanLines
  <2>1. l \notin {LeaveLine, RetireLine}
    BY <1>3, <1>4 DEF PlanLines, LeaveLine, RetireLine
  <2> QED BY <1>1, <1>4, <2>1, ScriptLines
<1>5. CASE l = LeaveLine
  <2>1. l \notin PlanLines /\ l # RetireLine
    BY <1>3, <1>5 DEF PlanLines, LeaveLine, RetireLine
  <2> QED BY <1>1, <1>5, <2>1, ScriptLines
<1>6. CASE l = RetireLine
  <2>1. l \notin PlanLines /\ l # LeaveLine
    BY <1>3, <1>6 DEF PlanLines, LeaveLine, RetireLine
  <2> QED BY <1>1, <1>6, <2>1, ScriptLines
<1>7. CASE l \notin PlanLines \cup {LeaveLine, RetireLine}
  <2>1. Script[l] \in RunLines
    BY <1>7, ScriptLines
  <2> QED BY <1>2, <1>7, <2>1
<1> QED BY <1>4, <1>5, <1>6, <1>7

\* Two plans are made.
LEMMA TwoEpochs == MaxEpoch = 2 /\ Epochs = 1..2
<1>1. {i \in 1..Len(Script) : Script[i] = Plan} = {1} \cup {BaseRequests + 3}
  <2>1. 1 \in 1..LastLine /\ BaseRequests + 3 \in 1..LastLine
    BY ScriptLines DEF RetireLine
  <2>2. ASSUME NEW i \in 1..LastLine, Script[i] = Plan PROVE i \in PlanLines
    BY <2>2, LineKinds DEF Plan
  <2>3. \A i \in 1..LastLine : i \in PlanLines => Script[i] = Plan
    BY ScriptLines
  <2>4. Len(Script) = LastLine
    BY ScriptLines
  <2> QED BY <2>1, <2>2, <2>3, <2>4 DEF PlanLines
<1>2. Cardinality({1} \cup {BaseRequests + 3}) = 2
  <2>1. IsFiniteSet({1}) /\ Cardinality({1}) = 1
    BY FS_Singleton
  <2>2. BaseRequests + 3 \notin {1}
    BY ScriptLines
  <2> QED BY <2>1, <2>2, FS_AddElement
<1> QED BY <1>1, <1>2 DEF MaxEpoch, Epochs

\* Requests are served by their own threads, never by main.
LEMMA RequestIds == Requests \subseteq Ids /\ Main \notin Requests /\ Main \in Callers /\ Requests \subseteq Callers
<1>1. Requests \subseteq Ids
  BY LineKinds, ScriptLines DEF Requests
<1>2. Main \notin Ids
  BY DEF Main, Ids
<1> QED BY <1>1, <1>2 DEF Callers

-----------------------------------------------------------------------------
(* The line of the script and the epoch *)

\* How many plans the lines before l make.
PlansBefore(l) == IF l = 1 THEN 0 ELSE IF l <= BaseRequests + 3 THEN 1 ELSE 2

\* The plan in force is complete.
Planned ==
  \/ main.phase \in {"prepare", "activate"}
  \/ main.phase \in {"next", "serve", "retire", "leave"} /\ main.line \notin PlanLines

\* The epoch counts the plans made by this line; outside a plan, main acts on the line it is on.
LineInv ==
  /\ main.line \in 1..(LastLine + 1)
  /\ main.phase = "wait" => main.line = 1
  /\ main.phase \in {"split", "prepare", "activate"} => main.line \in PlanLines
  /\ main.phase = "leave" => main.line = LeaveLine /\ main.todo = {Leaving}
  /\ main.phase = "retire" => main.line = RetireLine
  /\ main.phase = "serve" => main.line \in 1..LastLine /\ Script[main.line].do = "run"
  /\ main.phase \notin {"prepare", "activate", "failed"} => main.epoch = PlansBefore(main.line)
  /\ main.phase \in {"prepare", "activate"} => main.epoch = PlansBefore(main.line) + 1
  /\ main.epoch \in 0..2
  /\ main.phase \in CallingPhases \cup {"wait"} => main.todo # {}
  /\ main.phase \in {"prepare", "activate", "retire"} => main.todo \subseteq alive
  /\ Planned => alive # {}
  /\ plan.cursor \in (-NumStages)..NumLayers

\* Where Goto and NextLine lead, as records.
LEMMA Moves ==
  ASSUME ControlTypeOK
  PROVE  /\ \A phase, todo : Goto(phase, todo) =>
              main' = [phase |-> phase, line |-> main.line, todo |-> todo, epoch |-> main.epoch]
         /\ NextLine => main' = [phase |-> "next", line |-> main.line + 1, todo |-> {}, epoch |-> main.epoch]
         /\ Raise => main' = [phase |-> "failed", line |-> main.line, todo |-> {}, epoch |-> main.epoch]
BY DEF ControlTypeOK, Goto, NextLine, Raise

\* The line that main is at, when there is one.
LEMMA AtLine ==
  ASSUME LineInv, main.line <= Len(Script)
  PROVE  /\ main.line \in 1..LastLine
         /\ Script[main.line].do = "plan" <=> main.line \in PlanLines
         /\ Script[main.line].do = "leave" <=> main.line = LeaveLine
         /\ Script[main.line].do = "retire" <=> main.line = RetireLine
         /\ Script[main.line].do = "run" <=> main.line \notin PlanLines \cup {LeaveLine, RetireLine}
<1>1. main.line \in 1..LastLine
  BY ScriptLines DEF LineInv
<1> QED BY <1>1, LineKinds

\* The lines of the script are in order.
LEMMA LineOrder ==
  /\ BaseRequests \in Nat /\ LastLine \in Nat /\ RetireLine <= LastLine
  /\ PlanLines = {1, BaseRequests + 3} /\ LeaveLine = BaseRequests + 2 /\ RetireLine = BaseRequests + 5
BY ScriptLines DEF PlanLines, LeaveLine, RetireLine

\* The cut of one stage stays within the model, and not far below.
LEMMA SplitStageCursor ==
  ASSUME SplitInv, LineInv, SplitStage
  PROVE  plan'.cursor \in (-NumStages)..NumLayers
<1> DEFINE i == First(main.todo)
           rest == main.todo \ {i}
           asked == Rounded(NumLayers * plan.weights[i], plan.total)
           share == AtMost(AtLeast(1, asked), NumLayers - plan.cursor - Cardinality(rest))
           end == IF rest = {} THEN NumLayers ELSE plan.cursor + share
<1>1. ControlTypeOK /\ Splitting /\ main.todo # {} /\ main.todo \in SUBSET Stages
  BY DEF SplitInv, SplitStage, ControlTypeOK, Splitting
<1>2. plan'.cursor = end
  BY DEF SplitStage
<1>3. /\ NumLayers \in Nat \ {0} /\ NumStages \in Nat \ {0}
      /\ plan.cursor \in Int /\ -NumStages <= plan.cursor
  BY SizesAssumption DEF LineInv
<1>4. Cardinality(rest) \in Nat /\ Cardinality(rest) <= NumStages
  BY <1>1, StageSets
<1>5. asked \in Int
  <2>1. i \in Stages
    BY <1>1, FirstIsLeast
  <2>2. plan.weights[i] \in Int /\ plan.total \in Int /\ plan.total > 0
    BY <1>1, <2>1 DEF ControlTypeOK, Splitting
  <2>3. NumLayers * plan.weights[i] \in Int
    BY <2>2, <1>3
  <2> QED BY <2>2, <2>3, RoundedIsInteger
<1> HIDE DEF i, rest, asked
<1>6. end \in (-NumStages)..NumLayers
  BY <1>3, <1>4, <1>5 DEF AtMost, AtLeast
<1> QED BY <1>2, <1>6

\* A step of main keeps the epoch in line with the script.
LEMMA LineKept ==
  ASSUME SplitInv, LineInv, MainStep
  PROVE  LineInv'
<1> USE LineOrder
<1>1. ControlTypeOK /\ main.phase \in Phases
  BY DEF SplitInv, ControlTypeOK
<1>2. CASE Greet
  <2> DEFINE rest == main.todo \ {First(main.todo)}
  <2>1. main.phase = "wait" /\ UNCHANGED <<plan, alive>> /\ (IF rest = {} THEN Goto("next", rest) ELSE Goto("wait", rest))
    BY <1>2 DEF Greet
  <2> HIDE DEF rest
  <2>2. CASE rest = {}
    <3>1. main' = [phase |-> "next", line |-> main.line, todo |-> rest, epoch |-> main.epoch]
      BY <1>1, <2>1, <2>2, Moves
    <3> QED BY <2>1, <3>1 DEF LineInv, Planned, PlansBefore, CallingPhases
  <2>3. CASE rest # {}
    <3>1. main' = [phase |-> "wait", line |-> main.line, todo |-> rest, epoch |-> main.epoch]
      BY <1>1, <2>1, <2>3, Moves
    <3> QED BY <2>1, <2>3, <3>1 DEF LineInv, Planned, PlansBefore, CallingPhases
  <2> QED BY <2>2, <2>3
<1>3. CASE NotReadyInTime
  BY <1>1, <1>3, Moves DEF NotReadyInTime, LineInv, Planned, CallingPhases
<1>4. ASSUME NEW weights \in [Stages -> 0..MaxWeight], NEW total \in 0..(NumStages * MaxWeight),
             StartPlan(weights, total)
      PROVE  LineInv'
  <2>1. main.phase = "next" /\ main.line \in PlanLines /\ alive' = alive
    BY <1>4, AtLine DEF StartPlan
  <2>2. CASE alive = {}
    <3>1. Raise /\ UNCHANGED plan
      BY <1>4, <2>2 DEF StartPlan
    <3>2. main' = [phase |-> "failed", line |-> main.line, todo |-> {}, epoch |-> main.epoch]
      BY <1>1, <3>1, Moves
    <3> QED BY <2>1, <3>1, <3>2 DEF LineInv, Planned, CallingPhases
  <2>3. CASE alive # {}
    <3>0. Goto("split", alive)
          /\ plan' = [total |-> IF total = 0 THEN Cardinality(alive) ELSE total,
                      weights |-> weights, cursor |-> 0, range |-> [i \in Stages |-> NoRange]]
      BY <1>4, <2>3 DEF StartPlan
    <3>1. main' = [phase |-> "split", line |-> main.line, todo |-> alive, epoch |-> main.epoch]
          /\ plan'.cursor = 0
      BY <1>1, <3>0, Moves
    <3> QED BY <2>1, <2>3, <3>1, SizesAssumption DEF LineInv, Planned, PlansBefore, CallingPhases
  <2> QED BY <2>2, <2>3
<1>5. CASE SplitStage
  <2>1. plan'.cursor \in (-NumStages)..NumLayers
    BY <1>5, SplitStageCursor
  <2>2. main.phase = "split" /\ alive' = alive /\ alive # {}
    BY <1>5 DEF SplitStage, SplitInv, Splitting
  <2>3. \/ main' = [phase |-> "prepare", line |-> main.line, todo |-> alive, epoch |-> main.epoch + 1]
        \/ main' = [phase |-> "split", line |-> main.line, todo |-> main.todo \ {First(main.todo)},
                    epoch |-> main.epoch]
    BY <1>1, <1>5, Moves DEF SplitStage
  <2> QED BY <2>1, <2>2, <2>3 DEF LineInv, Planned, PlansBefore, CallingPhases
<1>6. CASE MainCalls
  BY <1>6 DEF MainCalls, control, LineInv, Planned
<1>7. CASE MainReturns
  <2> DEFINE rest == main.todo \ {First(main.todo)}
  <2>1. /\ main.phase \in CallingPhases
        /\ plan' = plan
        /\ alive' = IF main.phase = "leave" THEN alive \ {Leaving} ELSE alive
        /\ \/ Raise
           \/ rest # {} /\ Goto(main.phase, rest)
           \/ main.phase = "prepare" /\ Goto("activate", alive)
           \/ main.phase # "prepare" /\ NextLine
    BY <1>7, Zenon DEF MainReturns
  <2>2. main.phase = "leave" => rest = {}
    <3>1. main.phase = "leave" => First(main.todo) \in main.todo
      BY LeavingAssumption, FirstIsLeast DEF LineInv, Stages
    <3> QED BY <3>1 DEF LineInv
  <2> HIDE DEF rest
  <2>3. rest \subseteq main.todo
    BY DEF rest
  <2>4. CASE Raise
    BY <1>1, <2>1, <2>4, Moves DEF LineInv, Planned, CallingPhases
  <2>5. CASE rest # {} /\ Goto(main.phase, rest)
    BY <1>1, <2>1, <2>2, <2>3, <2>5, Moves DEF LineInv, Planned, CallingPhases, PlansBefore
  <2>6. CASE main.phase = "prepare" /\ Goto("activate", alive)
    BY <1>1, <2>1, <2>6, Moves DEF LineInv, Planned, CallingPhases, PlansBefore
  <2>7. CASE main.phase # "prepare" /\ NextLine
    BY <1>1, <2>1, <2>7, Moves DEF LineInv, Planned, CallingPhases, PlansBefore
  <2> QED BY <2>1, <2>4, <2>5, <2>6, <2>7
<1>8. CASE StartDeparture
  <2>1. main.line = LeaveLine
    BY <1>8, AtLine DEF StartDeparture
  <2>2. main.phase = "next" /\ UNCHANGED <<plan, alive>>
        /\ main' = [phase |-> "leave", line |-> main.line, todo |-> {Leaving}, epoch |-> main.epoch]
    BY <1>1, <1>8, Moves DEF StartDeparture
  <2>3. main.line \notin PlanLines
    BY <2>1
  <2> QED BY <2>1, <2>2, <2>3 DEF LineInv, Planned, CallingPhases, PlansBefore
<1>9. CASE StartRetire
  <2>1. main.line = RetireLine
    BY <1>9, AtLine DEF StartRetire
  <2> QED BY <1>1, <1>9, <2>1, Moves DEF StartRetire, LineInv, Planned, CallingPhases, PlansBefore
<1>10. CASE StartRound
  <2>1. main.line \in 1..LastLine /\ Script[main.line].do = "run" /\ main.line \notin PlanLines
    BY <1>10, AtLine DEF StartRound
  <2>2. main.phase = "next" /\ UNCHANGED <<plan, alive>>
        /\ main' = [phase |-> "serve", line |-> main.line, todo |-> {}, epoch |-> main.epoch]
    BY <1>1, <1>10, Moves DEF StartRound
  <2> QED BY <2>1, <2>2 DEF LineInv, Planned, CallingPhases, PlansBefore
<1>11. CASE EndRound
  <2>1. main.line \in 1..LastLine /\ main.line \notin PlanLines \cup {LeaveLine, RetireLine}
    BY <1>11, LineKinds DEF LineInv, EndRound
  <2>2. (Raise \/ NextLine) /\ main.phase = "serve" /\ UNCHANGED <<plan, alive>>
    BY <1>11 DEF EndRound
  <2> QED BY <1>1, <2>1, <2>2, Moves DEF LineInv, Planned, CallingPhases, PlansBefore
<1>12. CASE Finish
  BY <1>1, <1>12, Moves DEF Finish, LineInv, Planned, CallingPhases, PlansBefore
<1> QED BY <1>2, <1>3, <1>4, <1>5, <1>6, <1>7, <1>8, <1>9, <1>10, <1>11, <1>12 DEF MainStep

-----------------------------------------------------------------------------
(* The ranges of the plan in force are linked *)

\* The order of the stages in a set.
Follows(S, i, j) == i < j /\ \A k \in S : k <= i \/ j <= k
LeastIn(S, i) == \A k \in S : i <= k
GreatestIn(S, i) == \A k \in S : k <= i

\* The ranges of the stages in S follow each other from 0 to end.
Linked(range, S, end) ==
  /\ \A i \in S : LeastIn(S, i) => range[i][1] = 0
  /\ \A i, j \in S : Follows(S, i, j) => range[i][2] = range[j][1]
  /\ \A i \in S : GreatestIn(S, i) => range[i][2] = end

\* Once a plan is made, the ranges of the stages alive are linked from 0 to NumLayers.
ChainInv ==
  /\ main.phase = "split" =>
       /\ Linked(plan.range, alive \ main.todo, plan.cursor)
       /\ alive \ main.todo = {} => plan.cursor = 0
  /\ Planned => Linked(plan.range, alive, NumLayers)

\* A range put behind the others prolongs the chain.
LEMMA LinkedExtends ==
  ASSUME NEW S \in SUBSET Stages, NEW i \in Stages, \A j \in S : j < i,
         NEW range \in [Stages -> Int \X Int], NEW cursor \in Int, NEW end \in Int,
         Linked(range, S, cursor), S = {} => cursor = 0
  PROVE  Linked([range EXCEPT ![i] = <<cursor, end>>], S \cup {i}, end)
<1> DEFINE longer == [range EXCEPT ![i] = <<cursor, end>>]
           T == S \cup {i}
<1>1. /\ longer[i] = <<cursor, end>> /\ longer[i][1] = cursor /\ longer[i][2] = end
      /\ \A j \in S : longer[j] = range[j]
  <2>1. i \notin S
    BY SizesAssumption DEF Stages
  <2>2. longer[i] = <<cursor, end>>
    OBVIOUS
  <2>3. \A j \in S : longer[j] = range[j]
    BY <2>1
  <2> HIDE DEF longer
  <2> QED BY <2>2, <2>3
<1>2. S \subseteq Int /\ i \in Int
  BY SizesAssumption DEF Stages
<1> HIDE DEF longer
<1>3. ASSUME NEW j \in T, LeastIn(T, j) PROVE longer[j][1] = 0
  <2>1. CASE j = i
    <3>1. S = {}
      BY <1>2, <1>3, <2>1 DEF LeastIn
    <3> QED BY <1>1, <2>1, <3>1
  <2>2. CASE j # i
    BY <1>1, <1>3, <2>2 DEF LeastIn, Linked
  <2> QED BY <2>1, <2>2
<1>4. ASSUME NEW j \in T, NEW k \in T, Follows(T, j, k) PROVE longer[j][2] = longer[k][1]
  <2>1. j \in S
    BY <1>2, <1>4 DEF Follows
  <2>2. CASE k = i
    <3>1. GreatestIn(S, j)
      BY <1>2, <1>4, <2>2 DEF Follows, GreatestIn
    <3> QED BY <1>1, <2>1, <2>2, <3>1 DEF Linked
  <2>3. CASE k # i
    <3>1. k \in S /\ Follows(S, j, k)
      BY <1>4, <2>3 DEF Follows
    <3> QED BY <1>1, <2>1, <3>1 DEF Linked
  <2> QED BY <2>2, <2>3
<1>5. ASSUME NEW j \in T, GreatestIn(T, j) PROVE longer[j][2] = end
  <2>1. j = i
    BY <1>2, <1>5 DEF GreatestIn
  <2> QED BY <1>1, <2>1
<1> QED BY <1>3, <1>4, <1>5 DEF Linked, longer

\* Main steps outside the loop of split_layers keep the chain of a complete plan.
LEMMA PlannedBefore ==
  ASSUME SplitInv, LineInv, MainStep, ~SplitStage, Planned'
  PROVE  Planned /\ UNCHANGED <<plan, alive>>
<1> USE LineOrder
<1>1. ControlTypeOK /\ main.phase \in Phases /\ main.line \in Int
  BY DEF SplitInv, ControlTypeOK
<1>2. CASE Greet
  <2>1. main'.phase \in {"next", "wait"} /\ main'.line = main.line /\ main.phase = "wait"
    BY <1>1, <1>2, Moves DEF Greet
  <2> QED BY <2>1 DEF Planned, LineInv
<1>3. CASE NotReadyInTime
  BY <1>1, <1>3, Moves DEF NotReadyInTime, Planned
<1>4. ASSUME NEW weights \in [Stages -> 0..MaxWeight], NEW total \in 0..(NumStages * MaxWeight),
             StartPlan(weights, total)
      PROVE  FALSE
  <2>1. Raise \/ Goto("split", alive)
    BY <1>4 DEF StartPlan
  <2>2. main'.phase \in {"failed", "split"}
    BY <1>1, <2>1, Moves
  <2> QED BY <2>2 DEF Planned
<1>6. CASE MainCalls
  BY <1>6 DEF MainCalls, control, Planned
<1>7. CASE MainReturns
  <2> DEFINE rest == main.todo \ {First(main.todo)}
  <2>1. /\ main.phase \in CallingPhases
        /\ plan' = plan
        /\ alive' = IF main.phase = "leave" THEN alive \ {Leaving} ELSE alive
        /\ \/ Raise
           \/ rest # {} /\ Goto(main.phase, rest)
           \/ main.phase = "prepare" /\ Goto("activate", alive)
           \/ main.phase # "prepare" /\ NextLine
    BY <1>7, Zenon DEF MainReturns
  <2>2. main.phase = "leave" => rest = {}
    <3>1. main.phase = "leave" => First(main.todo) \in main.todo
      BY LeavingAssumption, FirstIsLeast DEF LineInv, Stages
    <3> QED BY <3>1 DEF LineInv
  <2> HIDE DEF rest
  <2>3. CASE Raise
    BY <1>1, <2>3, Moves DEF Planned
  <2>4. CASE rest # {} /\ Goto(main.phase, rest)
    BY <1>1, <2>1, <2>2, <2>4, Moves DEF Planned
  <2>5. CASE main.phase = "prepare" /\ Goto("activate", alive)
    BY <1>1, <2>1, <2>5, Moves DEF Planned
  <2>6. CASE main.phase # "prepare" /\ NextLine
    <3>1. main'.line = main.line + 1
      BY <1>1, <2>6, Moves
    <3>2. main.phase # "leave"
      <4>1. main'.phase = "next"
        BY <1>1, <2>6, Moves
      <4> QED BY <3>1, <4>1 DEF Planned, LineInv
    <3>3. Planned
      BY <2>1, <2>6, <3>2 DEF Planned, LineInv, CallingPhases
    <3> QED BY <2>1, <3>2, <3>3
  <2> QED BY <2>1, <2>3, <2>4, <2>5, <2>6
<1>8. CASE StartDeparture \/ StartRetire \/ StartRound
  <2>1. /\ main.phase = "next" /\ UNCHANGED <<plan, alive>>
        /\ Goto("leave", {Leaving}) \/ Goto("retire", alive) \/ Goto("serve", {})
    BY <1>8 DEF StartDeparture, StartRetire, StartRound
  <2>2. main'.line = main.line /\ main'.phase \in {"leave", "retire", "serve"}
    BY <1>1, <2>1, Moves
  <2> QED BY <2>1, <2>2 DEF Planned
<1>11. CASE EndRound
  <2>1. main.line \in 1..LastLine /\ main.line \notin PlanLines
    BY <1>11, LineKinds DEF LineInv, EndRound
  <2>2. main.phase = "serve" /\ UNCHANGED <<plan, alive>>
    BY <1>11 DEF EndRound
  <2> QED BY <2>1, <2>2 DEF Planned
<1>12. CASE Finish
  BY <1>1, <1>12, Moves DEF Finish, Planned
<1> QED BY <1>2, <1>3, <1>4, <1>6, <1>7, <1>8, <1>11, <1>12 DEF MainStep

\* A step of main keeps the plan in force linked.
LEMMA ChainKept ==
  ASSUME SplitInv, LineInv, ChainInv, MainStep
  PROVE  ChainInv'
<1>1. ControlTypeOK
  BY DEF SplitInv
<1>2. CASE SplitStage
  <2> DEFINE i == First(main.todo)
             rest == main.todo \ {i}
             done == alive \ main.todo
             end == plan'.cursor
  <2>1. /\ main.phase = "split" /\ Splitting /\ alive' = alive
        /\ plan'.range = [plan.range EXCEPT ![i] = <<plan.cursor, end>>]
    BY <1>2 DEF SplitStage, SplitInv
  <2>2. rest = {} => end = NumLayers
    BY <1>2 DEF SplitStage
  <2>3. IF rest = {}
          THEN main' = [phase |-> "prepare", line |-> main.line, todo |-> alive, epoch |-> main.epoch + 1]
          ELSE main' = [phase |-> "split", line |-> main.line, todo |-> rest, epoch |-> main.epoch]
    <3>1. IF rest = {}
            THEN main' = [phase |-> "prepare", line |-> main.line, todo |-> alive, epoch |-> main.epoch + 1]
            ELSE Goto("split", rest)
      BY <1>2 DEF SplitStage
    <3> HIDE DEF rest
    <3> QED BY <1>1, <3>1, Moves
  <2>4. end \in Int
    BY <1>2, SplitStageCursor, SizesAssumption
  <2>5. i \in main.todo /\ i \in alive /\ i \in Stages /\ \A j \in done : j < i
    <3>1. main.todo \in SUBSET Stages /\ main.todo # {} /\ main.todo \subseteq alive
      BY <1>1, <2>1 DEF ControlTypeOK, Splitting
    <3>2. i \in main.todo
      BY <3>1, FirstIsLeast
    <3> QED BY <3>1, <3>2, <2>1 DEF Splitting
  <2>6. Linked(plan.range, done, plan.cursor) /\ (done = {} => plan.cursor = 0)
    BY <2>1 DEF ChainInv
  <2>7. Linked(plan'.range, done \cup {i}, end)
    <3>1. done \in SUBSET Stages /\ plan.range \in [Stages -> Int \X Int] /\ plan.cursor \in Int
      BY <1>1 DEF ControlTypeOK
    <3> HIDE DEF i, done, end
    <3> QED BY <2>1, <2>4, <2>5, <2>6, <3>1, LinkedExtends
  <2>8. alive \ rest = done \cup {i}
    BY <2>1, <2>5 DEF Splitting
  <2> HIDE DEF i, rest, done, end
  <2>9. CASE rest = {}
    <3>1. main'.phase = "prepare" /\ alive \ rest = alive
      BY <2>3, <2>9
    <3> QED BY <2>1, <2>2, <2>7, <2>8, <2>9, <3>1 DEF ChainInv
  <2>10. CASE rest # {}
    <3>1. main'.phase = "split" /\ main'.todo = rest
      BY <2>3, <2>10
    <3>2. alive' \ main'.todo # {}
      BY <2>1, <2>8, <3>1
    <3> QED BY <2>1, <2>7, <2>8, <3>1, <3>2 DEF ChainInv, Planned, end
  <2> QED BY <2>9, <2>10
<1>3. CASE ~SplitStage
  <2>1. Planned' => Linked(plan'.range, alive', NumLayers)
    <3> HAVE Planned'
    <3> QED BY <1>3, PlannedBefore DEF ChainInv
  <2>2. ASSUME main'.phase = "split"
        PROVE  /\ Linked(plan'.range, alive' \ main'.todo, plan'.cursor)
               /\ alive' \ main'.todo = {} => plan'.cursor = 0
    <3>1. CASE MainCalls
      BY <2>2, <3>1 DEF MainCalls, control, ChainInv
    <3>2. CASE \E weights \in [Stages -> 0..MaxWeight], total \in 0..(NumStages * MaxWeight) :
                 StartPlan(weights, total)
      <4>1. PICK weights \in [Stages -> 0..MaxWeight], total \in 0..(NumStages * MaxWeight) :
                 StartPlan(weights, total)
        BY <3>2
      <4>2. alive # {}
        <5>1. alive = {} => Raise
          BY <4>1 DEF StartPlan
        <5> QED BY <1>1, <2>2, <5>1, Moves
      <4>3. Goto("split", alive) /\ alive' = alive
            /\ plan' = [total |-> IF total = 0 THEN Cardinality(alive) ELSE total,
                        weights |-> weights, cursor |-> 0, range |-> [j \in Stages |-> NoRange]]
        BY <4>1, <4>2 DEF StartPlan
      <4>4. main'.todo = alive /\ plan'.cursor = 0
        BY <1>1, <4>3, Moves
      <4> QED BY <4>3, <4>4 DEF Linked
    <3>3. CASE MainReturns
      <4>1. main'.phase # "split"
        <5> DEFINE rest == main.todo \ {First(main.todo)}
        <5>1. /\ main.phase \in CallingPhases
              /\ \/ Raise
                 \/ Goto(main.phase, rest)
                 \/ Goto("activate", alive)
                 \/ NextLine
          BY <3>3, Zenon DEF MainReturns
        <5> QED BY <1>1, <5>1, Moves DEF CallingPhases
      <4> QED BY <2>2, <4>1
    <3>4. CASE Greet \/ NotReadyInTime \/ StartDeparture \/ StartRetire \/ StartRound \/ EndRound \/ Finish
      <4>1. \/ Raise \/ NextLine
            \/ \E phase \in {"next", "wait", "leave", "retire", "serve", "over"}, todo \in SUBSET Stages : Goto(phase, todo)
        <5>1. {Leaving} \in SUBSET Stages /\ alive \in SUBSET Stages /\ main.todo \in SUBSET Stages
          BY <1>1, LeavingAssumption DEF ControlTypeOK, Stages
        <5>2. CASE Greet
          BY <5>1, <5>2 DEF Greet
        <5>3. CASE ~Greet
          BY <3>4, <5>1, <5>3, Zenon DEF NotReadyInTime, StartDeparture, StartRetire, StartRound, EndRound, Finish
        <5> QED BY <5>2, <5>3
      <4> QED BY <1>1, <2>2, <4>1, Moves
    <3> QED BY <1>3, <3>1, <3>2, <3>3, <3>4, Zenon DEF MainStep
  <2> QED BY <2>1, <2>2 DEF ChainInv
<1> QED BY <1>2, <1>3

-----------------------------------------------------------------------------
(* Main's own variables *)

\* Where main goes in a step, as far as the messages of earlier steps care.
Advance ==
  /\ main.line <= main'.line /\ main.epoch <= main'.epoch
  /\ broken \subseteq broken'
  /\ main.phase = "failed" => main'.phase = "failed"
  /\ main.phase = "serve" => UNCHANGED control \/ main.line < main'.line \/ main'.phase = "failed"
  /\ main'.phase # "split" /\ main'.epoch = main.epoch
       => main.phase # "split" /\ plan'.range = plan.range

\* What does not move main advances it.
LEMMA ControlKeptAdvances ==
  ASSUME ControlTypeOK, LineInv, UNCHANGED control, broken \subseteq broken'
  PROVE  Advance
BY DEF Advance, control, ControlTypeOK

\* The ways in which main moves.
LEMMA MainGoes ==
  ASSUME SplitInv, LineInv, MainStep
  PROVE  /\ broken' = broken
         /\ \/ UNCHANGED control
            \/ SplitStage
            \/ /\ main.phase # "failed" /\ main'.phase = "failed"
               /\ main'.line = main.line /\ main'.epoch = main.epoch
               /\ main.phase # "split" /\ plan' = plan
            \/ /\ main.phase \notin {"failed", "serve"}
               /\ main'.phase \notin {"failed", "serve"}
               /\ main'.line \in {main.line, main.line + 1} /\ main'.epoch = main.epoch
               /\ main'.phase = "split" \/ (main.phase # "split" /\ plan' = plan)
            \/ /\ main.phase = "next" /\ main'.phase = "serve"
               /\ main'.line = main.line /\ main'.epoch = main.epoch /\ plan' = plan /\ alive' = alive
            \/ /\ main.phase = "serve" /\ main'.phase = "next"
               /\ main'.line = main.line + 1 /\ main'.epoch = main.epoch /\ plan' = plan /\ alive' = alive
<1>1. ControlTypeOK /\ main.line \in Int
  BY DEF SplitInv, ControlTypeOK
<1>2. CASE MainCalls
  BY <1>2 DEF MainCalls, Send
<1>3. CASE \E weights \in [Stages -> 0..MaxWeight], total \in 0..(NumStages * MaxWeight) :
             StartPlan(weights, total)
  <2>1. PICK weights \in [Stages -> 0..MaxWeight], total \in 0..(NumStages * MaxWeight) :
             StartPlan(weights, total)
    BY <1>3
  <2>2. main.phase = "next" /\ broken' = broken
        /\ ((Raise /\ plan' = plan) \/ Goto("split", alive))
    BY <2>1 DEF StartPlan
  <2> QED BY <1>1, <2>2, Moves
<1>4. CASE MainReturns
  <2> DEFINE rest == main.todo \ {First(main.todo)}
  <2>1. /\ main.phase \in CallingPhases /\ plan' = plan /\ broken' = broken
        /\ Raise \/ Goto(main.phase, rest) \/ Goto("activate", alive) \/ NextLine
    BY <1>4, Zenon DEF MainReturns
  <2> HIDE DEF rest
  <2> QED BY <1>1, <2>1, Moves DEF CallingPhases
<1>5. CASE Greet
  <2>1. main.phase = "wait" /\ broken' = broken /\ plan' = plan
        /\ \E todo : Goto("next", todo) \/ Goto("wait", todo)
    BY <1>5 DEF Greet
  <2> QED BY <1>1, <2>1, Moves
<1>6. CASE NotReadyInTime
  BY <1>1, <1>6, Moves DEF NotReadyInTime
<1>7. CASE StartDeparture \/ StartRetire \/ Finish
  <2>1. main.phase = "next" /\ broken' = broken /\ plan' = plan
        /\ \E todo : Goto("leave", todo) \/ Goto("retire", todo) \/ Goto("over", todo)
    BY <1>7, Zenon DEF StartDeparture, StartRetire, Finish
  <2> QED BY <1>1, <2>1, Moves
<1>8. CASE StartRound
  BY <1>1, <1>8, Moves DEF StartRound
<1>9. CASE EndRound
  <2>1. main.phase = "serve" /\ broken' = broken /\ plan' = plan /\ alive' = alive /\ (Raise \/ NextLine)
    BY <1>9 DEF EndRound
  <2> QED BY <1>1, <2>1, Moves
<1>10. CASE SplitStage
  BY <1>10 DEF SplitStage
<1> QED BY <1>2, <1>3, <1>4, <1>5, <1>6, <1>7, <1>8, <1>9, <1>10 DEF MainStep

\* A step of main never goes back behind what was planned.
LEMMA MainAdvances ==
  ASSUME SplitInv, LineInv, MainStep
  PROVE  Advance
<1>1. ControlTypeOK /\ main.line \in Int /\ main.epoch \in Int
  BY DEF SplitInv, ControlTypeOK
<1>2. CASE SplitStage
  <2>1. \/ main' = [phase |-> "prepare", line |-> main.line, todo |-> alive, epoch |-> main.epoch + 1]
        \/ main' = [phase |-> "split", line |-> main.line, todo |-> main.todo \ {First(main.todo)},
                    epoch |-> main.epoch]
    BY <1>1, <1>2, Moves DEF SplitStage
  <2>2. main.phase = "split" /\ broken' = broken
    BY <1>2 DEF SplitStage
  <2> QED BY <1>1, <2>1, <2>2 DEF Advance
<1>3. CASE UNCHANGED control
  BY <1>1, <1>3, MainGoes, ControlKeptAdvances
<1>4. CASE ~SplitStage /\ ~UNCHANGED control
  BY <1>1, <1>4, MainGoes DEF Advance
<1> QED BY <1>2, <1>3, <1>4

\* Threads, agents and connections leave main's variables alone.
LEMMA OthersKeepControl ==
  ASSUME Next, ~MainStep
  PROVE  UNCHANGED control /\ broken \subseteq broken'
<1>1. UNCHANGED control
  BY Zenon DEF Next, WorkerStep, WorkerCalls, WorkerReturns, Break, AgentStep, AgentPrepare,
     AgentActivate, AgentRetire, AgentShutdown, ForwardBegins, ForwardEnds, AgentStarts, AgentRestarts
<1>2. CASE \E c \in Callers : Break(c)
  BY <1>2 DEF Break
<1>3. CASE ~ \E c \in Callers : Break(c)
  <2>1. broken' = broken
    BY <1>3, Zenon DEF Next, WorkerStep, WorkerCalls, WorkerReturns, Send, AgentStep, AgentPrepare,
       AgentActivate, AgentRetire, AgentShutdown, ForwardBegins, ForwardEnds, AgentStarts, AgentRestarts
  <2> QED BY <1>1, <2>1
<1> QED BY <1>1, <1>2, <1>3

\* All that holds of main's own variables.
ControlInv == SplitInv /\ LineInv /\ ChainInv

\* No step breaks what holds of main's variables.
LEMMA ControlStep == ControlInv /\ [Next]_vars => ControlInv' /\ Advance
<1> SUFFICES ASSUME ControlInv, [Next]_vars PROVE ControlInv' /\ Advance
  OBVIOUS
<1>1. SplitInv' /\ SplitInv /\ LineInv /\ ChainInv /\ ControlTypeOK
  BY StepPreserves DEF ControlInv, SplitInv
<1>2. CASE MainStep
  BY <1>1, <1>2, LineKept, ChainKept, MainAdvances DEF ControlInv
<1>3. CASE ~MainStep
  <2>1. UNCHANGED control /\ broken \subseteq broken'
    <3>1. CASE Next
      BY <1>3, <3>1, OthersKeepControl
    <3>2. CASE UNCHANGED vars
      BY <3>2 DEF vars, control
    <3> QED BY <3>1, <3>2
  <2>2. LineInv' /\ ChainInv'
    BY <1>1, <2>1 DEF LineInv, ChainInv, Planned, Linked, Follows, LeastIn, GreatestIn, control
  <2> QED BY <1>1, <2>1, <2>2, ControlKeptAdvances DEF ControlInv
<1> QED BY <1>2, <1>3

\* It holds at the start.
LEMMA ControlInit == Init => ControlInv
<1> SUFFICES ASSUME Init PROVE ControlInv
  OBVIOUS
<1>1. SplitInv
  BY SizesAssumption DEF Init, SplitInv, ControlTypeOK, Phases, CallingPhases, NoWeights, NoRange,
     Stages
<1>2. Stages # {}
  BY LeavingAssumption DEF Stages
<1>3. LineInv
  BY <1>2, SizesAssumption, LineOrder DEF Init, LineInv, Planned, PlansBefore, CallingPhases
<1>4. ChainInv
  BY DEF Init, ChainInv, Planned
<1> QED BY <1>1, <1>3, <1>4 DEF ControlInv

-----------------------------------------------------------------------------
(* Types of calls, frames and agents *)

\* The frames, answers and calls there can be.
ForwardOps == {"prefill", "decode"}
Kinds == {"tokens", "hidden", "none"}
MainWhats ==
  [op : {"prepare"}, epoch : Epochs, range : Int \X Int]
    \cup [op : {"activate", "retire"}, epoch : Epochs] \cup [op : {"shutdown"}]
MainFrames == [from : {Main}, line : Int, node : Stages, what : MainWhats, try : {1, 2}]
RequestFrames ==
  [from : Requests, line : Int, node : Stages, what : [op : ForwardOps, kind : Kinds], try : {1, 2}]
Frames == MainFrames \cup RequestFrames

Passes == [ok : {TRUE}, past : Int, range : Int \X Int]
Answers(f) == IF f.from = Main THEN {Refused, Success} ELSE {Refused} \cup Passes

\* A call that still waits, or whose answer is not read yet.
Open(c) == calls[c].st \in {"sent", "answered"}
SentCall(f) == [st |-> "sent", frame |-> f]
AnsweredCall(f, a) == [st |-> "answered", frame |-> f, answer |-> a]
Raised == [st |-> "raised"]

CallsOf(c) ==
  {Idle, Raised} \cup {SentCall(f) : f \in {g \in Frames : g.from = c}}
    \cup {AnsweredCall(fa[1], fa[2]) : fa \in {ga \in Frames \X ({Refused, Success} \cup Passes) :
                                                 ga[1].from = c /\ ga[2] \in Answers(ga[1])}}

\* The states of an agent and of a thread.
Agents == [up : BOOLEAN, prepared : [Epochs -> Int \X Int], active : {0} \cup Epochs,
           busy : {NotBusy} \cup [epoch : Epochs, range : Int \X Int, frame : RequestFrames]]
Workers == [status : {"new", "running", "done", "failed"}, todo : SUBSET Stages, pass : Nat, kind : Kinds,
            token : BOOLEAN, reached : Int, gap : BOOLEAN, skew : BOOLEAN]

CallsTyped == calls = [c \in Callers |-> calls[c]] /\ \A c \in Callers : calls[c] \in CallsOf(c)

\* Threads, calls, frames and agents are of their types.
MachineTypeOK ==
  /\ worker \in [Requests -> Workers]
  /\ CallsTyped
  /\ frames \subseteq Frames
  /\ agent \in [Stages -> Agents]
  /\ cache \in [Stages -> [Epochs -> [Requests -> Int]]]

\* What a caller may be waiting for.
LEMMA CallKinds ==
  ASSUME MachineTypeOK, NEW c \in Callers
  PROVE  \/ calls[c] = Idle /\ calls[c].st = "idle"
         \/ calls[c] = Raised /\ calls[c].st = "raised"
         \/ /\ calls[c].st = "sent" /\ calls[c] = SentCall(calls[c].frame)
            /\ calls[c].frame \in Frames /\ calls[c].frame.from = c
         \/ /\ calls[c].st = "answered" /\ calls[c] = AnsweredCall(calls[c].frame, calls[c].answer)
            /\ calls[c].frame \in Frames /\ calls[c].frame.from = c
            /\ calls[c].answer \in Answers(calls[c].frame)
<1>1. calls[c] \in CallsOf(c)
  BY DEF MachineTypeOK, CallsTyped
<1>2. CASE calls[c] = Idle \/ calls[c] = Raised
  BY <1>2 DEF Idle, Raised
<1>3. CASE \E f \in Frames : f.from = c /\ calls[c] = SentCall(f)
  BY <1>3 DEF SentCall
<1>4. CASE \E f \in Frames : \E a \in Answers(f) : f.from = c /\ calls[c] = AnsweredCall(f, a)
  BY <1>4 DEF AnsweredCall
<1> QED BY <1>1, <1>2, <1>3, <1>4 DEF CallsOf

\* A frame that is sent makes a call of its caller.
LEMMA SentIsCall ==
  ASSUME NEW f \in Frames
  PROVE  SentCall(f) \in CallsOf(f.from)
BY DEF CallsOf

\* So does one that is answered.
LEMMA AnsweredIsCall ==
  ASSUME NEW f \in Frames, NEW a \in Answers(f)
  PROVE  AnsweredCall(f, a) \in CallsOf(f.from)
<1>1. a \in {Refused, Success} \cup Passes
  BY DEF Answers
<1>2. <<f, a>> \in {ga \in Frames \X ({Refused, Success} \cup Passes) :
                      ga[1].from = f.from /\ ga[2] \in Answers(ga[1])}
  BY <1>1
<1> QED BY <1>2 DEF CallsOf

\* Idle calls and calls that raised need no frame.
LEMMA EmptyCalls == \A c : Idle \in CallsOf(c) /\ Raised \in CallsOf(c)
BY DEF CallsOf

\* What the callers wait for after an update for one of them.
LEMMA CallsUpdated ==
  ASSUME MachineTypeOK, NEW c \in Callers, NEW v \in CallsOf(c), calls' = [calls EXCEPT ![c] = v]
  PROVE  /\ CallsTyped'
         /\ calls'[c] = v /\ \A d \in Callers \ {c} : calls'[d] = calls[d]
<1>1. DOMAIN calls = Callers /\ \A d \in Callers : calls[d] \in CallsOf(d)
  BY DEF MachineTypeOK, CallsTyped
<1>2. calls'[c] = v /\ \A d \in Callers \ {c} : calls'[d] = calls[d]
  BY <1>1
<1>3. calls' = [d \in Callers |-> calls'[d]]
  BY <1>1
<1>4. \A d \in Callers : calls'[d] \in CallsOf(d)
  BY <1>1, <1>2
<1> QED BY <1>2, <1>3, <1>4 DEF CallsTyped, CallsOf

\* An answer reaches the caller of its frame, if it waits for that very frame.
LEMMA Answering ==
  ASSUME MachineTypeOK, NEW f \in Frames, NEW a \in Answers(f), calls' = Answered(f, a)
  PROVE  /\ CallsTyped'
         /\ \A d \in Callers : \/ calls'[d] = calls[d] /\ (d # f.from \/ calls[d] # SentCall(f))
                               \/ d = f.from /\ calls[d] = SentCall(f) /\ calls'[d] = AnsweredCall(f, a)
<1>1. f.from \in Callers
  BY RequestIds DEF Frames, MainFrames, RequestFrames
<1>2. CASE calls[f.from] # SentCall(f)
  <2>1. calls' = calls
    BY <1>2 DEF Answered, SentCall
  <2> QED BY <1>2, <2>1 DEF MachineTypeOK, CallsTyped, CallsOf
<1>3. CASE calls[f.from] = SentCall(f)
  <2>1. calls' = [calls EXCEPT ![f.from] = AnsweredCall(f, a)]
    BY <1>3 DEF Answered, SentCall, AnsweredCall
  <2>2. AnsweredCall(f, a) \in CallsOf(f.from)
    BY AnsweredIsCall
  <2> QED BY <1>1, <1>3, <2>1, <2>2, CallsUpdated
<1> QED BY <1>2, <1>3

-----------------------------------------------------------------------------
(* What each action changes *)

\* What AgentClient.call leaves behind when it sends.
LEMMA Sending ==
  ASSUME MachineTypeOK, NEW c \in Callers, NEW n \in Stages, NEW what, Send(c, n, what),
         [from |-> c, line |-> main.line, node |-> n, what |-> what, try |-> 1] \in Frames
  PROVE  LET f == [from |-> c, line |-> main.line, node |-> n, what |-> what, try |-> 1] IN
         /\ calls[c] = Idle /\ CallsTyped' /\ frames' \subseteq Frames
         /\ \A d \in Callers \ {c} : calls'[d] = calls[d]
         /\ \/ agent[n].up /\ calls'[c] = SentCall(f) /\ frames' = frames \cup {f}
            \/ ~agent[n].up /\ calls'[c] = Raised /\ frames' = frames
         /\ UNCHANGED <<machines, broken, budget>>
<1> DEFINE f == [from |-> c, line |-> main.line, node |-> n, what |-> what, try |-> 1]
<1>1. f \in Frames /\ f.from = c
  OBVIOUS
<1>2. /\ calls[c] = Idle /\ UNCHANGED <<machines, broken, budget>>
      /\ \/ agent[n].up /\ calls' = [calls EXCEPT ![c] = SentCall(f)] /\ frames' = frames \cup {f}
         \/ ~agent[n].up /\ calls' = [calls EXCEPT ![c] = Raised] /\ frames' = frames
  BY DEF Send, SentCall, Raised
<1> HIDE DEF f
<1>3. SentCall(f) \in CallsOf(c) /\ Raised \in CallsOf(c)
  BY <1>1, SentIsCall, EmptyCalls
<1>4. CASE agent[n].up /\ calls' = [calls EXCEPT ![c] = SentCall(f)] /\ frames' = frames \cup {f}
  <2>1. CallsTyped' /\ calls'[c] = SentCall(f) /\ \A d \in Callers \ {c} : calls'[d] = calls[d]
    BY <1>3, <1>4, CallsUpdated
  <2>2. frames' \subseteq Frames
    BY <1>1, <1>4 DEF MachineTypeOK
  <2> QED BY <1>2, <1>4, <2>1, <2>2 DEF f
<1>5. CASE ~agent[n].up /\ calls' = [calls EXCEPT ![c] = Raised] /\ frames' = frames
  <2>1. CallsTyped' /\ calls'[c] = Raised /\ \A d \in Callers \ {c} : calls'[d] = calls[d]
    BY <1>3, <1>5, CallsUpdated
  <2>2. frames' \subseteq Frames
    BY <1>5 DEF MachineTypeOK
  <2> QED BY <1>2, <1>5, <2>1, <2>2 DEF f
<1> QED BY <1>2, <1>4, <1>5

\* What a broken connection leaves behind.
LEMMA Breaking ==
  ASSUME MachineTypeOK, NEW c \in Callers, Break(c)
  PROVE  LET f == calls[c].frame
             again == [f EXCEPT !.try = 2]
         IN
         /\ calls[c].st \in {"sent", "answered"} /\ f \in Frames /\ f.from = c
         /\ again \in Frames /\ again.from = c /\ again.line = f.line /\ again.node = f.node
         /\ again.what = f.what /\ again.try = 2
         /\ CallsTyped' /\ \A d \in Callers \ {c} : calls'[d] = calls[d]
         /\ \/ /\ f.try = 1 /\ agent[f.node].up
               /\ calls'[c] = SentCall(again) /\ frames' \subseteq frames \cup {again}
               /\ broken' = broken \cup {IF f.what.op = "activate" THEN Activation ELSE c}
            \/ /\ ~ (f.try = 1 /\ agent[f.node].up)
               /\ calls'[c] = Raised /\ frames' \subseteq frames /\ broken' = broken
         /\ frames' \subseteq Frames
         /\ UNCHANGED <<control, worker, machines>>
<1> DEFINE f == calls[c].frame
           again == [f EXCEPT !.try = 2]
<1>1. calls[c].st \in {"sent", "answered"} /\ UNCHANGED <<control, worker, machines>>
  BY DEF Break
<1>2. f \in Frames /\ f.from = c
  BY <1>1, CallKinds
<1>3. /\ again \in Frames /\ again.from = c /\ again.line = f.line /\ again.node = f.node
      /\ again.what = f.what /\ again.try = 2
  <2> HIDE DEF f
  <2>1. CASE f \in MainFrames
    BY <1>2, <2>1 DEF Frames, MainFrames
  <2>2. CASE f \in RequestFrames
    BY <1>2, <2>2 DEF Frames, RequestFrames
  <2> QED BY <1>2, <2>1, <2>2 DEF Frames
<1>4. \E kept \in {frames, frames \ {f}} :
        IF f.try = 1 /\ agent[f.node].up
          THEN /\ frames' = kept \cup {again}
               /\ calls' = [calls EXCEPT ![c] = SentCall(again)]
               /\ broken' = broken \cup {IF f.what.op = "activate" THEN Activation ELSE c}
          ELSE frames' = kept /\ calls' = [calls EXCEPT ![c] = Raised] /\ broken' = broken
  BY DEF Break, SentCall, Raised
<1> HIDE DEF f, again
<1>5. SentCall(again) \in CallsOf(c) /\ Raised \in CallsOf(c)
  BY <1>3, SentIsCall, EmptyCalls
<1>6. CASE f.try = 1 /\ agent[f.node].up
  <2>1. /\ calls' = [calls EXCEPT ![c] = SentCall(again)] /\ frames' \subseteq frames \cup {again}
        /\ broken' = broken \cup {IF f.what.op = "activate" THEN Activation ELSE c}
    BY <1>4, <1>6
  <2>2. CallsTyped' /\ calls'[c] = SentCall(again) /\ \A d \in Callers \ {c} : calls'[d] = calls[d]
    BY <1>5, <2>1, CallsUpdated
  <2>3. frames' \subseteq Frames
    BY <1>3, <2>1 DEF MachineTypeOK
  <2> QED BY <1>1, <1>2, <1>3, <1>6, <2>1, <2>2, <2>3 DEF f, again
<1>7. CASE ~ (f.try = 1 /\ agent[f.node].up)
  <2>1. calls' = [calls EXCEPT ![c] = Raised] /\ frames' \subseteq frames /\ broken' = broken
    BY <1>4, <1>7
  <2>2. CallsTyped' /\ calls'[c] = Raised /\ \A d \in Callers \ {c} : calls'[d] = calls[d]
    BY <1>5, <2>1, CallsUpdated
  <2>3. frames' \subseteq Frames
    BY <2>1 DEF MachineTypeOK
  <2> QED BY <1>1, <1>2, <1>3, <1>7, <2>1, <2>2, <2>3 DEF f, again
<1> QED BY <1>6, <1>7

\* What a frame says.
LEMMA FrameKinds ==
  ASSUME NEW f \in Frames
  PROVE  /\ f.node \in Stages /\ f.from \in Callers /\ f.line \in Int /\ f.try \in {1, 2}
         /\ f.what.op \in {"prepare", "activate", "retire", "shutdown"} \cup ForwardOps
         /\ f.what.op \in {"prepare", "activate", "retire"} => f.what.epoch \in Epochs
         /\ f.what.op = "prepare" => f.what.range \in Int \X Int
         /\ f.what.op \in {"prepare", "activate", "retire", "shutdown"}
              => f.from = Main /\ f \in MainFrames /\ f \notin RequestFrames
                 /\ Refused \in Answers(f) /\ Success \in Answers(f)
         /\ f.what.op \in ForwardOps
              => /\ f.from \in Requests /\ f.from # Main /\ f \in RequestFrames
                 /\ f.what.kind \in Kinds
                 /\ Answers(f) = {Refused} \cup Passes
         /\ f.from = Main => f.what.op \notin ForwardOps
<1>1. CASE f \in MainFrames
  <2>1. f.what \in MainWhats /\ f.from = Main /\ f.node \in Stages /\ f.line \in Int /\ f.try \in {1, 2}
    BY <1>1 DEF MainFrames
  <2>2. f.what.op \in {"prepare", "activate", "retire", "shutdown"}
        /\ (f.what.op \in {"prepare", "activate", "retire"} => f.what.epoch \in Epochs)
        /\ (f.what.op = "prepare" => f.what.range \in Int \X Int)
    BY <2>1 DEF MainWhats
  <2>3. f \notin RequestFrames
    BY <2>1, RequestIds DEF RequestFrames
  <2> QED BY <1>1, <2>1, <2>2, <2>3, RequestIds DEF Answers, ForwardOps
<1>2. CASE f \in RequestFrames
  <2>1. f.from \in Requests /\ f.from # Main /\ f.node \in Stages /\ f.line \in Int /\ f.try \in {1, 2}
        /\ f.what \in [op : ForwardOps, kind : Kinds]
    BY <1>2, RequestIds DEF RequestFrames
  <2> QED BY <1>2, <2>1, RequestIds DEF Answers, ForwardOps
<1> QED BY <1>1, <1>2 DEF Frames

\* An agent that prepares.
LEMMA Preparing ==
  ASSUME MachineTypeOK, NEW f \in frames, AgentPrepare(f)
  PROVE  /\ f \in Frames /\ f.what.op = "prepare" /\ agent[f.node].busy = NotBusy
         /\ \E a \in Answers(f) : calls' = Answered(f, a)
         /\ frames' = frames \ {f}
         /\ UNCHANGED <<control, worker, cache, broken, budget>>
         /\ agent' \in [Stages -> Agents]
         /\ \A m \in Stages :
              \/ agent'[m] = agent[m]
              \/ /\ m = f.node
                 /\ LegalRange(f.what.range)
                 /\ agent'[m] = [agent[m] EXCEPT !.prepared = [@ EXCEPT ![f.what.epoch] = f.what.range]]
<1>1. f \in Frames /\ f.what.op = "prepare" /\ f.node \in Stages /\ f.what.epoch \in Epochs
      /\ f.what.range \in Int \X Int /\ Refused \in Answers(f) /\ Success \in Answers(f)
  BY FrameKinds DEF MachineTypeOK, AgentPrepare
<1>2. /\ agent[f.node].busy = NotBusy /\ frames' = frames \ {f}
      /\ UNCHANGED <<control, worker, cache, broken, budget>>
  BY DEF AgentPrepare
<1>3. agent \in [Stages -> Agents]
  BY DEF MachineTypeOK
<1>4. CASE calls' = Answered(f, Refused) /\ UNCHANGED agent
  BY <1>1, <1>2, <1>3, <1>4
<1>5. CASE /\ LegalRange(f.what.range)
           /\ agent' = [agent EXCEPT ![f.node].prepared[f.what.epoch] = f.what.range]
           /\ calls' = Answered(f, Success)
  <2> DEFINE a == agent[f.node]
             new == [a EXCEPT !.prepared = [@ EXCEPT ![f.what.epoch] = f.what.range]]
  <2>1. agent' = [agent EXCEPT ![f.node] = new] /\ calls' = Answered(f, Success)
    BY <1>5
  <2>2. a \in Agents
    BY <1>1, <1>3
  <2> HIDE DEF a
  <2>3. new \in Agents
    BY <1>1, <2>2 DEF Agents
  <2> HIDE DEF new
  <2>4. agent' \in [Stages -> Agents] /\ agent'[f.node] = new /\ \A m \in Stages \ {f.node} : agent'[m] = agent[m]
    BY <1>1, <1>3, <2>1, <2>3
  <2> QED BY <1>1, <1>2, <1>5, <2>1, <2>4 DEF new, a
<1> QED BY <1>4, <1>5 DEF AgentPrepare

\* An agent that activates.
LEMMA Activating ==
  ASSUME MachineTypeOK, NEW f \in frames, AgentActivate(f)
  PROVE  /\ f \in Frames /\ f.what.op = "activate"
         /\ frames' = frames \ {f}
         /\ UNCHANGED <<control, worker, cache, broken, budget>>
         /\ agent' \in [Stages -> Agents]
         /\ \/ agent' = agent /\ calls' = Answered(f, Refused)
            \/ /\ calls' = Answered(f, Success)
               /\ agent[f.node].prepared[f.what.epoch] # NoRange
               /\ agent'[f.node] = [agent[f.node] EXCEPT !.active = f.what.epoch]
               /\ \A m \in Stages \ {f.node} : agent'[m] = agent[m]
<1>1. f \in Frames /\ f.what.op = "activate" /\ f.node \in Stages /\ f.what.epoch \in Epochs
  BY FrameKinds DEF MachineTypeOK, AgentActivate
<1>2. frames' = frames \ {f} /\ UNCHANGED <<control, worker, cache, broken, budget>>
  BY DEF AgentActivate
<1>3. agent \in [Stages -> Agents]
  BY DEF MachineTypeOK
<1>4. CASE agent[f.node].prepared[f.what.epoch] = NoRange
  BY <1>1, <1>2, <1>3, <1>4 DEF AgentActivate
<1>5. CASE agent[f.node].prepared[f.what.epoch] # NoRange
  <2> DEFINE a == agent[f.node]
             new == [a EXCEPT !.active = f.what.epoch]
  <2>1. agent' = [agent EXCEPT ![f.node] = new] /\ calls' = Answered(f, Success)
    BY <1>5 DEF AgentActivate
  <2>2. a \in Agents
    BY <1>1, <1>3
  <2> HIDE DEF a
  <2>3. new \in Agents
    BY <1>1, <2>2 DEF Agents
  <2> HIDE DEF new
  <2>4. agent' \in [Stages -> Agents] /\ agent'[f.node] = new /\ \A m \in Stages \ {f.node} : agent'[m] = agent[m]
    BY <1>1, <1>3, <2>1, <2>3
  <2> QED BY <1>1, <1>2, <1>5, <2>1, <2>4 DEF new, a
<1> QED BY <1>4, <1>5

\* An agent that retires an epoch.
LEMMA Retiring ==
  ASSUME MachineTypeOK, NEW f \in frames, AgentRetire(f)
  PROVE  LET e == f.what.epoch IN
         /\ f \in Frames /\ f.what.op = "retire" /\ e \in Epochs
         /\ frames' = frames \ {f}
         /\ UNCHANGED <<control, worker, broken, budget>>
         /\ calls' = Answered(f, Success) /\ Success \in Answers(f)
         /\ agent' \in [Stages -> Agents]
         /\ cache' \in [Stages -> [Epochs -> [Requests -> Int]]]
         /\ agent'[f.node].busy = agent[f.node].busy /\ agent'[f.node].up = agent[f.node].up
         /\ agent'[f.node].active = IF agent[f.node].active = e THEN 0 ELSE agent[f.node].active
         /\ agent'[f.node].prepared = [agent[f.node].prepared EXCEPT ![e] = NoRange]
         /\ cache'[f.node] = [cache[f.node] EXCEPT ![e] = [r \in Requests |-> -1]]
         /\ \A m \in Stages \ {f.node} : agent'[m] = agent[m] /\ cache'[m] = cache[m]
<1> DEFINE e == f.what.epoch
           n == f.node
<1>1. f \in Frames /\ f.what.op = "retire" /\ n \in Stages /\ e \in Epochs /\ Success \in Answers(f)
  BY FrameKinds DEF MachineTypeOK, AgentRetire
<1>2. /\ frames' = frames \ {f} /\ UNCHANGED <<control, worker, broken, budget>>
      /\ calls' = Answered(f, Success)
  BY DEF AgentRetire
<1>3. /\ agent' = [agent EXCEPT ![n].prepared[e] = NoRange, ![n].active = IF @ = e THEN 0 ELSE @]
      /\ cache' = [cache EXCEPT ![n][e] = [r \in Requests |-> -1]]
  BY DEF AgentRetire
<1>4. agent \in [Stages -> Agents] /\ cache \in [Stages -> [Epochs -> [Requests -> Int]]]
  BY DEF MachineTypeOK
<1> HIDE DEF e, n
<1>5. agent[n] \in Agents /\ NoRange \in Int \X Int
  BY <1>1, <1>4 DEF NoRange
<1>6. /\ agent' = [m \in Stages |-> agent'[m]]
      /\ \A m \in Stages \ {n} : agent'[m] = agent[m]
  BY <1>1, <1>3, <1>4
<1>7. /\ agent'[n].busy = agent[n].busy /\ agent'[n].up = agent[n].up
      /\ agent'[n].active = IF agent[n].active = e THEN 0 ELSE agent[n].active
      /\ agent'[n].prepared = [agent[n].prepared EXCEPT ![e] = NoRange]
      /\ agent'[n] = [up |-> agent'[n].up, prepared |-> agent'[n].prepared, active |-> agent'[n].active,
                      busy |-> agent'[n].busy]
  BY <1>1, <1>3, <1>4, <1>5 DEF Agents
<1>8. agent'[n] \in Agents
  BY <1>1, <1>5, <1>7 DEF Agents
<1>12. agent' \in [Stages -> Agents]
  BY <1>4, <1>6, <1>8
<1> DEFINE none == [r \in Requests |-> -1]
<1>9. none \in [Requests -> Int]
  OBVIOUS
<1>10. cache' = [cache EXCEPT ![n][e] = none]
  BY <1>3
<1> HIDE DEF none
<1>11. /\ cache' \in [Stages -> [Epochs -> [Requests -> Int]]]
       /\ cache'[n] = [cache[n] EXCEPT ![e] = none]
       /\ \A m \in Stages \ {n} : cache'[m] = cache[m]
  BY <1>1, <1>4, <1>9, <1>10
<1> QED BY <1>1, <1>2, <1>6, <1>7, <1>11, <1>12 DEF e, n, none

\* An agent that has just started has prepared nothing and runs nothing.
LEMMA EmptyMachine ==
  /\ NewAgent \in Agents /\ [NewAgent EXCEPT !.up = FALSE] \in Agents
  /\ NewAgent.busy = NotBusy /\ NewAgent.active = 0 /\ NewAgent.up = TRUE
  /\ \A e \in Epochs : NewAgent.prepared[e] = NoRange
  /\ EmptyCache \in [Epochs -> [Requests -> Int]]
  /\ \A e \in Epochs, r \in Requests : EmptyCache[e][r] = -1
<1>1. NoRange \in Int \X Int
  BY DEF NoRange
<1>2. [e \in Epochs |-> NoRange] \in [Epochs -> Int \X Int]
  BY <1>1
<1>3. NewAgent \in Agents /\ [NewAgent EXCEPT !.up = FALSE] \in Agents
  BY <1>2 DEF NewAgent, Agents
<1>4. [r \in Requests |-> -1] \in [Requests -> Int]
  OBVIOUS
<1>5. EmptyCache \in [Epochs -> [Requests -> Int]] /\ \A e \in Epochs, r \in Requests : EmptyCache[e][r] = -1
  BY <1>4 DEF EmptyCache
<1> QED BY <1>3, <1>5 DEF NewAgent

\* A machine begins again with nothing, by a shutdown or by a restart.
Emptied(n) ==
  /\ agent' \in [Stages -> Agents]
  /\ cache' \in [Stages -> [Epochs -> [Requests -> Int]]]
  /\ agent'[n].busy = NotBusy /\ agent'[n].active = 0
  /\ \A e \in Epochs : agent'[n].prepared[e] = NoRange
  /\ \A e \in Epochs, r \in Requests : cache'[n][e][r] = -1
  /\ \A m \in Stages \ {n} : agent'[m] = agent[m] /\ cache'[m] = cache[m]

\* The update that starts an agent anew empties its machine.
LEMMA Emptying ==
  ASSUME MachineTypeOK, NEW n \in Stages, NEW new \in Agents,
         new.busy = NotBusy, new.active = 0, \A e \in Epochs : new.prepared[e] = NoRange,
         agent' = [agent EXCEPT ![n] = new], cache' = [cache EXCEPT ![n] = EmptyCache]
  PROVE  Emptied(n) /\ agent'[n] = new
<1>1. agent \in [Stages -> Agents] /\ cache \in [Stages -> [Epochs -> [Requests -> Int]]]
  BY DEF MachineTypeOK
<1>2. agent' \in [Stages -> Agents] /\ agent'[n] = new /\ \A m \in Stages \ {n} : agent'[m] = agent[m]
  BY <1>1
<1>3. cache' \in [Stages -> [Epochs -> [Requests -> Int]]] /\ cache'[n] = EmptyCache
      /\ \A m \in Stages \ {n} : cache'[m] = cache[m]
  BY <1>1, EmptyMachine
<1> QED BY <1>2, <1>3, EmptyMachine DEF Emptied

\* An agent that shuts down empties its machine and drops the frames it has.
LEMMA ShuttingDown ==
  ASSUME MachineTypeOK, NEW f \in frames, AgentShutdown(f)
  PROVE  /\ f \in Frames /\ f.what.op = "shutdown" /\ Success \in Answers(f)
         /\ calls' = Answered(f, Success)
         /\ frames' = {g \in frames : g.node # f.node}
         /\ UNCHANGED <<control, worker, broken, budget>>
         /\ Emptied(f.node)
<1> DEFINE new == [NewAgent EXCEPT !.up = FALSE]
<1>1. f \in Frames /\ f.what.op = "shutdown" /\ f.node \in Stages /\ Success \in Answers(f)
  BY FrameKinds DEF MachineTypeOK, AgentShutdown
<1>2. /\ calls' = Answered(f, Success)
      /\ frames' = {g \in frames : g.node # f.node}
      /\ UNCHANGED <<control, worker, broken, budget>>
      /\ agent' = [agent EXCEPT ![f.node] = new]
      /\ cache' = [cache EXCEPT ![f.node] = EmptyCache]
  BY DEF AgentShutdown
<1>3. new \in Agents /\ new.busy = NotBusy /\ new.active = 0 /\ \A e \in Epochs : new.prepared[e] = NoRange
  BY EmptyMachine DEF NewAgent
<1> HIDE DEF new
<1> QED BY <1>1, <1>2, <1>3, Emptying

\* So does one that is restarted, and it is up again.
LEMMA Restarting ==
  ASSUME MachineTypeOK, NEW n \in Stages, AgentRestarts(n)
  PROVE  /\ agent[n].up
         /\ frames' = {f \in frames : f.node # n}
         /\ UNCHANGED <<control, worker, calls, broken>>
         /\ Emptied(n) /\ agent'[n].up
<1>1. /\ frames' = {f \in frames : f.node # n}
      /\ UNCHANGED <<control, worker, calls, broken>> /\ agent[n].up
      /\ agent' = [agent EXCEPT ![n] = NewAgent]
      /\ cache' = [cache EXCEPT ![n] = EmptyCache]
  BY DEF AgentRestarts
<1>2. Emptied(n) /\ agent'[n] = NewAgent
  BY <1>1, EmptyMachine, Emptying
<1> QED BY <1>1, <1>2, EmptyMachine

\* Agents are started while main still waits for them.
LEMMA Starting ==
  ASSUME MachineTypeOK, NEW n \in Stages, AgentStarts(n)
  PROVE  /\ main.phase = "wait"
         /\ UNCHANGED <<control, worker, calls, frames, cache, broken, budget>>
         /\ agent' \in [Stages -> Agents]
         /\ agent'[n] = [agent[n] EXCEPT !.up = TRUE]
         /\ \A m \in Stages \ {n} : agent'[m] = agent[m]
<1>1. agent \in [Stages -> Agents]
  BY DEF MachineTypeOK
<1> DEFINE new == [agent[n] EXCEPT !.up = TRUE]
<1>2. /\ main.phase = "wait"
      /\ UNCHANGED <<control, worker, calls, frames, cache, broken, budget>>
      /\ agent' = [agent EXCEPT ![n] = new]
  BY DEF AgentStarts
<1>3. new \in Agents
  BY <1>1 DEF Agents
<1> HIDE DEF new
<1>4. agent' \in [Stages -> Agents] /\ agent'[n] = new /\ \A m \in Stages \ {n} : agent'[m] = agent[m]
  BY <1>1, <1>2, <1>3
<1> QED BY <1>2, <1>4 DEF new

\* A forward pass takes the lock and the stage of the active epoch.
LEMMA Beginning ==
  ASSUME MachineTypeOK, NEW f \in frames, ForwardBegins(f)
  PROVE  /\ f \in Frames /\ f.what.op \in ForwardOps
         /\ agent[f.node].busy = NotBusy
         /\ frames' = frames \ {f}
         /\ UNCHANGED <<control, worker, broken, budget>>
         /\ agent' \in [Stages -> Agents]
         /\ cache' \in [Stages -> [Epochs -> [Requests -> Int]]]
         /\ \/ calls' = Answered(f, Refused) /\ UNCHANGED machines
            \/ LET e == agent[f.node].active IN
               /\ e \in Epochs /\ calls' = calls
               /\ agent'[f.node] = [agent[f.node] EXCEPT !.busy =
                     [epoch |-> e, range |-> agent[f.node].prepared[e], frame |-> f]]
               /\ \A m \in Stages \ {f.node} : agent'[m] = agent[m] /\ cache'[m] = cache[m]
               /\ \A d \in Epochs, r \in Requests :
                    cache'[f.node][d][r] = IF d = e /\ r = f.from /\ cache[f.node][d][r] = -1
                                             THEN 0 ELSE cache[f.node][d][r]
<1> DEFINE n == f.node
           e == agent[n].active
           range == agent[n].prepared[e]
<1>1. f \in Frames /\ f.what.op \in ForwardOps /\ n \in Stages /\ f.from \in Requests /\ f \in RequestFrames
  BY FrameKinds DEF MachineTypeOK, ForwardBegins, ForwardOps
<1>2. /\ agent[n].busy = NotBusy /\ frames' = frames \ {f}
      /\ UNCHANGED <<control, worker, broken, budget>>
  BY DEF ForwardBegins
<1>3. agent \in [Stages -> Agents] /\ cache \in [Stages -> [Epochs -> [Requests -> Int]]]
  BY DEF MachineTypeOK
<1>4. \/ calls' = Answered(f, Refused) /\ UNCHANGED machines
      \/ /\ e # 0 /\ calls' = calls
         /\ agent' = [agent EXCEPT ![n].busy = [epoch |-> e, range |-> range, frame |-> f]]
         /\ cache' = [cache EXCEPT ![n][e][f.from] = IF @ = -1 THEN 0 ELSE @]
  BY DEF ForwardBegins
<1>5. CASE calls' = Answered(f, Refused) /\ UNCHANGED machines
  BY <1>1, <1>2, <1>3, <1>5 DEF machines
<1>6. CASE /\ e # 0 /\ calls' = calls
           /\ agent' = [agent EXCEPT ![n].busy = [epoch |-> e, range |-> range, frame |-> f]]
           /\ cache' = [cache EXCEPT ![n][e][f.from] = IF @ = -1 THEN 0 ELSE @]
  <2>1. agent[n] \in Agents
    BY <1>1, <1>3
  <2>2. e \in Epochs /\ range \in Int \X Int
    BY <1>6, <2>1 DEF Agents
  <2> DEFINE job == [epoch |-> e, range |-> range, frame |-> f]
             new == [agent[n] EXCEPT !.busy = job]
  <2>3. agent' = [agent EXCEPT ![n] = new]
    BY <1>6
  <2> HIDE DEF range, e
  <2>4. new \in Agents
    BY <1>1, <2>1, <2>2 DEF Agents
  <2> HIDE DEF new
  <2>5. agent' \in [Stages -> Agents] /\ agent'[n] = new /\ \A m \in Stages \ {n} : agent'[m] = agent[m]
    BY <1>1, <1>3, <2>3, <2>4
  <2> HIDE DEF n
  <2>6. /\ cache' \in [Stages -> [Epochs -> [Requests -> Int]]]
        /\ \A m \in Stages \ {n} : cache'[m] = cache[m]
        /\ \A d \in Epochs, r \in Requests :
             cache'[n][d][r] = IF d = e /\ r = f.from /\ cache[n][d][r] = -1 THEN 0 ELSE cache[n][d][r]
    BY <1>1, <1>3, <1>6, <2>2
  <2> QED BY <1>1, <1>2, <1>6, <2>2, <2>5, <2>6 DEF new, n, e, range
<1> QED BY <1>4, <1>5, <1>6

\* It ends with an answer that tells its layers and where it started, or, when they
\* were pulled away, with an error.
LEMMA Ending ==
  ASSUME MachineTypeOK, NEW n \in Stages, ForwardEnds(n)
  PROVE  LET job == agent[n].busy
             f == job.frame
             past == cache[n][job.epoch][f.from]
             done == [ok |-> TRUE, past |-> IF past = -1 THEN 0 ELSE past, range |-> job.range]
         IN
         /\ job # NotBusy /\ job.epoch \in Epochs /\ job.range \in Int \X Int
         /\ f \in Frames /\ f \in RequestFrames /\ f.from \in Requests /\ past \in Int
         /\ done \in Answers(f)
         /\ calls' = Answered(f, done)
              \/ (agent[n].prepared[job.epoch] = NoRange /\ calls' = Answered(f, Refused))
         /\ UNCHANGED <<control, worker, frames, broken, budget>>
         /\ agent' \in [Stages -> Agents]
         /\ agent'[n] = [agent[n] EXCEPT !.busy = NotBusy]
         /\ \A m \in Stages \ {n} : agent'[m] = agent[m]
         /\ cache' \in [Stages -> [Epochs -> [Requests -> Int]]]
         /\ \A m \in Stages, d \in Epochs, r \in Requests :
              cache'[m][d][r] =
                IF m = n /\ d = job.epoch /\ r = f.from /\ past # -1
                  THEN past + (IF f.what.op = "prefill" THEN PromptLength ELSE 1)
                  ELSE cache[m][d][r]
<1> DEFINE job == agent[n].busy
           f == job.frame
           past == cache[n][job.epoch][f.from]
           seq == IF f.what.op = "prefill" THEN PromptLength ELSE 1
           done == [ok |-> TRUE, past |-> IF past = -1 THEN 0 ELSE past, range |-> job.range]
<1>1. agent \in [Stages -> Agents] /\ cache \in [Stages -> [Epochs -> [Requests -> Int]]]
  BY DEF MachineTypeOK
<1>2. /\ job # NotBusy
      /\ calls' = Answered(f, done)
           \/ (agent[n].prepared[job.epoch] = NoRange /\ calls' = Answered(f, Refused))
      /\ cache' = IF past = -1 THEN cache ELSE [cache EXCEPT ![n][job.epoch][f.from] = past + seq]
      /\ agent' = [agent EXCEPT ![n].busy = NotBusy]
      /\ UNCHANGED <<control, worker, frames, broken, budget>>
  BY DEF ForwardEnds
<1>3. agent[n] \in Agents
  BY <1>1
<1>4. job \in [epoch : Epochs, range : Int \X Int, frame : RequestFrames]
  BY <1>2, <1>3 DEF Agents
<1>5. job.epoch \in Epochs /\ job.range \in Int \X Int /\ f \in RequestFrames /\ f \in Frames
  BY <1>4 DEF Frames
<1>6. f.from \in Requests /\ Answers(f) = {Refused} \cup Passes
  BY <1>5, RequestIds DEF RequestFrames, Answers
<1>7. past \in Int /\ seq \in Int
  BY <1>1, <1>5, <1>6, LengthsAssumption
<1>8. done \in Answers(f)
  <2> HIDE DEF past, job
  <2> QED BY <1>5, <1>6, <1>7 DEF Passes
<1> DEFINE new == [agent[n] EXCEPT !.busy = NotBusy]
<1>9. agent' = [agent EXCEPT ![n] = new]
  BY <1>2
<1>10. new \in Agents
  BY <1>3 DEF Agents
<1> HIDE DEF new
<1>11. agent' \in [Stages -> Agents] /\ agent'[n] = new /\ \A m \in Stages \ {n} : agent'[m] = agent[m]
  BY <1>1, <1>9, <1>10
<1>12. /\ cache' \in [Stages -> [Epochs -> [Requests -> Int]]]
       /\ \A m \in Stages, d \in Epochs, r \in Requests :
            cache'[m][d][r] = IF m = n /\ d = job.epoch /\ r = f.from /\ past # -1
                                THEN past + seq ELSE cache[m][d][r]
  <2> DEFINE e == job.epoch
             q == f.from
             sum == past + seq
  <2>1. e \in Epochs /\ q \in Requests /\ sum \in Int
    BY <1>5, <1>6, <1>7
  <2>2. cache' = IF past = -1 THEN cache ELSE [cache EXCEPT ![n][e][q] = sum]
    BY <1>2
  <2>3. SUFFICES /\ cache' \in [Stages -> [Epochs -> [Requests -> Int]]]
                 /\ \A m \in Stages, d \in Epochs, r \in Requests :
                      cache'[m][d][r] = IF m = n /\ d = e /\ r = q /\ past # -1
                                          THEN sum ELSE cache[m][d][r]
    OBVIOUS
  <2> HIDE DEF e, q, sum, past
  <2> QED BY <1>1, <2>1, <2>2
<1> QED BY <1>2, <1>5, <1>6, <1>7, <1>8, <1>11, <1>12 DEF new

\* A request's call that returned well brought the result of a pass.
LEMMA OkIsPass ==
  ASSUME MachineTypeOK, NEW r \in Requests, ReturnedOk(r)
  PROVE  calls[r].answer \in Passes
<1>1. calls[r].st = "answered" /\ calls[r].answer.ok
  BY DEF ReturnedOk
<1>2. calls[r].frame.from = r /\ calls[r].answer \in Answers(calls[r].frame)
  BY <1>1, CallKinds, RequestIds
<1>3. calls[r].answer \in {Refused} \cup Passes
  BY <1>2, RequestIds DEF Answers
<1>4. calls[r].answer # Refused
  BY <1>1 DEF Refused
<1> QED BY <1>3, <1>4

\* What a thread makes of an answer.
LEMMA Returning ==
  ASSUME MachineTypeOK, alive \in SUBSET Stages, NEW r \in Requests, WorkerReturns(r)
  PROVE  LET w == worker[r]
             v == worker'[r]
             answer == calls[r].answer
             rest == w.todo \ {First(w.todo)}
         IN
         /\ w.status = "running" /\ Returned(r)
         /\ CallsTyped' /\ calls'[r] = Idle /\ \A c \in Callers \ {r} : calls'[c] = calls[c]
         /\ UNCHANGED <<control, frames, machines, broken, budget>>
         /\ worker' \in [Requests -> Workers]
         /\ \A q \in Requests \ {r} : worker'[q] = worker[q]
         /\ \/ ~ReturnedOk(r) /\ v = [w EXCEPT !.status = "failed"]
            \/ /\ ReturnedOk(r) /\ answer \in Passes
               /\ v.gap => w.gap \/ answer.range[1] # w.reached
                             \/ (rest = {} /\ answer.range[2] # NumLayers)
               /\ v.skew => w.skew \/ answer.past # Before(w.pass)
               /\ \/ /\ rest # {} /\ v.status = "running" /\ v.todo = rest /\ v.pass = w.pass
                     /\ v.reached = answer.range[2]
                  \/ rest = {} /\ v.status = "done"
                  \/ /\ rest = {} /\ v.status = "running" /\ v.todo = alive /\ v.pass = w.pass + 1
                     /\ v.reached = 0
<1> DEFINE w == worker[r]
           v == worker'[r]
           answer == calls[r].answer
           rest == w.todo \ {First(w.todo)}
           last == answer.range[2] = NumLayers
           token == w.token \/ last
           kind == IF last THEN "none" ELSE "hidden"
           gap == w.gap \/ answer.range[1] # w.reached
           skew == w.skew \/ answer.past # Before(w.pass)
           seen == [w EXCEPT !.gap = gap, !.skew = skew, !.reached = answer.range[2], !.token = token,
                             !.kind = kind, !.todo = rest]
           missed == seen.gap \/ ~last
           over == [seen EXCEPT !.status = "done", !.gap = missed]
           again == [seen EXCEPT !.todo = alive, !.pass = @ + 1, !.kind = "tokens", !.token = FALSE,
                                 !.reached = 0, !.gap = missed]
           new == IF ~ReturnedOk(r) THEN [w EXCEPT !.status = "failed"]
                  ELSE IF rest # {} THEN seen
                  ELSE IF ~token \/ w.pass + 1 = MaxTokens THEN over ELSE again
<1>1. /\ w.status = "running" /\ Returned(r)
      /\ calls' = [calls EXCEPT ![r] = Idle]
      /\ worker' = [worker EXCEPT ![r] = new]
      /\ UNCHANGED <<control, frames, machines, broken, budget>>
  BY DEF WorkerReturns
<1>2. worker \in [Requests -> Workers] /\ w \in Workers
  BY DEF MachineTypeOK
<1>3. CallsTyped' /\ calls'[r] = Idle /\ \A c \in Callers \ {r} : calls'[c] = calls[c]
  BY <1>1, RequestIds, EmptyCalls, CallsUpdated
<1> HIDE DEF w, answer
<1>4. rest \in SUBSET Stages
  BY <1>2 DEF Workers
<1>5. last \in BOOLEAN /\ token \in BOOLEAN /\ kind \in Kinds /\ gap \in BOOLEAN /\ skew \in BOOLEAN
  BY DEF Kinds
<1> HIDE DEF last, token, kind, gap, skew, rest
<1>6. ASSUME ReturnedOk(r)
      PROVE  /\ answer \in Passes /\ answer.range[2] \in Int
             /\ seen \in Workers /\ over \in Workers /\ again \in Workers
             /\ seen.status = w.status /\ seen.todo = rest /\ seen.pass = w.pass /\ seen.reached = answer.range[2]
             /\ seen.gap = gap /\ seen.skew = skew
             /\ over.status = "done" /\ over.gap = (gap \/ ~last) /\ over.skew = skew
             /\ again.status = w.status /\ again.todo = alive /\ again.pass = w.pass + 1 /\ again.reached = 0
             /\ again.gap = (gap \/ ~last) /\ again.skew = skew
  <2>1. answer \in Passes /\ answer.range[2] \in Int
    <3>1. answer \in Passes
      BY <1>6, OkIsPass DEF answer
    <3> QED BY <3>1 DEF Passes
  <2>2. /\ seen \in Workers
        /\ seen.status = w.status /\ seen.todo = rest /\ seen.pass = w.pass /\ seen.reached = answer.range[2]
        /\ seen.gap = gap /\ seen.skew = skew
    BY <1>2, <1>4, <1>5, <2>1 DEF Workers
  <2> HIDE DEF seen
  <2>3. missed \in BOOLEAN /\ missed = (gap \/ ~last)
    BY <2>2
  <2>4. w.pass + 1 \in Nat /\ seen.pass + 1 = w.pass + 1 /\ "tokens" \in Kinds
    BY <1>2, <2>2 DEF Workers, Kinds
  <2> HIDE DEF missed
  <2>5. over \in Workers /\ over.status = "done" /\ over.gap = missed /\ over.skew = skew
    BY <2>2, <2>3 DEF Workers
  <2>6. /\ again \in Workers
        /\ again.status = w.status /\ again.todo = alive /\ again.pass = w.pass + 1 /\ again.reached = 0
        /\ again.gap = missed /\ again.skew = skew
    <3> DEFINE pass == w.pass + 1
               tokens == "tokens"
               fresh == FALSE
    <3>1. again = [seen EXCEPT !.todo = alive, !.pass = pass, !.kind = tokens, !.token = fresh,
                               !.reached = 0, !.gap = missed]
      BY <2>4
    <3>2. pass \in Nat /\ tokens \in Kinds /\ fresh \in BOOLEAN
      BY <2>4
    <3> HIDE DEF pass, tokens, fresh, again
    <3>3. /\ again.status = w.status /\ again.todo = alive /\ again.pass = pass /\ again.reached = 0
          /\ again.gap = missed /\ again.skew = skew
      BY <2>2, <3>1 DEF Workers
    <3>4. again \in Workers
      <4>1. again = [status |-> seen.status, todo |-> alive, pass |-> pass, kind |-> tokens,
                     token |-> fresh, reached |-> 0, gap |-> missed, skew |-> seen.skew]
        BY <2>2, <3>1 DEF Workers
      <4>2. seen.status \in {"new", "running", "done", "failed"} /\ seen.skew \in BOOLEAN
        BY <2>2 DEF Workers
      <4> QED BY <2>3, <3>2, <4>1, <4>2 DEF Workers
    <3> QED BY <3>3, <3>4 DEF pass
  <2> QED BY <2>1, <2>2, <2>3, <2>5, <2>6
<1>7. [w EXCEPT !.status = "failed"] \in Workers
  BY <1>2 DEF Workers
<1> HIDE DEF seen, over, again
<1>8. new \in Workers
  BY <1>6, <1>7
<1>9. worker' \in [Requests -> Workers] /\ v = new /\ \A q \in Requests \ {r} : worker'[q] = worker[q]
  <2> HIDE DEF new
  <2> QED BY <1>1, <1>2, <1>8
<1> HIDE DEF v
<1>10. \/ ~ReturnedOk(r) /\ v = [w EXCEPT !.status = "failed"]
       \/ /\ ReturnedOk(r) /\ answer \in Passes
          /\ v.gap => gap \/ (rest = {} /\ ~last)
          /\ v.skew => skew
          /\ \/ /\ rest # {} /\ v.status = "running" /\ v.todo = rest /\ v.pass = w.pass
                /\ v.reached = answer.range[2]
             \/ rest = {} /\ v.status = "done"
             \/ /\ rest = {} /\ v.status = "running" /\ v.todo = alive /\ v.pass = w.pass + 1
                /\ v.reached = 0
  BY <1>1, <1>6, <1>9
<1>11. /\ gap => w.gap \/ answer.range[1] # w.reached
       /\ ~last => answer.range[2] # NumLayers
       /\ skew => w.skew \/ answer.past # Before(w.pass)
  BY DEF gap, last, skew
<1> HIDE DEF new
<1>12. \/ ~ReturnedOk(r) /\ v = [w EXCEPT !.status = "failed"]
       \/ /\ ReturnedOk(r) /\ answer \in Passes
          /\ v.gap => w.gap \/ answer.range[1] # w.reached \/ (rest = {} /\ answer.range[2] # NumLayers)
          /\ v.skew => w.skew \/ answer.past # Before(w.pass)
          /\ \/ /\ rest # {} /\ v.status = "running" /\ v.todo = rest /\ v.pass = w.pass
                /\ v.reached = answer.range[2]
             \/ rest = {} /\ v.status = "done"
             \/ /\ rest = {} /\ v.status = "running" /\ v.todo = alive /\ v.pass = w.pass + 1
                /\ v.reached = 0
  BY <1>10, <1>11
<1> QED BY <1>1, <1>3, <1>9, <1>12 DEF w, v, answer, rest

\* The frame of the call that main makes.
MainFrame ==
  [from |-> Main, line |-> main.line, node |-> First(main.todo), try |-> 1,
   what |-> CASE main.phase = "prepare" ->
                     [op |-> "prepare", epoch |-> main.epoch, range |-> plan.range[First(main.todo)]]
              [] main.phase = "activate" -> [op |-> "activate", epoch |-> main.epoch]
              [] main.phase = "retire" -> [op |-> "retire", epoch |-> main.epoch - 1]
              [] main.phase = "leave" -> [op |-> "shutdown"]]

\* What each phase of main asks of the agents.
Op(phase) == IF phase = "leave" THEN "shutdown" ELSE phase

\* The frame of main's next call is a frame, to the stage in turn.
LEMMA MainFrameTyped ==
  ASSUME ControlInv, main.phase \in CallingPhases
  PROVE  /\ MainFrame \in MainFrames /\ MainFrame.what.op = Op(main.phase)
         /\ First(main.todo) \in Stages /\ First(main.todo) \in main.todo
         /\ main.phase \in {"prepare", "activate"} => MainFrame.what.epoch = main.epoch
         /\ main.phase = "retire" => MainFrame.what.epoch = main.epoch - 1 /\ main.epoch = 2
         /\ main.phase = "prepare" => MainFrame.what.range = plan.range[First(main.todo)]
<1> USE LineOrder, TwoEpochs
<1>1. /\ main.todo \in SUBSET Stages /\ main.todo # {} /\ main.line \in Int /\ main.epoch \in Int
      /\ plan.range \in [Stages -> Int \X Int]
  BY DEF ControlInv, SplitInv, ControlTypeOK, LineInv
<1>2. First(main.todo) \in main.todo /\ First(main.todo) \in Stages
  BY <1>1, FirstIsLeast
<1>3. plan.range[First(main.todo)] \in Int \X Int
  BY <1>1, <1>2
<1>4. /\ main.phase \in {"prepare", "activate"} => main.epoch \in Epochs
      /\ main.phase = "retire" => main.epoch = 2 /\ main.epoch - 1 \in Epochs
  BY DEF ControlInv, LineInv, PlansBefore
<1> DEFINE n == First(main.todo)
           range == plan.range[n]
<1> HIDE DEF n
<1>5. CASE main.phase = "prepare"
  <2>1. MainFrame.what = [op |-> "prepare", epoch |-> main.epoch, range |-> range]
    BY <1>5 DEF MainFrame, n
  <2>2. MainFrame.what \in MainWhats
    <3> HIDE DEF range
    <3> QED BY <1>3, <1>4, <1>5, <2>1 DEF MainWhats, range, n
  <2> QED BY <1>1, <1>2, <1>4, <1>5, <2>1, <2>2 DEF MainFrame, MainFrames, Op, n
<1>6. CASE main.phase = "activate"
  <2>1. MainFrame.what = [op |-> "activate", epoch |-> main.epoch]
    BY <1>6 DEF MainFrame
  <2>2. MainFrame.what \in MainWhats
    BY <1>4, <1>6, <2>1 DEF MainWhats
  <2> QED BY <1>1, <1>2, <1>4, <1>6, <2>1, <2>2 DEF MainFrame, MainFrames, Op
<1>7. CASE main.phase = "retire"
  <2>1. MainFrame.what = [op |-> "retire", epoch |-> main.epoch - 1]
    BY <1>7 DEF MainFrame
  <2>2. MainFrame.what \in MainWhats
    BY <1>4, <1>7, <2>1 DEF MainWhats
  <2> QED BY <1>1, <1>2, <1>4, <1>7, <2>1, <2>2 DEF MainFrame, MainFrames, Op
<1>8. CASE main.phase = "leave"
  <2>1. MainFrame.what = [op |-> "shutdown"]
    BY <1>8 DEF MainFrame
  <2>2. MainFrame.what \in MainWhats
    BY <2>1 DEF MainWhats
  <2> QED BY <1>1, <1>2, <1>8, <2>1, <2>2 DEF MainFrame, MainFrames, Op
<1> QED BY <1>5, <1>6, <1>7, <1>8 DEF CallingPhases

\* What main leaves behind when it calls.
LEMMA MainCalling ==
  ASSUME ControlInv, MachineTypeOK, MainCalls
  PROVE  /\ main.phase \in CallingPhases /\ MainFrame \in Frames
         /\ calls[Main] = Idle /\ CallsTyped' /\ frames' \subseteq Frames
         /\ \A c \in Callers \ {Main} : calls'[c] = calls[c]
         /\ \/ /\ agent[First(main.todo)].up /\ calls'[Main] = SentCall(MainFrame)
               /\ frames' = frames \cup {MainFrame}
            \/ ~agent[First(main.todo)].up /\ calls'[Main] = Raised /\ frames' = frames
         /\ UNCHANGED <<control, worker, machines, broken, budget>>
<1>1. main.phase \in CallingPhases /\ UNCHANGED <<control, worker>>
  BY DEF MainCalls
<1>2. MainFrame \in Frames /\ First(main.todo) \in Stages
  BY <1>1, MainFrameTyped DEF Frames
<1> DEFINE what == MainFrame.what
<1>3. Send(Main, First(main.todo), what)
  BY DEF MainCalls, MainFrame
<1>4. [from |-> Main, line |-> main.line, node |-> First(main.todo), what |-> what, try |-> 1] = MainFrame
  BY DEF MainFrame
<1> HIDE DEF what
<1> QED BY <1>1, <1>2, <1>3, <1>4, RequestIds, Sending

\* The frame of a request's next call.
RequestFrame(r) ==
  [from |-> r, line |-> main.line, node |-> First(worker[r].todo), try |-> 1,
   what |-> [op |-> IF worker[r].pass = 0 THEN "prefill" ELSE "decode", kind |-> worker[r].kind]]

\* What a request leaves behind when it calls.
LEMMA WorkerCalling ==
  ASSUME ControlInv, MachineTypeOK, NEW r \in Requests, WorkerCalls(r), worker[r].todo # {}
  PROVE  LET f == RequestFrame(r) IN
         /\ worker[r].status = "running" /\ f \in RequestFrames /\ f \in Frames /\ f.from = r /\ f.line = main.line
         /\ f.node = First(worker[r].todo) /\ f.try = 1 /\ f.what.op \in ForwardOps
         /\ f.what.op = IF worker[r].pass = 0 THEN "prefill" ELSE "decode"
         /\ First(worker[r].todo) \in worker[r].todo /\ First(worker[r].todo) \in Stages
         /\ calls[r] = Idle /\ CallsTyped' /\ frames' \subseteq Frames
         /\ \A c \in Callers \ {r} : calls'[c] = calls[c]
         /\ \/ agent[f.node].up /\ calls'[r] = SentCall(f) /\ frames' = frames \cup {f}
            \/ ~agent[f.node].up /\ calls'[r] = Raised /\ frames' = frames
         /\ UNCHANGED <<control, worker, machines, broken, budget>>
<1> DEFINE n == First(worker[r].todo)
           op == IF worker[r].pass = 0 THEN "prefill" ELSE "decode"
           what == [op |-> op, kind |-> worker[r].kind]
<1>1. worker[r].status = "running" /\ Send(r, n, what) /\ UNCHANGED <<control, worker>>
  BY DEF WorkerCalls
<1>2. worker[r] \in Workers /\ main.line \in Int
  BY DEF MachineTypeOK, ControlInv, LineInv
<1>3. n \in worker[r].todo /\ n \in Stages
  <2>1. worker[r].todo \in SUBSET Stages
    BY <1>2 DEF Workers
  <2> QED BY <2>1, FirstIsLeast
<1>4. op \in ForwardOps
  BY DEF ForwardOps
<1>5. RequestFrame(r) = [from |-> r, line |-> main.line, node |-> n, what |-> what, try |-> 1]
  BY DEF RequestFrame
<1> HIDE DEF n, op
<1>6. what \in [op : ForwardOps, kind : Kinds]
  BY <1>2, <1>4 DEF Workers
<1> HIDE DEF what
<1>7. RequestFrame(r) \in RequestFrames /\ RequestFrame(r) \in Frames
  BY <1>2, <1>3, <1>5, <1>6 DEF RequestFrames, Frames
<1>8. /\ RequestFrame(r).from = r /\ RequestFrame(r).line = main.line /\ RequestFrame(r).node = n
      /\ RequestFrame(r).try = 1 /\ RequestFrame(r).what = what /\ what.op = op
  BY <1>5 DEF what
<1>9. /\ calls[r] = Idle /\ CallsTyped' /\ frames' \subseteq Frames
      /\ \A c \in Callers \ {r} : calls'[c] = calls[c]
      /\ \/ agent[n].up /\ calls'[r] = SentCall(RequestFrame(r)) /\ frames' = frames \cup {RequestFrame(r)}
         \/ ~agent[n].up /\ calls'[r] = Raised /\ frames' = frames
      /\ UNCHANGED <<machines, broken, budget>>
  BY <1>1, <1>3, <1>5, <1>7, RequestIds, Sending
<1> QED BY <1>1, <1>3, <1>4, <1>7, <1>8, <1>9 DEF n, op

-----------------------------------------------------------------------------
(* Threads *)

\* Who runs, and what each thread waits for.
WorkerInv ==
  \A r \in Requests :
    LET w == worker[r] IN
    /\ w.status = "running" =>
         /\ main.phase = "serve" /\ r \in Script[main.line].ids
         /\ w.todo # {} /\ w.todo \subseteq alive
         /\ \A i \in alive \ w.todo, j \in w.todo : i < j
    /\ w.status # "running" => calls[r] = Idle
    /\ Open(r) =>
         /\ calls[r].frame.line = main.line /\ calls[r].frame.node = First(w.todo)
         /\ calls[r].frame.what.op = IF w.pass = 0 THEN "prefill" ELSE "decode"
    /\ w.status # "new" =>
         UsedBefore(r) \/ (main.phase \in {"serve", "failed"} /\ r \in Script[main.line].ids)

\* What the steps of main change of the machines and the threads.
LEMMA MainTouches ==
  ASSUME MachineTypeOK, MainStep
  PROVE  \/ UNCHANGED <<worker, calls, frames, machines, broken>>
         \/ MainCalls
         \/ /\ MainReturns /\ UNCHANGED <<worker, frames, machines, broken>>
            /\ Returned(Main) /\ calls'[Main] = Idle /\ CallsTyped'
            /\ \A c \in Callers \ {Main} : calls'[c] = calls[c]
         \/ StartRound /\ UNCHANGED <<calls, frames, machines, broken>>
<1>1. CASE MainReturns
  <2>1. calls' = [calls EXCEPT ![Main] = Idle] /\ UNCHANGED <<worker, frames, machines, broken>> /\ Returned(Main)
    BY <1>1, Zenon DEF MainReturns
  <2> QED BY <1>1, <2>1, RequestIds, EmptyCalls, CallsUpdated
<1>2. CASE StartRound
  BY <1>2 DEF StartRound
<1>3. CASE \E weights \in [Stages -> 0..MaxWeight], total \in 0..(NumStages * MaxWeight) :
             StartPlan(weights, total)
  BY <1>3, Zenon DEF StartPlan
<1> QED BY <1>1, <1>2, <1>3, Zenon
     DEF MainStep, Greet, NotReadyInTime, SplitStage, StartDeparture, StartRetire, EndRound, Finish

\* What a round sets up for the requests in it.
LEMMA StartRoundTyped ==
  ASSUME ControlInv, MachineTypeOK, StartRound
  PROVE  /\ worker' \in [Requests -> Workers] /\ main.phase = "next" /\ UNCHANGED <<plan, alive>>
         /\ main' = [phase |-> "serve", line |-> main.line, todo |-> {}, epoch |-> main.epoch]
         /\ main.line \in 1..LastLine /\ Script[main.line].do = "run" /\ main.line \notin PlanLines
         /\ \A r \in Requests :
              IF r \in Script[main.line].ids
                THEN /\ worker'[r].status = "running" /\ worker'[r].todo = alive /\ worker'[r].pass = 0
                     /\ worker'[r].reached = 0 /\ worker'[r].gap = FALSE /\ worker'[r].skew = FALSE
                ELSE worker'[r] = worker[r]
<1> DEFINE new == [NewWorker EXCEPT !.status = "running", !.todo = alive]
<1>1. /\ main.phase = "next" /\ UNCHANGED <<plan, alive>>
      /\ worker' = [r \in Requests |-> IF r \in Script[main.line].ids THEN new ELSE worker[r]]
  BY DEF StartRound
<1>2. main' = [phase |-> "serve", line |-> main.line, todo |-> {}, epoch |-> main.epoch]
  BY Moves DEF StartRound, ControlInv, SplitInv
<1>3. main.line \in 1..LastLine /\ Script[main.line].do = "run" /\ main.line \notin PlanLines
  BY AtLine DEF StartRound, ControlInv
<1>4. alive \in SUBSET Stages /\ worker \in [Requests -> Workers]
  BY DEF ControlInv, SplitInv, ControlTypeOK, MachineTypeOK
<1>5. /\ new \in Workers /\ new.status = "running" /\ new.todo = alive /\ new.pass = 0
      /\ new.reached = 0 /\ new.gap = FALSE /\ new.skew = FALSE
  <2> DEFINE no == FALSE
  <2>1. NewWorker = [status |-> "new", todo |-> {}, pass |-> 0, kind |-> "tokens", token |-> no,
                     reached |-> 0, gap |-> no, skew |-> no]
    BY DEF NewWorker
  <2>2. no \in BOOLEAN
    OBVIOUS
  <2> HIDE DEF no
  <2>5. /\ NewWorker \in Workers /\ NewWorker.pass = 0 /\ NewWorker.kind = "tokens" /\ NewWorker.token = no
        /\ NewWorker.reached = 0 /\ NewWorker.gap = no /\ NewWorker.skew = no
    BY <2>1, <2>2 DEF Workers, Kinds
  <2>3. /\ new.status = "running" /\ new.todo = alive /\ new.pass = NewWorker.pass
        /\ new.reached = NewWorker.reached /\ new.gap = NewWorker.gap /\ new.skew = NewWorker.skew
    BY <2>5 DEF Workers
  <2>4. new \in Workers
    BY <1>4, <2>5 DEF Workers
  <2> HIDE DEF new
  <2> QED BY <2>3, <2>4, <2>5 DEF no
<1> HIDE DEF new
<1>6. worker' \in [Requests -> Workers]
  BY <1>1, <1>4, <1>5
<1>7. \A r \in Requests : worker'[r] = IF r \in Script[main.line].ids THEN new ELSE worker[r]
  BY <1>1
<1> QED BY <1>1, <1>2, <1>3, <1>5, <1>6, <1>7

\* Every step keeps the types.
LEMMA TypeStep ==
  ASSUME ControlInv, MachineTypeOK, WorkerInv, [Next]_vars
  PROVE  MachineTypeOK'
<1> USE DEF MachineTypeOK
<1>0. alive \in SUBSET Stages
  BY DEF ControlInv, SplitInv, ControlTypeOK
<1>a. UNCHANGED calls => CallsTyped'
  BY DEF CallsTyped, CallsOf
<1>1. CASE MainStep
  <2>1. CASE UNCHANGED <<worker, calls, frames, machines, broken>>
    BY <1>a, <2>1 DEF machines
  <2>2. CASE MainCalls
    BY <2>2, MainCalling DEF machines
  <2>3. CASE MainReturns /\ UNCHANGED <<worker, frames, machines, broken>> /\ CallsTyped'
    BY <2>3 DEF machines
  <2>4. CASE StartRound /\ UNCHANGED <<calls, frames, machines, broken>>
    BY <1>a, <2>4, StartRoundTyped DEF machines
  <2> QED BY <1>1, <2>1, <2>2, <2>3, <2>4, MainTouches
<1>2. ASSUME NEW r \in Requests, WorkerCalls(r)
      PROVE  MachineTypeOK'
  <2>1. worker[r].todo # {}
    BY <1>2 DEF WorkerInv, WorkerCalls
  <2> QED BY <1>2, <2>1, WorkerCalling DEF machines
<1>3. ASSUME NEW r \in Requests, WorkerReturns(r)
      PROVE  MachineTypeOK'
  BY <1>0, <1>3, Returning DEF machines
<1>4. ASSUME NEW c \in Callers, Break(c)
      PROVE  MachineTypeOK'
  BY <1>4, Breaking DEF machines
<1>5. ASSUME NEW f \in frames, AgentPrepare(f)
      PROVE  MachineTypeOK'
  <2>1. CallsTyped'
    BY <1>5, Preparing, Answering
  <2> QED BY <1>5, <2>1, Preparing
<1>6. ASSUME NEW f \in frames, AgentActivate(f)
      PROVE  MachineTypeOK'
  <2>1. f \in Frames /\ Refused \in Answers(f) /\ Success \in Answers(f)
    BY <1>6, Activating, FrameKinds
  <2>2. CallsTyped'
    BY <1>6, <2>1, Activating, Answering
  <2> QED BY <1>6, <2>2, Activating
<1>7. ASSUME NEW f \in frames, AgentRetire(f)
      PROVE  MachineTypeOK'
  <2>1. CallsTyped'
    BY <1>7, Retiring, Answering
  <2> QED BY <1>7, <2>1, Retiring
<1>8. ASSUME NEW f \in frames, AgentShutdown(f)
      PROVE  MachineTypeOK'
  <2>1. CallsTyped'
    BY <1>8, ShuttingDown, Answering
  <2> QED BY <1>8, <2>1, ShuttingDown DEF Emptied
<1>9. ASSUME NEW f \in frames, ForwardBegins(f)
      PROVE  MachineTypeOK'
  <2>1. f \in Frames /\ Refused \in Answers(f)
    BY <1>9, Beginning, FrameKinds
  <2>2. CallsTyped'
    BY <1>9, <2>1, Beginning, Answering, <1>a
  <2> QED BY <1>9, <2>2, Beginning
<1>10. ASSUME NEW n \in Stages, ForwardEnds(n)
       PROVE  MachineTypeOK'
  <2> DEFINE f == agent[n].busy.frame
  <2>1. f \in Frames /\ f \in RequestFrames /\ \E a \in Answers(f) : calls' = Answered(f, a)
    <3>1. f \in RequestFrames => Refused \in Answers(f)
      BY RequestIds DEF RequestFrames, Answers
    <3> QED BY <1>10, <3>1, Ending
  <2>2. CallsTyped'
    <3> HIDE DEF f
    <3> QED BY <2>1, Answering
  <2> QED BY <1>10, <2>2, Ending
<1>11. ASSUME NEW n \in Stages, AgentStarts(n)
       PROVE  MachineTypeOK'
  BY <1>a, <1>11, Starting
<1>12. ASSUME NEW n \in Stages, AgentRestarts(n)
       PROVE  MachineTypeOK'
  BY <1>a, <1>12, Restarting DEF Emptied
<1>13. CASE UNCHANGED vars
  BY <1>a, <1>13 DEF vars
<1> QED BY <1>1, <1>2, <1>3, <1>4, <1>5, <1>6, <1>7, <1>8, <1>9, <1>10, <1>11, <1>12, <1>13
     DEF Next, WorkerStep, AgentStep

\* What is noted of a frame that is sent again.
Resent(f) == IF f.what.op = "activate" THEN Activation ELSE f.from

\* A call that is still open is for the same frame, but perhaps sent again.
CallsGoOn ==
  \A c \in Callers :
    \/ calls'[c] = calls[c]
    \/ Open(c) /\ calls'[c] = Raised
    \/ /\ Open(c) /\ Open(c)'
       /\ calls'[c].frame.from = calls[c].frame.from /\ calls'[c].frame.line = calls[c].frame.line
       /\ calls'[c].frame.node = calls[c].frame.node /\ calls'[c].frame.what = calls[c].frame.what
       /\ calls'[c].frame.try = 2 => calls[c].frame.try = 2 \/ Resent(calls[c].frame) \in broken'

\* An answer leaves the other calls alone.
LEMMA AnsweringGoesOn ==
  ASSUME MachineTypeOK, NEW f \in Frames, NEW a \in Answers(f), calls' = Answered(f, a)
  PROVE  CallsGoOn
<1>1. ASSUME NEW c \in Callers, calls[c] = SentCall(f), calls'[c] = AnsweredCall(f, a)
      PROVE  /\ Open(c) /\ Open(c)' /\ calls'[c].frame = calls[c].frame
  BY <1>1 DEF Open, SentCall, AnsweredCall
<1> QED BY <1>1, Answering DEF CallsGoOn

\* A break ends a call or sends the same frame again.
LEMMA BreakingGoesOn ==
  ASSUME MachineTypeOK, NEW c \in Callers, Break(c)
  PROVE  CallsGoOn
<1> DEFINE f == calls[c].frame
           again == [f EXCEPT !.try = 2]
<1>1. /\ Open(c)
      /\ again.from = f.from /\ again.line = f.line /\ again.node = f.node /\ again.what = f.what
      /\ \A d \in Callers \ {c} : calls'[d] = calls[d]
      /\ (calls'[c] = SentCall(again) /\ Resent(f) \in broken') \/ calls'[c] = Raised
  BY Breaking DEF Open, Resent
<1> HIDE DEF again
<1>2. calls'[c] = SentCall(again) => Open(c)' /\ calls'[c].frame = again
  BY DEF Open, SentCall
<1> QED BY <1>1, <1>2 DEF CallsGoOn

\* Steps of agents and connections leave main and the threads where they are.
LEMMA QuietSteps ==
  ASSUME MachineTypeOK, Next, ~MainStep, \A r \in Requests : ~WorkerStep(r)
  PROVE  UNCHANGED <<control, worker>> /\ CallsGoOn
<1>1. ASSUME NEW c \in Callers, Break(c)
      PROVE  UNCHANGED <<control, worker>> /\ CallsGoOn
  BY <1>1, Breaking, BreakingGoesOn
<1>2. ASSUME NEW f \in frames, AgentPrepare(f)
      PROVE  UNCHANGED <<control, worker>> /\ CallsGoOn
  BY <1>2, Preparing, AnsweringGoesOn
<1>3. ASSUME NEW f \in frames, AgentActivate(f)
      PROVE  UNCHANGED <<control, worker>> /\ CallsGoOn
  <2>1. f \in Frames /\ Refused \in Answers(f) /\ Success \in Answers(f)
    BY <1>3, Activating, FrameKinds
  <2> QED BY <1>3, <2>1, Activating, AnsweringGoesOn
<1>4. ASSUME NEW f \in frames, AgentRetire(f)
      PROVE  UNCHANGED <<control, worker>> /\ CallsGoOn
  BY <1>4, Retiring, AnsweringGoesOn
<1>5. ASSUME NEW f \in frames, AgentShutdown(f)
      PROVE  UNCHANGED <<control, worker>> /\ CallsGoOn
  BY <1>5, ShuttingDown, AnsweringGoesOn
<1>6. ASSUME NEW f \in frames, ForwardBegins(f)
      PROVE  UNCHANGED <<control, worker>> /\ CallsGoOn
  <2>1. f \in Frames /\ Refused \in Answers(f)
    BY <1>6, Beginning, FrameKinds
  <2>2. calls' = calls => CallsGoOn
    BY DEF CallsGoOn
  <2> QED BY <1>6, <2>1, <2>2, Beginning, AnsweringGoesOn
<1>7. ASSUME NEW n \in Stages, ForwardEnds(n)
      PROVE  UNCHANGED <<control, worker>> /\ CallsGoOn
  <2> DEFINE f == agent[n].busy.frame
  <2>1. f \in Frames /\ f \in RequestFrames /\ \E a \in Answers(f) : calls' = Answered(f, a)
    <3>1. f \in RequestFrames => Refused \in Answers(f)
      BY RequestIds DEF RequestFrames, Answers
    <3> QED BY <1>7, <3>1, Ending
  <2>2. CallsGoOn
    <3> HIDE DEF f
    <3> QED BY <2>1, AnsweringGoesOn
  <2> QED BY <1>7, <2>2, Ending
<1>8. ASSUME NEW n \in Stages, AgentStarts(n)
      PROVE  UNCHANGED <<control, worker>> /\ CallsGoOn
  BY <1>8, Starting DEF CallsGoOn
<1>9. ASSUME NEW n \in Stages, AgentRestarts(n)
      PROVE  UNCHANGED <<control, worker>> /\ CallsGoOn
  BY <1>9, Restarting DEF CallsGoOn
<1> QED BY <1>1, <1>2, <1>3, <1>4, <1>5, <1>6, <1>7, <1>8, <1>9 DEF Next, AgentStep

\* While a round is served main does nothing but end it.
LEMMA ServingEnds ==
  ASSUME main.phase = "serve", MainStep
  PROVE  EndRound
BY Zenon DEF MainStep, Greet, NotReadyInTime, StartPlan, SplitStage, MainCalls, MainReturns, StartDeparture,
   StartRetire, StartRound, Finish, CallingPhases

\* Nobody runs outside a round, nor when it ends.
LEMMA MainMeansIdle ==
  ASSUME WorkerInv, MainStep
  PROVE  \A r \in Requests : worker[r].status # "running" /\ calls[r] = Idle
<1> SUFFICES ASSUME NEW r \in Requests, worker[r].status = "running" PROVE FALSE
  BY DEF WorkerInv
<1>1. main.phase = "serve" /\ r \in Script[main.line].ids
  BY DEF WorkerInv
<1>2. worker[r].status \in {"done", "failed"}
  BY <1>1, ServingEnds DEF EndRound
<1> QED BY <1>2

\* The ids of earlier rounds stay those of earlier rounds.
LEMMA UsedOn ==
  ASSUME main.line \in Int, main'.line \in Int, main.line <= main'.line, NEW r, UsedBefore(r)
  PROVE  UsedBefore(r)'
BY DEF UsedBefore

\* Threads run only in their round, and wait for frames of that round.
LEMMA WorkerInvStep ==
  ASSUME ControlInv, ControlInv', Advance, MachineTypeOK, MachineTypeOK', WorkerInv, [Next]_vars
  PROVE  WorkerInv'
<1>0. /\ main.line \in Int /\ main'.line \in Int /\ main.line <= main'.line /\ alive \in SUBSET Stages
  BY DEF ControlInv, LineInv, SplitInv, ControlTypeOK, Advance
<1>1. CASE MainStep
  <2>1. \A r \in Requests : worker[r].status # "running" /\ calls[r] = Idle
    BY <1>1, MainMeansIdle
  <2>2. \A c \in Requests : calls'[c] = Idle
    BY <1>1, <2>1, MainTouches, MainCalling, RequestIds
  <2>3. ASSUME NEW r \in Requests, worker'[r] = worker[r], worker[r].status # "new"
        PROVE  UsedBefore(r)' \/ (main'.phase \in {"serve", "failed"} /\ r \in Script[main'.line].ids)
    <3>1. CASE UsedBefore(r)
      BY <1>0, <3>1, UsedOn
    <3>2. CASE main.phase = "failed" /\ r \in Script[main.line].ids
      <4>1. ~SplitStage
        BY <3>2 DEF SplitStage
      <4>2. UNCHANGED control
        BY <1>1, <3>2, <4>1, MainGoes DEF ControlInv
      <4> QED BY <3>2, <4>2 DEF control
    <3>3. CASE main.phase = "serve" /\ r \in Script[main.line].ids
      <4>1. ~SplitStage
        BY <3>3 DEF SplitStage
      <4>2. \/ UNCHANGED control
            \/ main'.phase = "failed" /\ main'.line = main.line
            \/ main'.line = main.line + 1
        BY <1>1, <3>3, <4>1, MainGoes DEF ControlInv
      <4>3. main.line \in 1..LastLine
        BY <3>3 DEF ControlInv, LineInv
      <4>4. main'.line = main.line + 1 => UsedBefore(r)'
        BY <3>3, <4>3, LineOrder DEF UsedBefore
      <4> QED BY <3>3, <4>2, <4>4 DEF control
    <3> QED BY <2>3, <3>1, <3>2, <3>3 DEF WorkerInv
  <2>4. ASSUME NEW r \in Requests, calls'[r] = Idle
        PROVE  ~Open(r)'
    BY <2>4 DEF Open, Idle
  <2>5. CASE ~StartRound
    <3>1. worker' = worker
      BY <1>1, <2>5, MainTouches, MainCalling
    <3> QED BY <2>1, <2>2, <2>3, <2>4, <3>1 DEF WorkerInv
  <2>6. CASE StartRound
    <3> SUFFICES ASSUME NEW r \in Requests
                 PROVE  /\ worker'[r].status = "running" =>
                             /\ main'.phase = "serve" /\ r \in Script[main'.line].ids
                             /\ worker'[r].todo # {} /\ worker'[r].todo \subseteq alive'
                             /\ \A i \in alive' \ worker'[r].todo, j \in worker'[r].todo : i < j
                        /\ worker'[r].status # "new" =>
                             UsedBefore(r)' \/ (main'.phase \in {"serve", "failed"} /\ r \in Script[main'.line].ids)
      BY <2>2, <2>4 DEF WorkerInv
    <3>1. CASE r \in Script[main.line].ids
      <4>1. /\ worker'[r].status = "running" /\ worker'[r].todo = alive /\ alive' = alive
            /\ main'.phase = "serve" /\ main'.line = main.line /\ main.line \notin PlanLines /\ main.phase = "next"
        <5>1. main' = [phase |-> "serve", line |-> main.line, todo |-> {}, epoch |-> main.epoch]
              /\ main.line \notin PlanLines /\ main.phase = "next" /\ alive' = alive
          BY <2>6, StartRoundTyped
        <5>2. worker'[r].status = "running" /\ worker'[r].todo = alive
          BY <2>6, <3>1, StartRoundTyped
        <5> QED BY <5>1, <5>2
      <4>2. alive # {}
        BY <4>1 DEF ControlInv, LineInv, Planned
      <4> QED BY <3>1, <4>1, <4>2
    <3>2. CASE r \notin Script[main.line].ids
      <4>1. worker'[r] = worker[r]
        BY <2>6, <3>2, StartRoundTyped
      <4> QED BY <2>1, <2>3, <4>1
    <3> QED BY <3>1, <3>2
  <2> QED BY <2>5, <2>6
<1>2. ASSUME NEW r \in Requests, WorkerCalls(r)
      PROVE  WorkerInv'
  <2> DEFINE f == RequestFrame(r)
  <2>1. worker[r].todo # {} /\ worker[r].status = "running"
    BY <1>2 DEF WorkerInv, WorkerCalls
  <2>2. /\ f.line = main.line /\ f.node = First(worker[r].todo)
        /\ f.what.op = IF worker[r].pass = 0 THEN "prefill" ELSE "decode"
        /\ \A c \in Callers \ {r} : calls'[c] = calls[c]
        /\ calls'[r] = SentCall(f) \/ calls'[r] = Raised
        /\ UNCHANGED <<control, worker>>
    BY <1>2, <2>1, WorkerCalling
  <2> HIDE DEF f
  <2>3. Open(r)' => calls'[r].frame = f
    BY <2>2 DEF Open, SentCall, Raised
  <2>4. \A q \in Requests \ {r} : calls'[q] = calls[q]
    BY <2>2, RequestIds
  <2> QED BY <2>1, <2>2, <2>3, <2>4 DEF WorkerInv, UsedBefore, Open, control
<1>3. ASSUME NEW r \in Requests, WorkerReturns(r)
      PROVE  WorkerInv'
  <2> DEFINE w == worker[r]
             v == worker'[r]
             rest == w.todo \ {First(w.todo)}
  <2>1. /\ w.status = "running" /\ calls'[r] = Idle /\ \A q \in Requests \ {r} : calls'[q] = calls[q]
        /\ UNCHANGED control /\ \A q \in Requests \ {r} : worker'[q] = worker[q]
        /\ \/ v.status \in {"failed", "done"}
           \/ rest # {} /\ v.status = "running" /\ v.todo = rest
           \/ v.status = "running" /\ v.todo = alive
    <3>1. w \in Workers
      BY DEF MachineTypeOK
    <3>2. [w EXCEPT !.status = "failed"].status = "failed"
      BY <3>1 DEF Workers
    <3> QED BY <1>0, <1>3, <3>2, Returning, RequestIds
  <2>2. /\ main.phase = "serve" /\ r \in Script[main.line].ids
        /\ w.todo # {} /\ w.todo \subseteq alive
        /\ \A i \in alive \ w.todo, j \in w.todo : i < j
    BY <2>1 DEF WorkerInv
  <2>3. First(w.todo) \in w.todo /\ \A j \in rest : First(w.todo) < j
    <3>1. w.todo \in SUBSET Stages /\ Stages \subseteq Int
      <4>1. Stages \subseteq Int
        BY SizesAssumption DEF Stages
      <4> HIDE DEF w
      <4> QED BY <1>0, <2>2, <4>1
    <3>2. First(w.todo) \in w.todo /\ \A j \in w.todo : First(w.todo) <= j
      BY <2>2, <3>1, FirstIsLeast
    <3>3. First(w.todo) \in Int /\ \A j \in rest : j \in Int /\ j # First(w.todo) /\ j \in w.todo
      BY <3>1, <3>2
    <3> QED BY <3>2, <3>3
  <2>4. ~Open(r)'
    BY <2>1 DEF Open, Idle
  <2>5. v.status = "running" =>
          /\ v.todo # {} /\ v.todo \subseteq alive
          /\ \A i \in alive \ v.todo, j \in v.todo : i < j
    <3>1. CASE v.todo = alive
      BY <2>2, <3>1
    <3>2. CASE rest # {} /\ v.todo = rest
      <4>1. ASSUME NEW i \in alive \ rest, NEW j \in rest PROVE i < j
        <5>1. CASE i \in w.todo
          BY <2>3, <5>1
        <5>2. CASE i \notin w.todo
          BY <2>2, <5>2
        <5> QED BY <5>1, <5>2
      <4> QED BY <2>2, <3>2, <4>1
    <3> QED BY <2>1, <3>1, <3>2
  <2> HIDE DEF w, v, rest
  <2>6. ASSUME NEW q \in Requests \ {r}
        PROVE  WorkerInv!(q)'
    BY <2>1 DEF WorkerInv, UsedBefore, Open, control
  <2>7. WorkerInv!(r)'
    BY <2>1, <2>2, <2>4, <2>5 DEF control, v
  <2> QED BY <2>6, <2>7 DEF WorkerInv
<1>4. CASE UNCHANGED <<control, worker>> /\ CallsGoOn
  <2> SUFFICES ASSUME NEW r \in Requests PROVE WorkerInv!(r)'
    BY DEF WorkerInv
  <2>1. WorkerInv!(r) /\ r \in Callers
    BY RequestIds DEF WorkerInv
  <2>2. calls[r] = Idle => ~Open(r)
    BY DEF Open, Idle
  <2>3. Open(r)' => Open(r) /\ calls'[r].frame.line = calls[r].frame.line
                    /\ calls'[r].frame.node = calls[r].frame.node /\ calls'[r].frame.what = calls[r].frame.what
    BY <1>4, <2>1 DEF CallsGoOn, Open, Raised
  <2>4. calls[r] = Idle => calls'[r] = Idle
    BY <1>4, <2>1, <2>2 DEF CallsGoOn
  <2> QED BY <1>4, <2>1, <2>3, <2>4 DEF UsedBefore, control
<1>5. CASE UNCHANGED vars
  BY <1>4, <1>5 DEF vars, control, CallsGoOn
<1> QED BY <1>1, <1>2, <1>3, <1>4, <1>5, QuietSteps DEF WorkerStep

-----------------------------------------------------------------------------
(* Main's calls and the frames under way *)

\* Main waits for the stage in turn, about what it is doing.
MainCallInv ==
  /\ main.phase \notin CallingPhases => calls[Main] = Idle
  /\ Open(Main) =>
       /\ calls[Main].frame.node = First(main.todo)
       /\ calls[Main].frame.what.op = Op(main.phase)
       /\ main.phase = "activate" => calls[Main].frame.what.epoch = main.epoch

\* A frame under way speaks of what main has planned by now.
FrameOK(f) ==
  /\ f.line <= main.line
  /\ f.what.op = "prepare" =>
       /\ f.what.epoch <= main.epoch
       /\ main.phase # "split" /\ f.what.epoch = main.epoch => f.what.range = plan.range[f.node]
  /\ f.what.op = "activate" => f.what.epoch <= main.epoch
  /\ f.what.op = "retire" => f.what.epoch < main.epoch
  /\ f.what.op \in ForwardOps =>
       f.line < main.line \/ main.phase = "failed" \/ (main.phase = "serve" /\ f.node \in alive)
  /\ f.try = 2 => Resent(f) \in broken

\* All that is under way: frames not executed, calls not read, passes that run.
FrameInv ==
  /\ \A f \in frames : FrameOK(f) /\ agent[f.node].up
  /\ \A c \in Callers : Open(c) => FrameOK(calls[c].frame)
  /\ \A n \in Stages : agent[n].busy # NotBusy =>
       FrameOK(agent[n].busy.frame) /\ agent[n].busy.frame.node = n /\ agent[n].up

\* No step lets main wait for something else.
LEMMA MainCallStep ==
  ASSUME ControlInv, MachineTypeOK, WorkerInv, MainCallInv, [Next]_vars
  PROVE  MainCallInv'
<1>0. ControlTypeOK /\ Main \in Callers /\ main.phase \in Phases
  BY RequestIds DEF ControlInv, SplitInv, ControlTypeOK
<1>1. CASE MainStep
  <2>1. CASE MainCalls
    <3>1. calls'[Main] = SentCall(MainFrame) \/ calls'[Main] = Raised
      BY <2>1, MainCalling
    <3>2. /\ UNCHANGED control /\ main.phase \in CallingPhases
          /\ MainFrame.node = First(main.todo) /\ MainFrame.what.op = Op(main.phase)
          /\ main.phase = "activate" => MainFrame.what.epoch = main.epoch
      BY <2>1, MainCalling, MainFrameTyped DEF MainFrame
    <3>3. Open(Main)' => calls'[Main].frame = MainFrame
      BY <3>1 DEF Open, SentCall, Raised
    <3> QED BY <3>2, <3>3 DEF MainCallInv, control
  <2>2. CASE MainReturns
    <3>1. calls'[Main] = Idle
      <4>1. calls' = [calls EXCEPT ![Main] = Idle]
        BY <2>2, Zenon DEF MainReturns
      <4> QED BY <4>1, <1>0, EmptyCalls, CallsUpdated
    <3> QED BY <3>1 DEF MainCallInv, Open, Idle
  <2>3. CASE ~MainCalls /\ ~MainReturns
    <3>1. main.phase \notin CallingPhases
      <4>1. main.phase \in {"wait", "next", "split", "serve"}
        BY <1>1, <2>3, Zenon DEF MainStep, Greet, NotReadyInTime, StartPlan, SplitStage, StartDeparture,
           StartRetire, StartRound, EndRound, Finish
      <4> QED BY <4>1 DEF CallingPhases
    <3>2. calls' = calls
      BY <1>1, <2>3, MainTouches
    <3> QED BY <3>1, <3>2 DEF MainCallInv, Open, Idle
  <2> QED BY <2>1, <2>2, <2>3
<1>2. ASSUME NEW r \in Requests, WorkerStep(r)
      PROVE  MainCallInv'
  <2>1. calls'[Main] = calls[Main]
    <3>1. Main \in Callers \ {r}
      BY <1>0, RequestIds
    <3>2. CASE WorkerCalls(r)
      <4>1. worker[r].todo # {}
        BY <3>2 DEF WorkerInv, WorkerCalls
      <4> QED BY <3>1, <3>2, <4>1, WorkerCalling
    <3>3. CASE WorkerReturns(r)
      <4>1. \A c \in Callers \ {r} : calls'[c] = calls[c]
        BY <1>0, <3>3, Returning DEF ControlTypeOK
      <4> QED BY <3>1, <4>1
    <3> QED BY <1>2, <3>2, <3>3 DEF WorkerStep
  <2>2. UNCHANGED control
    BY <1>2 DEF WorkerStep, WorkerCalls, WorkerReturns
  <2> QED BY <2>1, <2>2 DEF MainCallInv, Open, control
<1>3. CASE UNCHANGED control /\ CallsGoOn
  <2>1. \/ calls'[Main] = calls[Main]
        \/ Open(Main) /\ calls'[Main] = Raised
        \/ /\ Open(Main) /\ Open(Main)'
           /\ calls'[Main].frame.node = calls[Main].frame.node /\ calls'[Main].frame.what = calls[Main].frame.what
    BY <1>0, <1>3 DEF CallsGoOn
  <2>2. calls[Main] = Idle => ~Open(Main)
    BY DEF Open, Idle
  <2>3. calls'[Main] = Raised => ~Open(Main)'
    BY DEF Open, Raised
  <2>4. CASE calls'[Main] = calls[Main]
    BY <1>3, <2>4 DEF MainCallInv, Open, control
  <2>5. CASE calls'[Main] # calls[Main]
    BY <1>3, <2>1, <2>2, <2>3, <2>5 DEF MainCallInv, control
  <2> QED BY <2>4, <2>5
<1>4. CASE UNCHANGED vars
  BY <1>4 DEF vars, control, MainCallInv, Open
<1> QED BY <1>1, <1>2, <1>3, <1>4, QuietSteps DEF control

\* What main plans later does not contradict it.
LEMMA FrameOKOn ==
  ASSUME ControlInv, ControlInv', Advance
  PROVE  \A f \in Frames : FrameOK(f) => FrameOK(f)'
<1> SUFFICES ASSUME NEW f \in Frames, FrameOK(f) PROVE FrameOK(f)'
  OBVIOUS
<1>1. /\ f.line \in Int /\ f.node \in Stages
      /\ f.what.op \in {"prepare", "activate", "retire"} => f.what.epoch \in Int
  <2>1. Epochs \subseteq Int
    BY TwoEpochs
  <2> QED BY <2>1, FrameKinds
<1>2. main.line \in Int /\ main'.line \in Int /\ main.epoch \in Int /\ main'.epoch \in Int
  BY DEF ControlInv, SplitInv, ControlTypeOK
<1>3. f.line <= main'.line
  BY <1>1, <1>2 DEF FrameOK, Advance
<1>4. f.what.op = "prepare" =>
        /\ f.what.epoch <= main'.epoch
        /\ main'.phase # "split" /\ f.what.epoch = main'.epoch => f.what.range = plan'.range[f.node]
  BY <1>1, <1>2 DEF FrameOK, Advance
<1>5. /\ f.what.op = "activate" => f.what.epoch <= main'.epoch
      /\ f.what.op = "retire" => f.what.epoch < main'.epoch
  BY <1>1, <1>2 DEF FrameOK, Advance
<1>6. f.what.op \in ForwardOps =>
        f.line < main'.line \/ main'.phase = "failed" \/ (main'.phase = "serve" /\ f.node \in alive')
  BY <1>1, <1>2 DEF FrameOK, Advance, control
<1>7. f.try = 2 => Resent(f) \in broken'
  BY DEF FrameOK, Advance
<1> QED BY <1>3, <1>4, <1>5, <1>6, <1>7 DEF FrameOK, Resent

\* The frames that main and the threads send speak of the plan in force.
LEMMA MainFrameOK ==
  ASSUME ControlInv, main.phase \in CallingPhases
  PROVE  FrameOK(MainFrame)
<1>1. /\ MainFrame \in MainFrames /\ MainFrame.what.op = Op(main.phase)
      /\ main.phase \in {"prepare", "activate"} => MainFrame.what.epoch = main.epoch
      /\ main.phase = "retire" => MainFrame.what.epoch = main.epoch - 1
      /\ main.phase = "prepare" => MainFrame.what.range = plan.range[First(main.todo)]
  BY MainFrameTyped
<1>2. MainFrame.line = main.line /\ MainFrame.node = First(main.todo) /\ MainFrame.try = 1
  BY DEF MainFrame
<1>3. main.line \in Int /\ main.epoch \in Int
  BY DEF ControlInv, SplitInv, ControlTypeOK
<1> QED BY <1>1, <1>2, <1>3 DEF FrameOK, Op, CallingPhases, ForwardOps

\* A thread that calls sends a frame for a stage of the plan in force.
LEMMA RequestFrameOK ==
  ASSUME ControlInv, MachineTypeOK, WorkerInv, NEW r \in Requests, WorkerCalls(r)
  PROVE  worker[r].todo # {} /\ FrameOK(RequestFrame(r))
<1>1. /\ worker[r].status = "running" /\ main.phase = "serve"
      /\ worker[r].todo # {} /\ worker[r].todo \subseteq alive
  BY DEF WorkerCalls, WorkerInv
<1> DEFINE f == RequestFrame(r)
<1>2. /\ f.line = main.line /\ f.node = First(worker[r].todo) /\ f.try = 1 /\ f.what.op \in ForwardOps
      /\ First(worker[r].todo) \in worker[r].todo
  BY <1>1, WorkerCalling
<1>3. main.line \in Int
  BY DEF ControlInv, SplitInv, ControlTypeOK
<1> HIDE DEF f
<1>4. FrameOK(f)
  BY <1>1, <1>2, <1>3 DEF FrameOK, ForwardOps
<1> QED BY <1>1, <1>4 DEF f

\* A call that is open after a step is for a frame.
LEMMA OpenTypedNext ==
  ASSUME MachineTypeOK', NEW c \in Callers, Open(c)'
  PROVE  calls'[c].frame \in Frames
<1>1. calls'[c] \in CallsOf(c)
  BY DEF MachineTypeOK, CallsTyped, CallsOf
<1>2. calls'[c].st \in {"sent", "answered"}
  BY DEF Open
<1>3. calls'[c] # Idle /\ calls'[c] # Raised
  BY <1>2 DEF Idle, Raised
<1>4. CASE \E f \in Frames : calls'[c] = SentCall(f)
  BY <1>4 DEF SentCall
<1>5. CASE \E f \in Frames : \E a : calls'[c] = AnsweredCall(f, a)
  BY <1>5 DEF AnsweredCall
<1> QED BY <1>1, <1>3, <1>4, <1>5 DEF CallsOf

\* Nothing of what is under way changes but by the steps of its own.
LEMMA FrameInvFrom ==
  ASSUME ControlInv, ControlInv', Advance, MachineTypeOK, MachineTypeOK', FrameInv,
         \A f \in frames' : (f \in frames \/ FrameOK(f)') /\ agent'[f.node].up,
         \A c \in Callers, f \in Frames : Open(c)' /\ calls'[c].frame = f =>
           (Open(c) /\ calls[c].frame = f) \/ FrameOK(f)',
         \A n \in Stages : agent'[n].busy # NotBusy =>
           /\ agent'[n].up
           /\ \/ agent'[n].busy = agent[n].busy
              \/ agent'[n].busy.frame \in frames /\ agent'[n].busy.frame.node = n
  PROVE  FrameInv'
<1>1. \A f \in Frames : FrameOK(f) => FrameOK(f)'
  BY FrameOKOn
<1>2. frames \subseteq Frames
  BY DEF MachineTypeOK
<1>3. \A n \in Stages : agent[n].busy # NotBusy => agent[n].busy.frame \in Frames
  BY DEF MachineTypeOK, Agents, Frames
<1>4. \A f \in frames' : FrameOK(f)' /\ agent'[f.node].up
  BY <1>1, <1>2 DEF FrameInv
<1>5. ASSUME NEW c \in Callers, Open(c)'
      PROVE  FrameOK(calls[c].frame)'
  <2>1. PICK f \in Frames : calls'[c].frame = f
    BY <1>5, OpenTypedNext
  <2>2. Open(c) /\ calls[c].frame = f => FrameOK(f)
    BY DEF FrameInv
  <2>3. FrameOK(f)'
    BY <1>1, <1>5, <2>1, <2>2
  <2> QED BY <2>1, <2>3 DEF FrameOK, Resent
<1>6. ASSUME NEW n \in Stages, (agent[n].busy # NotBusy)'
      PROVE  FrameOK(agent[n].busy.frame)' /\ agent'[n].busy.frame.node = n /\ agent'[n].up
  <2>1. PICK f \in Frames : agent'[n].busy.frame = f
    BY <1>2, <1>3, <1>6
  <2>2. FrameOK(f) /\ f.node = n
    BY <1>2, <1>6, <2>1 DEF FrameInv
  <2>3. FrameOK(f)'
    BY <1>1, <2>2
  <2>4. (FrameOK(agent[n].busy.frame))'
    BY <2>1, <2>3 DEF FrameOK, Resent
  <2>5. agent'[n].busy.frame.node = n /\ agent'[n].up
    BY <1>6, <2>1, <2>2
  <2> QED BY <2>4, <2>5
<1> QED BY <1>4, <1>5, <1>6 DEF FrameInv

\* Where every frame goes that a step leaves behind.
LEMMA AnsweredFrames ==
  ASSUME MachineTypeOK, NEW f \in Frames, NEW a \in Answers(f), calls' = Answered(f, a)
  PROVE  \A c \in Callers : Open(c)' => Open(c) /\ calls'[c].frame = calls[c].frame
<1> SUFFICES ASSUME NEW c \in Callers, Open(c)'
             PROVE  Open(c) /\ calls'[c].frame = calls[c].frame
  OBVIOUS
<1>1. CASE calls'[c] = calls[c]
  BY <1>1 DEF Open
<1>2. CASE calls[c] = SentCall(f) /\ calls'[c] = AnsweredCall(f, a)
  BY <1>2 DEF Open, SentCall, AnsweredCall
<1> QED BY <1>1, <1>2, Answering

\* No step makes a frame speak of a plan that was never made.
LEMMA FrameInvStep ==
  ASSUME ControlInv, ControlInv', Advance, MachineTypeOK, MachineTypeOK', WorkerInv, MainCallInv, FrameInv,
         [Next]_vars
  PROVE  FrameInv'
<1>0. /\ \A f \in frames : agent[f.node].up /\ f \in Frames /\ f.node \in Stages
      /\ alive \in SUBSET Stages /\ agent \in [Stages -> Agents]
      /\ \A n \in Stages : agent[n].busy # NotBusy => agent[n].up
  BY FrameKinds DEF FrameInv, MachineTypeOK, ControlInv, SplitInv, ControlTypeOK
<1>a. ASSUME UNCHANGED <<calls, frames, machines>> PROVE FrameInv'
  <2> QED BY <1>0, <1>a, FrameInvFrom DEF machines, Open
<1>1. CASE MainStep
  <2>1. CASE MainCalls
    <3>1. /\ main.phase \in CallingPhases
          /\ \A c \in Callers \ {Main} : calls'[c] = calls[c]
          /\ \/ /\ agent[First(main.todo)].up /\ calls'[Main] = SentCall(MainFrame)
                /\ frames' = frames \cup {MainFrame}
             \/ calls'[Main] = Raised /\ frames' = frames
          /\ UNCHANGED <<control, worker, machines, broken, budget>>
      BY <2>1, MainCalling
    <3>2. PICK f \in Frames : f = MainFrame
      BY <2>1, MainCalling
    <3>3. FrameOK(f) /\ f.node = First(main.todo) /\ FrameOK(f)'
      BY <3>1, <3>2, MainFrameOK, FrameOKOn DEF MainFrame
    <3>4. \A g \in frames' : (g \in frames \/ FrameOK(g)') /\ agent'[g.node].up
      BY <1>0, <3>1, <3>2, <3>3 DEF machines
    <3>5. \A c \in Callers, g \in Frames : Open(c)' /\ calls'[c].frame = g =>
            (Open(c) /\ calls[c].frame = g) \/ FrameOK(g)'
      BY <3>1, <3>2, <3>3 DEF Open, SentCall, Raised
    <3> QED BY <1>0, <3>1, <3>4, <3>5, FrameInvFrom DEF machines
  <2>2. CASE MainReturns
    <3>1. /\ calls'[Main] = Idle /\ UNCHANGED <<frames, machines>>
          /\ \A c \in Callers \ {Main} : calls'[c] = calls[c]
      <4>1. ~MainCalls \/ UNCHANGED <<frames, machines>>
        BY <2>2, Zenon DEF MainReturns
      <4>2. calls' = [calls EXCEPT ![Main] = Idle] /\ UNCHANGED <<frames, machines>>
        BY <2>2, Zenon DEF MainReturns
      <4> QED BY <4>2, RequestIds, EmptyCalls, CallsUpdated
    <3>2. \A c \in Callers : Open(c)' => Open(c) /\ calls'[c].frame = calls[c].frame
      BY <3>1 DEF Open, Idle
    <3> QED BY <1>0, <3>1, <3>2, FrameInvFrom DEF machines
  <2>3. CASE StartRound
    BY <1>a, <2>3 DEF StartRound
  <2> QED BY <1>1, <1>a, <2>1, <2>2, <2>3, MainTouches
<1>2. ASSUME NEW r \in Requests, WorkerCalls(r)
      PROVE  FrameInv'
  <2>1. worker[r].todo # {} /\ FrameOK(RequestFrame(r))
    BY <1>2, RequestFrameOK
  <2> PICK f \in Frames : f = RequestFrame(r)
    BY <1>2, <2>1, WorkerCalling
  <2>2. /\ \A c \in Callers \ {r} : calls'[c] = calls[c]
        /\ f \in Frames
        /\ \/ /\ agent[f.node].up /\ calls'[r] = SentCall(f) /\ frames' = frames \cup {f}
           \/ calls'[r] = Raised /\ frames' = frames
        /\ UNCHANGED <<control, worker, machines, broken, budget>>
    BY <1>2, <2>1, WorkerCalling
  <2>3. FrameOK(f)'
    BY <2>1, <2>2, FrameOKOn
  <2>4. \A g \in frames' : (g \in frames \/ FrameOK(g)') /\ agent'[g.node].up
    BY <1>0, <2>2, <2>3 DEF machines
  <2>5. \A c \in Callers, g \in Frames : Open(c)' /\ calls'[c].frame = g =>
          (Open(c) /\ calls[c].frame = g) \/ FrameOK(g)'
    BY <2>2, <2>3 DEF Open, SentCall, Raised
  <2> QED BY <1>0, <2>2, <2>4, <2>5, FrameInvFrom DEF machines
<1>3. ASSUME NEW r \in Requests, WorkerReturns(r)
      PROVE  FrameInv'
  <2>1. /\ calls'[r] = Idle /\ \A c \in Callers \ {r} : calls'[c] = calls[c]
        /\ UNCHANGED <<frames, machines>>
    BY <1>0, <1>3, Returning
  <2>2. \A c \in Callers : Open(c)' => Open(c) /\ calls'[c].frame = calls[c].frame
    BY <2>1 DEF Open, Idle
  <2> QED BY <1>0, <2>1, <2>2, FrameInvFrom DEF machines
<1>4. ASSUME NEW c \in Callers, Break(c)
      PROVE  FrameInv'
  <2>1. calls[c].frame \in Frames /\ [calls[c].frame EXCEPT !.try = 2] \in Frames
    BY <1>4, Breaking
  <2> PICK f \in Frames, again \in Frames : f = calls[c].frame /\ again = [calls[c].frame EXCEPT !.try = 2]
    BY <2>1
  <2>2. /\ Open(c) /\ again.from = f.from /\ again.line = f.line /\ again.node = f.node
        /\ again.what = f.what /\ again.try = 2
        /\ \A d \in Callers \ {c} : calls'[d] = calls[d]
        /\ \/ /\ agent[f.node].up
              /\ calls'[c] = SentCall(again) /\ frames' \subseteq frames \cup {again}
              /\ Resent(f) \in broken'
           \/ calls'[c] = Raised /\ frames' \subseteq frames
        /\ UNCHANGED <<control, worker, machines>>
    BY <1>4, Breaking DEF Open, Resent
  <2>3. FrameOK(f)
    BY <2>2 DEF FrameInv
  <2>4. Resent(f) \in broken' => FrameOK(again)'
    BY <2>2, <2>3 DEF FrameOK, Resent, control
  <2>5. \A g \in frames' : (g \in frames \/ FrameOK(g)') /\ agent'[g.node].up
    BY <1>0, <2>2, <2>4 DEF machines
  <2>6. \A d \in Callers, g \in Frames : Open(d)' /\ calls'[d].frame = g =>
          (Open(d) /\ calls[d].frame = g) \/ FrameOK(g)'
    BY <2>2, <2>4 DEF Open, SentCall, Raised
  <2> QED BY <1>0, <2>2, <2>5, <2>6, FrameInvFrom DEF machines
<1>5. ASSUME NEW f \in frames, AgentPrepare(f)
      PROVE  FrameInv'
  <2>1. f \in Frames /\ \E a \in Answers(f) : calls' = Answered(f, a)
    BY <1>5, Preparing
  <2>2. frames' \subseteq frames /\ \A n \in Stages : agent'[n].up = agent[n].up /\ agent'[n].busy = agent[n].busy
    <3>1. /\ frames' = frames \ {f}
          /\ \A m \in Stages :
              \/ agent'[m] = agent[m]
              \/ agent'[m] = [agent[m] EXCEPT !.prepared = [@ EXCEPT ![f.what.epoch] = f.what.range]]
      BY <1>5, Preparing
    <3> SUFFICES ASSUME NEW m \in Stages PROVE agent'[m].up = agent[m].up /\ agent'[m].busy = agent[m].busy
      BY <3>1
    <3>2. agent[m] \in Agents
      BY <1>0
    <3> DEFINE prepared == [agent[m].prepared EXCEPT ![f.what.epoch] = f.what.range]
    <3>3. agent'[m] = agent[m] \/ agent'[m] = [agent[m] EXCEPT !.prepared = prepared]
      BY <3>1
    <3> HIDE DEF prepared
    <3> QED BY <3>2, <3>3 DEF Agents
  <2> QED BY <1>0, <2>1, <2>2, AnsweredFrames, FrameInvFrom
<1>6. ASSUME NEW f \in frames, AgentActivate(f)
      PROVE  FrameInv'
  <2>1. f \in Frames /\ \E a \in Answers(f) : calls' = Answered(f, a)
    <3>1. f \in Frames /\ f.what.op = "activate" /\ (calls' = Answered(f, Refused) \/ calls' = Answered(f, Success))
      BY <1>6, Activating
    <3> QED BY <3>1, FrameKinds
  <2>2. frames' \subseteq frames /\ \A n \in Stages : agent'[n].up = agent[n].up /\ agent'[n].busy = agent[n].busy
    <3>1. /\ frames' = frames \ {f} /\ f.node \in Stages
          /\ \/ agent' = agent
             \/ /\ agent'[f.node] = [agent[f.node] EXCEPT !.active = f.what.epoch]
                /\ \A m \in Stages \ {f.node} : agent'[m] = agent[m]
      BY <1>0, <1>6, Activating
    <3>2. agent[f.node] \in Agents
      BY <1>0
    <3>3. [agent[f.node] EXCEPT !.active = f.what.epoch].up = agent[f.node].up
          /\ [agent[f.node] EXCEPT !.active = f.what.epoch].busy = agent[f.node].busy
      BY <3>2 DEF Agents
    <3> QED BY <3>1, <3>3
  <2> QED BY <1>0, <2>1, <2>2, AnsweredFrames, FrameInvFrom
<1>7. ASSUME NEW f \in frames, AgentRetire(f)
      PROVE  FrameInv'
  <2>1. f \in Frames /\ Success \in Answers(f) /\ calls' = Answered(f, Success)
    BY <1>7, Retiring
  <2>2. frames' \subseteq frames /\ \A n \in Stages : agent'[n].up = agent[n].up /\ agent'[n].busy = agent[n].busy
    <3>1. /\ frames' = frames \ {f}
          /\ agent'[f.node].busy = agent[f.node].busy /\ agent'[f.node].up = agent[f.node].up
          /\ \A m \in Stages \ {f.node} : agent'[m] = agent[m]
      BY <1>7, Retiring
    <3> QED BY <1>0, <3>1
  <2> QED BY <1>0, <2>1, <2>2, AnsweredFrames, FrameInvFrom
<1>8. ASSUME NEW f \in frames, AgentShutdown(f)
      PROVE  FrameInv'
  <2>1. /\ f \in Frames /\ Success \in Answers(f) /\ calls' = Answered(f, Success)
        /\ frames' = {g \in frames : g.node # f.node}
        /\ agent'[f.node].busy = NotBusy /\ \A m \in Stages \ {f.node} : agent'[m] = agent[m]
    BY <1>8, ShuttingDown DEF Emptied
  <2> QED BY <1>0, <2>1, AnsweredFrames, FrameInvFrom
<1>9. ASSUME NEW f \in frames, ForwardBegins(f)
      PROVE  FrameInv'
  <2>1. \A c \in Callers : Open(c)' => Open(c) /\ calls'[c].frame = calls[c].frame
    <3>1. f \in Frames /\ f.what.op \in ForwardOps /\ (calls' = Answered(f, Refused) \/ calls' = calls)
      BY <1>9, Beginning
    <3>2. Refused \in Answers(f)
      BY <3>1, FrameKinds
    <3>3. CASE calls' = calls
      BY <3>3 DEF Open
    <3> QED BY <3>1, <3>2, <3>3, AnsweredFrames
  <2> DEFINE job == [epoch |-> agent[f.node].active, range |-> agent[f.node].prepared[agent[f.node].active], frame |-> f]
  <2>2. /\ frames' = frames \ {f}
        /\ \/ UNCHANGED machines
           \/ /\ agent'[f.node] = [agent[f.node] EXCEPT !.busy = job]
              /\ \A m \in Stages \ {f.node} : agent'[m] = agent[m]
    BY <1>9, Beginning
  <2>3. job.frame = f
    OBVIOUS
  <2> HIDE DEF job
  <2>4. CASE UNCHANGED machines
    BY <1>0, <2>1, <2>2, <2>4, FrameInvFrom DEF machines
  <2>5. CASE /\ agent'[f.node] = [agent[f.node] EXCEPT !.busy = job]
             /\ \A m \in Stages \ {f.node} : agent'[m] = agent[m]
    <3>1. agent[f.node] \in Agents
      BY <1>0
    <3>2. agent'[f.node].busy = job /\ agent'[f.node].up = agent[f.node].up
      BY <2>5, <3>1 DEF Agents
    <3>3. \A g \in frames' : (g \in frames \/ FrameOK(g)') /\ agent'[g.node].up
      BY <1>0, <2>2, <2>5, <3>2
    <3>4. \A n \in Stages : agent'[n].busy # NotBusy =>
           /\ agent'[n].up
           /\ \/ agent'[n].busy = agent[n].busy
              \/ agent'[n].busy.frame \in frames /\ agent'[n].busy.frame.node = n
      BY <1>0, <2>3, <2>5, <3>2
    <3> QED BY <2>1, <3>3, <3>4, FrameInvFrom
  <2> QED BY <2>2, <2>4, <2>5
<1>10. ASSUME NEW n \in Stages, ForwardEnds(n)
       PROVE  FrameInv'
  <2> DEFINE f == agent[n].busy.frame
  <2>1. f \in Frames /\ \E a \in Answers(f) : calls' = Answered(f, a)
    <3>1. f \in RequestFrames => Refused \in Answers(f)
      BY RequestIds DEF RequestFrames, Answers
    <3> QED BY <1>10, <3>1, Ending
  <2>2. \A c \in Callers : Open(c)' => Open(c) /\ calls'[c].frame = calls[c].frame
    <3> HIDE DEF f
    <3> QED BY <2>1, AnsweredFrames
  <2>3. /\ frames' = frames
        /\ agent'[n] = [agent[n] EXCEPT !.busy = NotBusy]
        /\ \A m \in Stages \ {n} : agent'[m] = agent[m]
    BY <1>10, Ending
  <2>4. agent'[n].busy = NotBusy /\ agent'[n].up = agent[n].up
    <3>1. agent[n] \in Agents
      BY <1>0
    <3> QED BY <2>3, <3>1 DEF Agents
  <2> QED BY <1>0, <2>2, <2>3, <2>4, FrameInvFrom
<1>11. ASSUME NEW n \in Stages, AgentStarts(n)
       PROVE  FrameInv'
  <2>1. /\ UNCHANGED <<calls, frames>>
        /\ agent'[n] = [agent[n] EXCEPT !.up = TRUE]
        /\ \A m \in Stages \ {n} : agent'[m] = agent[m]
    BY <1>11, Starting
  <2>2. agent'[n].busy = agent[n].busy /\ agent'[n].up
    <3>1. agent[n] \in Agents
      BY <1>0
    <3> QED BY <2>1, <3>1 DEF Agents
  <2> QED BY <1>0, <2>1, <2>2, FrameInvFrom DEF Open
<1>12. ASSUME NEW n \in Stages, AgentRestarts(n)
       PROVE  FrameInv'
  <2>1. /\ UNCHANGED calls
        /\ frames' = {f \in frames : f.node # n}
        /\ agent'[n].busy = NotBusy /\ \A m \in Stages \ {n} : agent'[m] = agent[m]
    BY <1>12, Restarting DEF Emptied
  <2> QED BY <1>0, <2>1, FrameInvFrom DEF Open
<1>13. CASE UNCHANGED vars
  BY <1>a, <1>13 DEF vars, machines
<1> QED BY <1>1, <1>2, <1>3, <1>4, <1>5, <1>6, <1>7, <1>8, <1>9, <1>10, <1>11, <1>12, <1>13
     DEF Next, WorkerStep, AgentStep

-----------------------------------------------------------------------------
(* What agents have prepared *)

\* What an agent has prepared and activated comes from the plans made so far.
AgentOK(a, n) ==
  /\ a.active <= main.epoch
  /\ a.active # 0 => a.prepared[a.active] # NoRange
  /\ \A e \in Epochs : a.prepared[e] # NoRange => e <= main.epoch
  /\ main.phase # "split" /\ main.epoch # 0 => a.prepared[main.epoch] \in {NoRange, plan.range[n]}

AgentInv == \A n \in Stages : AgentOK(agent[n], n)

\* What an agent has prepared stays planned when main goes on.
LEMMA AgentOKOn ==
  ASSUME ControlInv, ControlInv', Advance
  PROVE  \A n \in Stages, a \in Agents : AgentOK(a, n) => AgentOK(a, n)'
<1> SUFFICES ASSUME NEW n \in Stages, NEW a \in Agents, AgentOK(a, n) PROVE AgentOK(a, n)'
  OBVIOUS
<1>1. Epochs = {1, 2} /\ a.active \in Int /\ a.prepared \in [Epochs -> Int \X Int]
  BY TwoEpochs DEF Agents
<1>2. /\ main.epoch \in 0..2 /\ main'.epoch \in 0..2 /\ main.epoch <= main'.epoch
      /\ main'.phase # "split" /\ main'.epoch = main.epoch
           => main.phase # "split" /\ plan'.range = plan.range
  BY DEF ControlInv, LineInv, Advance
<1>3. main'.phase # "split" /\ main'.epoch # 0 => a.prepared[main'.epoch] \in {NoRange, plan'.range[n]}
  <2>1. CASE main'.epoch = main.epoch
    BY <1>2, <2>1 DEF AgentOK
  <2>2. CASE main'.epoch # main.epoch
    <3>1. main'.epoch \in Epochs /\ ~ main'.epoch <= main.epoch
      BY <1>1, <1>2, <2>2
    <3> QED BY <3>1 DEF AgentOK
  <2> QED BY <2>1, <2>2
<1>4. a.active <= main'.epoch /\ \A e \in Epochs : a.prepared[e] # NoRange => e <= main'.epoch
  BY <1>1, <1>2 DEF AgentOK
<1> QED BY <1>3, <1>4 DEF AgentOK

\* An agent that begins again has nothing that could be wrong.
LEMMA EmptyAgentOK ==
  ASSUME ControlInv, NEW n \in Stages, NEW a \in Agents, a.active = 0,
         \A e \in Epochs : a.prepared[e] = NoRange
  PROVE  AgentOK(a, n)
<1>1. Epochs = {1, 2} /\ main.epoch \in 0..2
  BY TwoEpochs DEF ControlInv, LineInv
<1> QED BY <1>1 DEF AgentOK

\* Only what is prepared and what is active counts.
LEMMA AgentInvFrom ==
  ASSUME ControlInv, ControlInv', Advance, MachineTypeOK, MachineTypeOK', AgentInv,
         \A n \in Stages :
           \/ agent'[n].active = agent[n].active /\ agent'[n].prepared = agent[n].prepared
           \/ AgentOK(agent[n], n)'
  PROVE  AgentInv'
<1> SUFFICES ASSUME NEW n \in Stages, agent'[n].active = agent[n].active,
                    agent'[n].prepared = agent[n].prepared
             PROVE  AgentOK(agent[n], n)'
  BY DEF AgentInv
<1>1. PICK a \in Agents : a = agent[n]
  BY DEF MachineTypeOK
<1>2. AgentOK(a, n)'
  BY <1>1, AgentOKOn DEF AgentInv
<1> QED BY <1>1, <1>2 DEF AgentOK

\* No step lets an agent have something that was not planned.
LEMMA AgentInvStep ==
  ASSUME ControlInv, ControlInv', Advance, MachineTypeOK, MachineTypeOK', WorkerInv, FrameInv, AgentInv,
         [Next]_vars
  PROVE  AgentInv'
<1>0. agent \in [Stages -> Agents] /\ \A f \in frames : f \in Frames /\ f.node \in Stages /\ FrameOK(f)
  BY FrameKinds DEF MachineTypeOK, FrameInv
<1>a. agent' = agent => AgentInv'
  BY AgentInvFrom
<1>b. Epochs = {1, 2} /\ main.epoch \in 0..2
  BY TwoEpochs DEF ControlInv, LineInv
<1>1. CASE MainStep
  <2>1. agent' = agent
    BY <1>1, MainTouches, MainCalling DEF machines, StartRound
  <2> QED BY <1>a, <2>1
<1>2. ASSUME NEW r \in Requests, WorkerStep(r)
      PROVE  AgentInv'
  <2>1. agent' = agent
    BY <1>2, Zenon DEF WorkerStep, WorkerCalls, Send, WorkerReturns, machines
  <2> QED BY <1>a, <2>1
<1>3. ASSUME NEW c \in Callers, Break(c)
      PROVE  AgentInv'
  BY <1>3, <1>a DEF Break, machines
<1>4. ASSUME NEW f \in frames, AgentPrepare(f)
      PROVE  AgentInv'
  <2>1. /\ f \in Frames /\ f.what.op = "prepare" /\ control' = control
        /\ \A m \in Stages :
             \/ agent'[m] = agent[m]
             \/ /\ m = f.node
                /\ agent'[m] = [agent[m] EXCEPT !.prepared = [@ EXCEPT ![f.what.epoch] = f.what.range]]
        /\ f.what.epoch \in Epochs /\ f.what.range \in Int \X Int
    BY <1>4, Preparing, FrameKinds DEF control
  <2>2. ASSUME NEW m \in Stages, agent'[m] # agent[m]
        PROVE  AgentOK(agent[m], m)'
    <3> DEFINE e == f.what.epoch
               range == f.what.range
               prepared == [agent[m].prepared EXCEPT ![e] = range]
    <3>1. m = f.node /\ agent'[m] = [agent[m] EXCEPT !.prepared = prepared]
      BY <2>1, <2>2
    <3>2. agent[m] \in Agents
      BY <1>0
    <3>3. /\ e \in Epochs /\ range \in Int \X Int /\ e <= main.epoch
          /\ main.phase # "split" /\ e = main.epoch => range = plan.range[m]
          /\ range # NoRange
      <4>1. LegalRange(range)
        BY <1>4, <2>2 DEF AgentPrepare
      <4> QED BY <1>0, <2>1, <3>1, <4>1 DEF FrameOK, LegalRange, NoRange
    <3>4. AgentOK(agent[m], m)
      BY DEF AgentInv
    <3> HIDE DEF e, range
    <3>5. /\ \A d \in Epochs : prepared[d] = IF d = e THEN range ELSE agent[m].prepared[d]
          /\ agent[m].active \in {0} \cup Epochs
      BY <3>2, <3>3 DEF Agents
    <3> HIDE DEF prepared
    <3>6. agent'[m].prepared = prepared /\ agent'[m].active = agent[m].active
      BY <3>1, <3>2 DEF Agents
    <3> QED BY <1>b, <2>1, <3>3, <3>4, <3>5, <3>6 DEF AgentOK, control
  <2> QED BY <2>2, AgentInvFrom
<1>5. ASSUME NEW f \in frames, AgentActivate(f)
      PROVE  AgentInv'
  <2>1. /\ f \in Frames /\ f.what.op = "activate" /\ f.node \in Stages /\ f.what.epoch \in Epochs
        /\ control' = control /\ f.what.epoch <= main.epoch
    BY <1>0, <1>5, Activating, FrameKinds DEF control, FrameOK
  <2>2. CASE /\ agent[f.node].prepared[f.what.epoch] # NoRange
             /\ agent'[f.node] = [agent[f.node] EXCEPT !.active = f.what.epoch]
             /\ \A m \in Stages \ {f.node} : agent'[m] = agent[m]
    <3>1. agent[f.node] \in Agents
      BY <1>0, <2>1
    <3>2. agent'[f.node].active = f.what.epoch /\ agent'[f.node].prepared = agent[f.node].prepared
      BY <2>2, <3>1 DEF Agents
    <3>3. AgentOK(agent[f.node], f.node)
      BY <2>1 DEF AgentInv
    <3>4. PICK n \in Stages : n = f.node
      BY <2>1
    <3>5. AgentOK(agent[n], n)'
      BY <2>1, <2>2, <3>2, <3>3, <3>4 DEF AgentOK, control
    <3> QED BY <2>2, <3>4, <3>5, AgentInvFrom
  <2> QED BY <1>5, <1>a, <2>2, Activating
<1>6. ASSUME NEW f \in frames, AgentRetire(f)
      PROVE  AgentInv'
  <2>1. PICK n \in Stages, e \in Epochs : n = f.node /\ e = f.what.epoch
    BY <1>0, <1>6, Retiring
  <2>2. /\ control' = control
        /\ agent'[n].active = IF agent[n].active = e THEN 0 ELSE agent[n].active
        /\ agent'[n].prepared = [agent[n].prepared EXCEPT ![e] = NoRange]
        /\ \A m \in Stages \ {n} : agent'[m] = agent[m]
    BY <1>6, <2>1, Retiring DEF control
  <2>3. agent[n] \in Agents /\ AgentOK(agent[n], n)
    BY <1>0 DEF AgentInv
  <2>4. \A d \in Epochs : agent'[n].prepared[d] = IF d = e THEN NoRange ELSE agent[n].prepared[d]
    BY <2>2, <2>3 DEF Agents
  <2>5. agent[n].active \in {0} \cup Epochs
    BY <2>3 DEF Agents
  <2>6. AgentOK(agent[n], n)'
    BY <1>b, <2>2, <2>3, <2>4, <2>5 DEF AgentOK, control
  <2> QED BY <2>2, <2>6, AgentInvFrom
<1>7. ASSUME NEW n \in Stages, Emptied(n)
      PROVE  AgentInv'
  <2>1. PICK a \in Agents : a = agent'[n]
    BY <1>7 DEF Emptied
  <2>2. AgentOK(a, n)
    BY <1>7, <2>1, EmptyAgentOK DEF Emptied
  <2>3. AgentOK(a, n)'
    BY <2>2, AgentOKOn
  <2>4. AgentOK(agent[n], n)'
    BY <2>1, <2>3 DEF AgentOK
  <2> QED BY <1>7, <2>4, AgentInvFrom DEF Emptied
<1>8. ASSUME NEW f \in frames, ForwardBegins(f)
      PROVE  AgentInv'
  <2>1. CASE /\ agent'[f.node] = [agent[f.node] EXCEPT !.busy =
                  [epoch |-> agent[f.node].active, range |-> agent[f.node].prepared[agent[f.node].active], frame |-> f]]
             /\ \A m \in Stages \ {f.node} : agent'[m] = agent[m]
    <3>1. agent[f.node] \in Agents
      BY <1>0
    <3>2. agent'[f.node].active = agent[f.node].active /\ agent'[f.node].prepared = agent[f.node].prepared
      BY <2>1, <3>1 DEF Agents
    <3> QED BY <2>1, <3>2, AgentInvFrom
  <2> QED BY <1>8, <1>a, <2>1, Beginning DEF machines
<1>9. ASSUME NEW n \in Stages, ForwardEnds(n)
      PROVE  AgentInv'
  <2>1. /\ agent'[n] = [agent[n] EXCEPT !.busy = NotBusy] /\ \A m \in Stages \ {n} : agent'[m] = agent[m]
        /\ agent[n] \in Agents
    BY <1>0, <1>9, Ending
  <2>2. agent'[n].active = agent[n].active /\ agent'[n].prepared = agent[n].prepared
    BY <2>1 DEF Agents
  <2> QED BY <2>1, <2>2, AgentInvFrom
<1>10. ASSUME NEW n \in Stages, AgentStarts(n)
       PROVE  AgentInv'
  <2>1. /\ agent'[n] = [agent[n] EXCEPT !.up = TRUE] /\ \A m \in Stages \ {n} : agent'[m] = agent[m]
        /\ agent[n] \in Agents
    BY <1>0, <1>10, Starting
  <2>2. agent'[n].active = agent[n].active /\ agent'[n].prepared = agent[n].prepared
    BY <2>1 DEF Agents
  <2> QED BY <2>1, <2>2, AgentInvFrom
<1>11. CASE UNCHANGED vars
  BY <1>a, <1>11 DEF vars
<1>12. ASSUME NEW f \in frames, AgentShutdown(f) PROVE AgentInv'
  BY <1>0, <1>7, <1>12, ShuttingDown
<1>13. ASSUME NEW n \in Stages, AgentRestarts(n) PROVE AgentInv'
  BY <1>7, <1>13, Restarting
<1> QED BY <1>1, <1>2, <1>3, <1>4, <1>5, <1>6, <1>8, <1>9, <1>10, <1>11, <1>12, <1>13 DEF Next, AgentStep

-----------------------------------------------------------------------------
(* Agents switch once *)

\* Unless an activation was sent twice, there is one at a time, and main waits for it.
ActivationsAwaited == \A f \in frames : f.what.op = "activate" => calls[Main] = SentCall(f)

\* The stage n has been told to use the plan in force.
Switched(n) ==
  \/ main.phase \in {"next", "serve", "retire", "leave"} /\ main.line \notin PlanLines
  \/ main.phase = "activate" /\ (n \notin main.todo \/ (n = First(main.todo) /\ ReturnedOk(Main)))

SwitchedUse == \A n \in alive : Switched(n) => agent[n].active \in {0, main.epoch}

\* An answer takes its frame along.
LEMMA AnsweredActivations ==
  ASSUME MachineTypeOK, ActivationsAwaited, NEW f \in Frames, NEW a \in Answers(f), calls' = Answered(f, a),
         frames' \subseteq frames, f.from = Main => f \notin frames'
  PROVE  ActivationsAwaited'
<1> SUFFICES ASSUME NEW g \in frames', g.what.op = "activate" PROVE calls'[Main] = SentCall(g)
  BY DEF ActivationsAwaited, SentCall
<1>1. calls[Main] = SentCall(g) /\ Main \in Callers
  BY RequestIds DEF ActivationsAwaited
<1>2. CASE calls[Main] = SentCall(f) /\ Main = f.from
  BY <1>1, <1>2 DEF SentCall
<1> QED BY <1>1, <1>2, Answering

\* While no activation was sent twice, main waits for the only one under way.
LEMMA ActivationsStep ==
  ASSUME ControlInv, MachineTypeOK, WorkerInv, MainCallInv, FrameInv, ActivationsAwaited, [Next]_vars,
         Activation \notin broken'
  PROVE  ActivationsAwaited'
<1>0. /\ Main \in Callers /\ Main \notin Requests
      /\ frames \subseteq Frames /\ alive \in SUBSET Stages
  BY RequestIds DEF MachineTypeOK, ControlInv, SplitInv, ControlTypeOK
<1>a. ASSUME frames' \subseteq frames, calls'[Main] = calls[Main] PROVE ActivationsAwaited'
  BY <1>a DEF ActivationsAwaited, SentCall
<1>1. CASE MainStep
  <2>1. CASE MainCalls
    <3>1. /\ calls[Main] = Idle
          /\ \/ calls'[Main] = SentCall(MainFrame) /\ frames' = frames \cup {MainFrame}
             \/ frames' = frames
      BY <2>1, MainCalling
    <3>2. \A f : SentCall(f).st = "sent" /\ Idle.st = "idle"
      BY DEF SentCall, Idle
    <3>3. \A f \in frames : f.what.op # "activate"
      BY <3>1, <3>2 DEF ActivationsAwaited
    <3> QED BY <3>1, <3>3 DEF ActivationsAwaited, SentCall
  <2>2. CASE MainReturns
    <3>1. Returned(Main) /\ frames' = frames
      BY <2>2, Zenon DEF MainReturns
    <3> QED BY <3>1 DEF Returned, ActivationsAwaited, SentCall
  <2>3. CASE StartRound
    BY <1>a, <2>3 DEF StartRound
  <2> QED BY <1>1, <1>a, <2>1, <2>2, <2>3, MainTouches
<1>2. ASSUME NEW r \in Requests, WorkerCalls(r)
      PROVE  ActivationsAwaited'
  <2>1. worker[r].todo # {}
    BY <1>2, RequestFrameOK
  <2>2. /\ RequestFrame(r).what.op \in ForwardOps /\ calls'[Main] = calls[Main]
        /\ frames' \subseteq frames \cup {RequestFrame(r)}
    BY <1>0, <1>2, <2>1, WorkerCalling
  <2> QED BY <2>2 DEF ActivationsAwaited, SentCall, ForwardOps
<1>3. ASSUME NEW r \in Requests, WorkerReturns(r)
      PROVE  ActivationsAwaited'
  <2>1. frames' = frames /\ calls'[Main] = calls[Main]
    BY <1>0, <1>3, Returning
  <2> QED BY <1>a, <2>1
<1>4. ASSUME NEW c \in Callers, Break(c)
      PROVE  ActivationsAwaited'
  <2> DEFINE f == calls[c].frame
             again == [f EXCEPT !.try = 2]
  <2>a. /\ calls[c].st \in {"sent", "answered"} /\ f \in Frames /\ f.from = c /\ again.what = f.what
        /\ \A d \in Callers \ {c} : calls'[d] = calls[d]
        /\ \/ /\ frames' \subseteq frames \cup {again}
              /\ broken' = broken \cup {IF f.what.op = "activate" THEN Activation ELSE c}
           \/ ~(f.try = 1 /\ agent[f.node].up) /\ frames' \subseteq frames
    BY <1>4, Breaking
  <2>0. broken \subseteq broken'
    BY <1>4, Breaking
  <2>2. f.try \in {1, 2} /\ (f.what.op = "activate" => f.from = Main)
    BY <2>a, FrameKinds
  <2> HIDE DEF f, again
  <2>1. /\ Open(c) /\ f \in Frames /\ f.from = c /\ again.what = f.what
        /\ \A d \in Callers \ {c} : calls'[d] = calls[d]
        /\ \/ /\ frames' \subseteq frames \cup {again}
              /\ Resent(f) \in broken'
           \/ ~(f.try = 1 /\ agent[f.node].up) /\ frames' \subseteq frames
    BY <2>a DEF Open, Resent
  <2>3. FrameOK(f)
    BY <2>1 DEF FrameInv, f
  <2>4. \A g \in frames' : g.what.op = "activate" => g \in frames /\ calls[Main] = SentCall(g)
    BY <2>1 DEF ActivationsAwaited, Resent
  <2>5. CASE c # Main
    BY <1>0, <2>1, <2>4, <2>5 DEF ActivationsAwaited, SentCall
  <2>6. ASSUME c = Main, NEW g \in frames', g.what.op = "activate" PROVE FALSE
    <3>0. SentCall(g).frame = g
      BY DEF SentCall
    <3>1. g \in frames /\ f = g
      BY <2>4, <2>6, <3>0 DEF f
    <3>2. agent[f.node].up
      BY <3>1 DEF FrameInv
    <3>3. f.try = 2 => Activation \in broken
      BY <2>3, <2>6, <3>1 DEF FrameOK, Resent
    <3> QED BY <2>1, <2>2, <2>6, <3>1, <3>2, <3>3, <2>0 DEF Resent
  <2> QED BY <2>5, <2>6 DEF ActivationsAwaited
<1>5. ASSUME NEW f \in frames, AgentPrepare(f)
      PROVE  ActivationsAwaited'
  <2>1. f \in Frames /\ frames' = frames \ {f} /\ \E a \in Answers(f) : calls' = Answered(f, a)
    BY <1>5, Preparing
  <2> QED BY <2>1, AnsweredActivations
<1>6. ASSUME NEW f \in frames, AgentActivate(f)
      PROVE  ActivationsAwaited'
  <2>1. /\ f \in Frames /\ f.what.op = "activate" /\ frames' = frames \ {f}
        /\ calls' = Answered(f, Refused) \/ calls' = Answered(f, Success)
    BY <1>6, Activating
  <2> QED BY <2>1, FrameKinds, AnsweredActivations
<1>7. ASSUME NEW f \in frames, AgentRetire(f)
      PROVE  ActivationsAwaited'
  <2>1. /\ f \in Frames /\ frames' = frames \ {f} /\ calls' = Answered(f, Success)
        /\ Success \in Answers(f)
    BY <1>7, Retiring
  <2> QED BY <2>1, AnsweredActivations
<1>8. ASSUME NEW f \in frames, AgentShutdown(f)
      PROVE  ActivationsAwaited'
  <2>1. /\ f \in Frames /\ frames' \subseteq frames \ {f} /\ calls' = Answered(f, Success)
        /\ Success \in Answers(f)
    BY <1>8, ShuttingDown
  <2> QED BY <2>1, AnsweredActivations
<1>9. ASSUME NEW f \in frames, ForwardBegins(f)
      PROVE  ActivationsAwaited'
  <2>1. /\ f \in Frames /\ frames' = frames \ {f} /\ f.what.op \in ForwardOps
        /\ calls' = Answered(f, Refused) \/ calls' = calls
    BY <1>9, Beginning
  <2> QED BY <1>a, <2>1, FrameKinds, AnsweredActivations
<1>10. ASSUME NEW n \in Stages, ForwardEnds(n)
       PROVE  ActivationsAwaited'
  <2> DEFINE f == agent[n].busy.frame
  <2>1. f \in Frames /\ f.from # Main /\ frames' = frames /\ \E a \in Answers(f) : calls' = Answered(f, a)
    <3>1. f \in RequestFrames => Refused \in Answers(f)
      BY RequestIds DEF RequestFrames, Answers
    <3> QED BY <1>0, <1>10, <3>1, Ending
  <2> HIDE DEF f
  <2> QED BY <2>1, AnsweredActivations
<1>11. ASSUME NEW n \in Stages, AgentStarts(n)
       PROVE  ActivationsAwaited'
  BY <1>a, <1>11, Starting
<1>12. ASSUME NEW n \in Stages, AgentRestarts(n)
       PROVE  ActivationsAwaited'
  BY <1>a, <1>12, Restarting
<1>13. CASE UNCHANGED vars
  BY <1>a, <1>13 DEF vars
<1> QED BY <1>1, <1>2, <1>3, <1>4, <1>5, <1>6, <1>7, <1>8, <1>9, <1>10, <1>11, <1>12, <1>13
     DEF Next, WorkerStep, AgentStep

\* main never counts a stage as switched that it did not count before, except by
\* the answer to an activation.
LEMMA SwitchedBefore ==
  ASSUME ControlInv, MachineTypeOK, MainStep, NEW n \in Stages, Switched(n)', n \in alive'
  PROVE  Switched(n) /\ n \in alive /\ main'.epoch = main.epoch
<1> USE LineOrder
<1>1. ControlTypeOK /\ main.phase \in Phases /\ main.line \in Int /\ LineInv
  BY DEF ControlInv, SplitInv, ControlTypeOK
<1>2. CASE Greet
  <2>1. main'.phase \in {"next", "wait"} /\ main'.line = main.line /\ main.phase = "wait"
    BY <1>1, <1>2, Moves DEF Greet
  <2> QED BY <1>1, <2>1 DEF Switched, LineInv
<1>3. CASE NotReadyInTime
  BY <1>1, <1>3, Moves DEF NotReadyInTime, Switched
<1>4. ASSUME NEW weights \in [Stages -> 0..MaxWeight], NEW total \in 0..(NumStages * MaxWeight),
             StartPlan(weights, total)
      PROVE  FALSE
  <2>1. Raise \/ Goto("split", alive)
    BY <1>4 DEF StartPlan
  <2>2. main'.phase \in {"failed", "split"}
    BY <1>1, <2>1, Moves
  <2> QED BY <2>2 DEF Switched
<1>5. CASE SplitStage
  <2>1. main'.phase \in {"prepare", "split"}
    <3>1. \/ main' = [phase |-> "prepare", line |-> main.line, todo |-> alive, epoch |-> main.epoch + 1]
          \/ \E todo : Goto("split", todo)
      BY <1>5 DEF SplitStage
    <3> QED BY <1>1, <3>1, Moves
  <2> QED BY <2>1 DEF Switched
<1>6. CASE MainCalls
  <2>1. UNCHANGED control /\ (calls'[Main] = SentCall(MainFrame) \/ calls'[Main] = Raised)
    BY <1>6, MainCalling
  <2>2. calls'[Main].st # "answered"
    BY <2>1 DEF SentCall, Raised
  <2> QED BY <2>1, <2>2 DEF control, Switched, ReturnedOk
<1>7. CASE MainReturns
  <2> DEFINE rest == main.todo \ {First(main.todo)}
  <2>1. /\ main.phase \in CallingPhases
        /\ alive' = IF main.phase = "leave" THEN alive \ {Leaving} ELSE alive
        /\ \/ Raise
           \/ rest # {} /\ Goto(main.phase, rest) /\ (main.phase = "activate" => ReturnedOk(Main))
           \/ main.phase = "prepare" /\ Goto("activate", alive)
           \/ rest = {} /\ main.phase # "prepare" /\ NextLine /\ (main.phase = "activate" => ReturnedOk(Main))
    <3>1. /\ main.phase \in CallingPhases
          /\ alive' = IF main.phase = "leave" THEN alive \ {Leaving} ELSE alive
          /\ \/ Raise
             \/ rest # {} /\ Goto(main.phase, rest)
             \/ main.phase = "prepare" /\ Goto("activate", alive)
             \/ rest = {} /\ main.phase # "prepare" /\ NextLine
      BY <1>7, Zenon DEF MainReturns
    <3>2. ASSUME main.phase = "activate", ~ReturnedOk(Main) PROVE Raise
      BY <1>7, <3>2, Zenon DEF MainReturns
    <3> QED BY <3>1, <3>2
  <2>2. calls'[Main].st # "answered"
    <3>1. calls'[Main] = Idle
      <4>1. calls' = [calls EXCEPT ![Main] = Idle]
        BY <1>7, Zenon DEF MainReturns
      <4> QED BY <4>1, RequestIds, EmptyCalls, CallsUpdated
    <3> QED BY <3>1 DEF Idle
  <2>3. \A i : i \notin rest => i \notin main.todo \/ i = First(main.todo)
    OBVIOUS
  <2> HIDE DEF rest
  <2>4. CASE Raise
    BY <1>1, <2>4, Moves DEF Switched
  <2>5. CASE rest # {} /\ Goto(main.phase, rest) /\ (main.phase = "activate" => ReturnedOk(Main))
    <3>1. main' = [phase |-> main.phase, line |-> main.line, todo |-> rest, epoch |-> main.epoch]
      BY <1>1, <2>5, Moves
    <3>2. main'.phase = main.phase /\ main'.line = main.line /\ main'.todo = rest /\ main'.epoch = main.epoch
      BY <3>1
    <3> QED BY <2>1, <2>2, <2>3, <2>5, <3>2 DEF Switched, ReturnedOk
  <2>6. CASE main.phase = "prepare" /\ Goto("activate", alive)
    <3>1. main'.phase = "activate" /\ main'.todo = alive
      BY <1>1, <2>6, Moves
    <3> QED BY <2>1, <2>2, <2>6, <3>1 DEF Switched, ReturnedOk
  <2>7. CASE rest = {} /\ main.phase # "prepare" /\ NextLine /\ (main.phase = "activate" => ReturnedOk(Main))
    <3>1. main'.phase = "next" /\ main'.line = main.line + 1 /\ main'.epoch = main.epoch
      BY <1>1, <2>7, Moves
    <3>2. main.phase # "leave"
      BY <1>1, <3>1 DEF Switched, LineInv
    <3>3. main.phase \in {"activate", "retire"}
      BY <2>1, <2>7, <3>2 DEF CallingPhases
    <3>4. CASE main.phase = "activate"
      BY <2>1, <2>3, <2>7, <3>1, <3>4 DEF Switched
    <3>5. CASE main.phase = "retire"
      BY <1>1, <2>1, <3>1, <3>5 DEF Switched, LineInv
    <3> QED BY <3>3, <3>4, <3>5
  <2> QED BY <2>1, <2>4, <2>5, <2>6, <2>7
<1>8. CASE StartDeparture \/ StartRetire \/ StartRound
  <2>1. /\ main.phase = "next" /\ UNCHANGED alive
        /\ Goto("leave", {Leaving}) \/ Goto("retire", alive) \/ Goto("serve", {})
    BY <1>8 DEF StartDeparture, StartRetire, StartRound
  <2>2. main'.line = main.line /\ main'.phase \in {"leave", "retire", "serve"} /\ main'.epoch = main.epoch
    BY <1>1, <2>1, Moves
  <2> QED BY <2>1, <2>2 DEF Switched
<1>9. CASE EndRound
  <2>1. main.line \in 1..LastLine /\ main.line \notin PlanLines
    BY <1>1, <1>9, LineKinds DEF LineInv, EndRound
  <2>2. main.phase = "serve" /\ UNCHANGED alive /\ (Raise \/ NextLine)
    BY <1>9 DEF EndRound
  <2>3. main'.epoch = main.epoch
    BY <1>1, <2>2, Moves
  <2> QED BY <2>1, <2>2, <2>3 DEF Switched
<1>10. CASE Finish
  BY <1>1, <1>10, Moves DEF Finish, Switched
<1> QED BY <1>2, <1>3, <1>4, <1>5, <1>6, <1>7, <1>8, <1>9, <1>10 DEF MainStep

\* Outside main, a stage counts as switched by the answer to its activation.
LEMMA SwitchedByAnswer ==
  ASSUME MachineTypeOK, MainCallInv, NEW f \in Frames, NEW a \in Answers(f), calls' = Answered(f, a),
         UNCHANGED control, NEW n \in Stages, Switched(n)'
  PROVE  Switched(n) \/ (/\ f.what.op = "activate" /\ calls[Main] = SentCall(f) /\ n = f.node /\ a.ok
                         /\ f.what.epoch = main.epoch)
<1>1. Main \in Callers
  BY RequestIds
<1>2. CASE calls'[Main] = calls[Main]
  BY <1>2 DEF Switched, ReturnedOk, control
<1>3. CASE calls[Main] = SentCall(f) /\ calls'[Main] = AnsweredCall(f, a)
  <2>1. calls'[Main].answer = a /\ Open(Main) /\ calls[Main].frame = f
    BY <1>3 DEF AnsweredCall, SentCall, Open
  <2>2. ReturnedOk(Main)' => a.ok
    BY <2>1 DEF ReturnedOk
  <2>3. main.phase = "activate" => f.what.op = "activate" /\ f.node = First(main.todo) /\ f.what.epoch = main.epoch
    BY <2>1 DEF MainCallInv, Op
  <2>4. main' = main
    BY DEF control
  <2> QED BY <1>3, <2>2, <2>3, <2>4 DEF Switched
<1> QED BY <1>1, <1>2, <1>3, Answering

\* A stage that has confirmed the activation stays with the epoch, or loses everything.
LEMMA SwitchedStep ==
  ASSUME ControlInv, ControlInv', MachineTypeOK, MachineTypeOK', WorkerInv, MainCallInv, FrameInv,
         ActivationsAwaited, SwitchedUse, [Next]_vars
  PROVE  SwitchedUse'
<1>0. /\ alive \in SUBSET Stages /\ alive' \in SUBSET Stages /\ Main \in Callers /\ Main \notin Requests
      /\ agent \in [Stages -> Agents]
      /\ \A f \in frames : f \in Frames /\ f.node \in Stages
  BY RequestIds, FrameKinds DEF ControlInv, SplitInv, ControlTypeOK, MachineTypeOK
<1>a. ASSUME UNCHANGED control, \A n \in Stages : Switched(n)' => Switched(n),
             \A n \in Stages : agent'[n].active \in {0, agent[n].active}
      PROVE  SwitchedUse'
  BY <1>a, <1>0 DEF SwitchedUse, control
<1>b. ASSUME UNCHANGED control, calls'[Main] = calls[Main] \/ calls'[Main].st # "answered",
             \A n \in Stages : agent'[n].active \in {0, agent[n].active}
      PROVE  SwitchedUse'
  <2>1. \A n \in Stages : Switched(n)' => Switched(n)
    BY <1>b DEF Switched, ReturnedOk, control
  <2> QED BY <1>a, <1>b, <2>1
<1>c. ASSUME UNCHANGED control, NEW f \in Frames, NEW a \in Answers(f), calls' = Answered(f, a),
             f.what.op # "activate", \A n \in Stages : agent'[n].active \in {0, agent[n].active}
      PROVE  SwitchedUse'
  <2>1. \A n \in Stages : Switched(n)' => Switched(n)
    BY <1>c, SwitchedByAnswer
  <2> QED BY <1>a, <1>c, <2>1
<1>1. CASE MainStep
  <2>1. agent' = agent
    BY <1>1, MainTouches, MainCalling DEF machines, StartRound
  <2>2. \A n \in Stages : Switched(n)' /\ n \in alive' => Switched(n) /\ n \in alive /\ main'.epoch = main.epoch
    BY <1>1, SwitchedBefore
  <2> QED BY <1>0, <2>1, <2>2 DEF SwitchedUse
<1>2. ASSUME NEW r \in Requests, WorkerCalls(r)
      PROVE  SwitchedUse'
  <2>1. worker[r].todo # {}
    BY <1>2, RequestFrameOK
  <2>2. calls'[Main] = calls[Main] /\ UNCHANGED control /\ agent' = agent
    BY <1>0, <1>2, <2>1, WorkerCalling DEF machines
  <2> QED BY <1>b, <2>2
<1>3. ASSUME NEW r \in Requests, WorkerReturns(r)
      PROVE  SwitchedUse'
  <2>1. calls'[Main] = calls[Main] /\ UNCHANGED control /\ agent' = agent
    BY <1>0, <1>3, Returning DEF machines
  <2> QED BY <1>b, <2>1
<1>4. ASSUME NEW c \in Callers, Break(c)
      PROVE  SwitchedUse'
  <2>1. /\ \A d \in Callers \ {c} : calls'[d] = calls[d]
        /\ (\E g : calls'[c] = SentCall(g)) \/ calls'[c] = Raised
        /\ UNCHANGED <<control, worker, machines>>
    BY <1>4, Breaking
  <2>2. calls'[Main] = calls[Main] \/ calls'[Main].st # "answered"
    <3>1. Raised.st # "answered" /\ \A g : SentCall(g).st # "answered"
      BY DEF SentCall, Raised
    <3> QED BY <1>0, <2>1, <3>1
  <2> QED BY <1>b, <2>1, <2>2 DEF machines
<1>5. ASSUME NEW f \in frames, AgentPrepare(f)
      PROVE  SwitchedUse'
  <2>1. /\ f \in Frames /\ f.what.op = "prepare" /\ UNCHANGED control
        /\ \E a \in Answers(f) : calls' = Answered(f, a)
    BY <1>5, Preparing
  <2>2. ASSUME NEW m \in Stages PROVE agent'[m].active = agent[m].active
    <3> DEFINE prepared == [agent[m].prepared EXCEPT ![f.what.epoch] = f.what.range]
    <3>1. agent'[m] = agent[m] \/ agent'[m] = [agent[m] EXCEPT !.prepared = prepared]
      BY <1>5, Preparing
    <3>2. agent[m] \in Agents
      BY <1>0
    <3> HIDE DEF prepared
    <3> QED BY <3>1, <3>2 DEF Agents
  <2> QED BY <1>c, <2>1, <2>2
<1>6. ASSUME NEW f \in frames, AgentActivate(f)
      PROVE  SwitchedUse'
  <2>1. /\ f \in Frames /\ f.what.op = "activate" /\ f.node \in Stages /\ UNCHANGED control
        /\ Refused \in Answers(f) /\ Success \in Answers(f) /\ calls[Main] = SentCall(f)
    BY <1>0, <1>6, Activating, FrameKinds DEF ActivationsAwaited
  <2>2. CASE agent' = agent /\ calls' = Answered(f, Refused)
    <3>1. \A n \in Stages : Switched(n)' => Switched(n)
      BY <2>1, <2>2, SwitchedByAnswer DEF Refused
    <3> QED BY <1>a, <2>1, <2>2, <3>1
  <2>3. CASE /\ calls' = Answered(f, Success)
             /\ agent'[f.node] = [agent[f.node] EXCEPT !.active = f.what.epoch]
             /\ \A m \in Stages \ {f.node} : agent'[m] = agent[m]
    <3>1. agent[f.node] \in Agents
      BY <1>0, <2>1
    <3>2. agent'[f.node].active = f.what.epoch
      BY <2>3, <3>1 DEF Agents
    <3> SUFFICES ASSUME NEW n \in alive', Switched(n)'
                 PROVE  agent'[n].active \in {0, main'.epoch}
      BY DEF SwitchedUse
    <3>3. CASE n = f.node
      <4>1. Switched(n) \/ f.what.epoch = main.epoch
        BY <1>0, <2>1, <2>3, SwitchedByAnswer
      <4>2. Open(Main) /\ calls[Main].frame = f
        BY <2>1 DEF Open, SentCall
      <4>3. main.phase \in CallingPhases
        BY <4>2 DEF MainCallInv, Open, Idle
      <4>4. main.phase = "activate"
        BY <2>1, <4>2, <4>3 DEF MainCallInv, Op, CallingPhases
      <4>5. f.what.epoch = main.epoch
        BY <4>2, <4>4 DEF MainCallInv
      <4> QED BY <2>1, <3>2, <3>3, <4>5 DEF control
    <3>4. CASE n # f.node
      <4>1. Switched(n) /\ n \in Stages /\ n \in alive
        BY <1>0, <2>1, <2>3, <3>4, SwitchedByAnswer DEF control
      <4> QED BY <2>1, <2>3, <3>4, <4>1 DEF SwitchedUse, control
    <3> QED BY <3>3, <3>4
  <2> QED BY <1>6, <2>2, <2>3, Activating
<1>7. ASSUME NEW f \in frames, AgentRetire(f)
      PROVE  SwitchedUse'
  <2>1. /\ f \in Frames /\ f.what.op = "retire" /\ UNCHANGED control
        /\ Success \in Answers(f) /\ calls' = Answered(f, Success)
        /\ \A m \in Stages : agent'[m].active \in {0, agent[m].active}
    BY <1>0, <1>7, Retiring
  <2> QED BY <1>c, <2>1
<1>8. ASSUME NEW f \in frames, AgentShutdown(f)
      PROVE  SwitchedUse'
  <2>1. /\ f \in Frames /\ f.what.op = "shutdown" /\ UNCHANGED control
        /\ Success \in Answers(f) /\ calls' = Answered(f, Success)
        /\ \A m \in Stages : agent'[m].active \in {0, agent[m].active}
    BY <1>0, <1>8, ShuttingDown DEF Emptied
  <2> QED BY <1>c, <2>1
<1>9. ASSUME NEW f \in frames, ForwardBegins(f)
      PROVE  SwitchedUse'
  <2>1. /\ f \in Frames /\ f.what.op \in ForwardOps /\ UNCHANGED control
        /\ calls' = Answered(f, Refused) \/ calls' = calls
    BY <1>9, Beginning
  <2>2. ASSUME NEW m \in Stages PROVE agent'[m].active = agent[m].active
    <3>1. agent[m] \in Agents
      BY <1>0
    <3>2. agent'[m] = agent[m] \/ \E job : agent'[m] = [agent[m] EXCEPT !.busy = job]
      BY <1>9, Beginning DEF machines
    <3> QED BY <3>1, <3>2 DEF Agents
  <2> QED BY <1>b, <1>c, <2>1, <2>2, FrameKinds DEF ForwardOps
<1>10. ASSUME NEW n \in Stages, ForwardEnds(n)
       PROVE  SwitchedUse'
  <2> DEFINE f == agent[n].busy.frame
  <2>1. /\ f \in Frames /\ f \in RequestFrames /\ UNCHANGED control
        /\ \E a \in Answers(f) : calls' = Answered(f, a)
    <3>1. f \in RequestFrames => Refused \in Answers(f)
      BY RequestIds DEF RequestFrames, Answers
    <3> QED BY <1>10, <3>1, Ending
  <2>2. f.what.op # "activate"
    BY <2>1 DEF RequestFrames, ForwardOps
  <2>3. ASSUME NEW m \in Stages PROVE agent'[m].active = agent[m].active
    <3>1. agent[m] \in Agents
      BY <1>0
    <3>2. agent'[m] = agent[m] \/ agent'[m] = [agent[m] EXCEPT !.busy = NotBusy]
      BY <1>10, Ending
    <3> QED BY <3>1, <3>2 DEF Agents
  <2> HIDE DEF f
  <2> QED BY <1>c, <2>1, <2>2, <2>3
<1>11. ASSUME NEW n \in Stages, AgentStarts(n)
       PROVE  SwitchedUse'
  <2>1. ASSUME NEW m \in Stages PROVE agent'[m].active = agent[m].active
    <3>1. agent[m] \in Agents
      BY <1>0
    <3>2. agent'[m] = agent[m] \/ agent'[m] = [agent[m] EXCEPT !.up = TRUE]
      BY <1>11, Starting
    <3> QED BY <3>1, <3>2 DEF Agents
  <2> QED BY <1>11, <1>b, <2>1, Starting
<1>12. ASSUME NEW n \in Stages, AgentRestarts(n)
       PROVE  SwitchedUse'
  BY <1>12, <1>b, Restarting DEF Emptied
<1>13. CASE UNCHANGED vars
  BY <1>b, <1>13 DEF vars, control
<1> QED BY <1>1, <1>2, <1>3, <1>4, <1>5, <1>6, <1>7, <1>8, <1>9, <1>10, <1>11, <1>12, <1>13
     DEF Next, WorkerStep, AgentStep

-----------------------------------------------------------------------------
(* Passes keep their layers *)

\* A forward pass for the round that is served runs in the plan in force.
JobSteady(a, n) ==
  a.busy # NotBusy /\ main.phase = "serve" /\ a.busy.frame.line = main.line =>
    /\ a.busy.epoch = main.epoch /\ a.busy.range = plan.range[n]
    /\ a.active = a.busy.epoch /\ a.prepared[a.busy.epoch] = a.busy.range

JobsSteady == \A n \in Stages : JobSteady(agent[n], n)

\* In a round no agent is told to switch.
LEMMA NoActivationServed ==
  ASSUME MainCallInv, ActivationsAwaited, main.phase = "serve"
  PROVE  \A f \in frames : f.what.op # "activate"
<1>1. calls[Main] = Idle
  BY DEF MainCallInv, CallingPhases
<1>2. Idle.st = "idle" /\ \A f : SentCall(f).st = "sent"
  BY DEF Idle, SentCall
<1> QED BY <1>1, <1>2 DEF ActivationsAwaited

\* A frame of the round that is served is for a stage that is switched.
LEMMA ServedFrames ==
  ASSUME ControlInv, NEW f, FrameOK(f), f.what.op \in ForwardOps, f.line = main.line, main.phase = "serve"
  PROVE  f.node \in alive /\ Switched(f.node)
<1>1. main.line \in Int /\ main.line \notin PlanLines
  BY LineKinds DEF ControlInv, LineInv
<1>2. f.node \in alive
  BY <1>1 DEF FrameOK
<1> QED BY <1>1, <1>2 DEF Switched

\* A pass that the round waits for keeps its epoch and its layers.
LEMMA JobsStep ==
  ASSUME ControlInv, ControlInv', MachineTypeOK, MachineTypeOK', WorkerInv, MainCallInv, FrameInv, AgentInv,
         ActivationsAwaited, SwitchedUse, JobsSteady, [Next]_vars
  PROVE  JobsSteady'
<1>0. /\ alive \in SUBSET Stages /\ agent \in [Stages -> Agents]
      /\ \A f \in frames : f \in Frames /\ f.node \in Stages /\ FrameOK(f)
  BY FrameKinds DEF ControlInv, SplitInv, ControlTypeOK, MachineTypeOK, FrameInv
<1>a. ASSUME UNCHANGED control,
             \A n \in Stages :
               \/ agent'[n].busy = NotBusy
               \/ /\ agent'[n].busy = agent[n].busy
                  /\ agent'[n].active = agent[n].active /\ agent'[n].prepared = agent[n].prepared
               \/ JobSteady(agent[n], n)'
      PROVE  JobsSteady'
  BY <1>a DEF JobsSteady, JobSteady, control
<1>b. ASSUME UNCHANGED control, agent' = agent
      PROVE  JobsSteady'
  BY <1>b DEF JobsSteady, JobSteady, control
<1>1. CASE MainStep
  <2>1. agent' = agent
    BY <1>1, MainTouches, MainCalling DEF machines, StartRound
  <2>2. CASE UNCHANGED control
    BY <1>b, <2>1, <2>2
  <2>3. CASE ~UNCHANGED control /\ main'.phase = "serve"
    <3>1. ~SplitStage
      <4>1. SplitStage => main'.phase \in {"prepare", "split"}
        <5>1. ControlTypeOK
          BY DEF ControlInv, SplitInv
        <5>2. SplitStage =>
                \/ main' = [phase |-> "prepare", line |-> main.line, todo |-> alive, epoch |-> main.epoch + 1]
                \/ \E todo : Goto("split", todo)
          BY DEF SplitStage
        <5> QED BY <5>1, <5>2, Moves
      <4> QED BY <2>3, <4>1
    <3>2. main.phase = "next" /\ main'.line = main.line
      BY <1>1, <2>3, <3>1, MainGoes DEF ControlInv
    <3>3. ASSUME NEW n \in Stages, agent[n].busy # NotBusy
          PROVE  agent[n].busy.frame.line # main.line
      <4>1. agent[n].busy.frame \in RequestFrames
        BY <1>0, <3>3 DEF Agents
      <4>2. agent[n].busy.frame.what.op \in ForwardOps /\ agent[n].busy.frame.line \in Int /\ main.line \in Int
        BY <4>1 DEF RequestFrames, ControlInv, SplitInv, ControlTypeOK
      <4>3. FrameOK(agent[n].busy.frame)
        BY <3>3 DEF FrameInv
      <4> QED BY <3>2, <4>2, <4>3 DEF FrameOK
    <3> QED BY <2>1, <3>2, <3>3 DEF JobsSteady, JobSteady
  <2>4. CASE main'.phase # "serve"
    BY <2>4 DEF JobsSteady, JobSteady
  <2> QED BY <2>2, <2>3, <2>4
<1>2. ASSUME NEW r \in Requests, WorkerStep(r)
      PROVE  JobsSteady'
  <2>1. agent' = agent /\ UNCHANGED control
    BY <1>2, Zenon DEF WorkerStep, WorkerCalls, Send, WorkerReturns, machines
  <2> QED BY <1>b, <2>1
<1>3. ASSUME NEW c \in Callers, Break(c)
      PROVE  JobsSteady'
  BY <1>3, <1>b DEF Break, machines
<1>4. ASSUME NEW f \in frames, AgentPrepare(f)
      PROVE  JobsSteady'
  <2>1. /\ UNCHANGED control /\ agent[f.node].busy = NotBusy
        /\ \A m \in Stages :
             \/ agent'[m] = agent[m]
             \/ m = f.node /\ \E prepared : agent'[m] = [agent[m] EXCEPT !.prepared = prepared]
    BY <1>4, Preparing
  <2>2. ASSUME NEW m \in Stages, agent'[m] # agent[m] PROVE agent'[m].busy = NotBusy
    <3>1. agent[m] \in Agents
      BY <1>0
    <3> QED BY <2>1, <2>2, <3>1 DEF Agents
  <2> QED BY <1>a, <2>1, <2>2
<1>5. ASSUME NEW f \in frames, AgentActivate(f)
      PROVE  JobsSteady'
  <2>1. f.what.op = "activate" /\ UNCHANGED control
    BY <1>5, Activating
  <2>2. main.phase # "serve"
    BY <2>1, NoActivationServed
  <2> QED BY <2>1, <2>2 DEF JobsSteady, JobSteady, control
<1>6. ASSUME NEW f \in frames, AgentRetire(f)
      PROVE  JobsSteady'
  <2>1. PICK n \in Stages, e \in Epochs : n = f.node /\ e = f.what.epoch
    BY <1>0, <1>6, Retiring
  <2>2. /\ UNCHANGED control /\ agent'[n].busy = agent[n].busy /\ f.what.op = "retire"
        /\ agent'[n].active = IF agent[n].active = e THEN 0 ELSE agent[n].active
        /\ agent'[n].prepared = [agent[n].prepared EXCEPT ![e] = NoRange]
        /\ \A m \in Stages \ {n} : agent'[m] = agent[m]
    BY <1>6, <2>1, Retiring
  <2>3. agent[n] \in Agents /\ e # main.epoch
    BY <1>0, <2>1, <2>2 DEF FrameOK, ControlInv, LineInv
  <2>4. \A d \in Epochs : agent'[n].prepared[d] = IF d = e THEN NoRange ELSE agent[n].prepared[d]
    BY <2>2, <2>3 DEF Agents
  <2>5. agent[n].busy # NotBusy => agent[n].busy.epoch \in Epochs
    BY <2>3 DEF Agents
  <2>6. JobSteady(agent[n], n)'
    BY <2>2, <2>3, <2>4, <2>5 DEF JobsSteady, JobSteady, control
  <2> QED BY <1>a, <2>2, <2>6
<1>7. ASSUME NEW f \in frames, ForwardBegins(f)
      PROVE  JobsSteady'
  <2> DEFINE e == agent[f.node].active
             job == [epoch |-> e, range |-> agent[f.node].prepared[e], frame |-> f]
  <2>1. UNCHANGED control /\ f.what.op \in ForwardOps
        /\ \/ agent' = agent
           \/ /\ e \in Epochs
              /\ agent'[f.node] = [agent[f.node] EXCEPT !.busy = job]
              /\ \A m \in Stages \ {f.node} : agent'[m] = agent[m]
    BY <1>7, Beginning DEF machines
  <2>2. CASE /\ e \in Epochs
             /\ agent'[f.node] = [agent[f.node] EXCEPT !.busy = job]
             /\ \A m \in Stages \ {f.node} : agent'[m] = agent[m]
    <3>1. PICK n \in Stages : n = f.node
      BY <1>0
    <3>2. job.epoch = e /\ job.range = agent[n].prepared[e] /\ job.frame = f
      BY <3>1
    <3> HIDE DEF job, e
    <3>3. agent[n] \in Agents
      BY <1>0
    <3>4. agent'[n].busy = job /\ agent'[n].active = agent[n].active /\ agent'[n].prepared = agent[n].prepared
      BY <2>2, <3>1, <3>3 DEF Agents
    <3>5. ASSUME main.phase = "serve", f.line = main.line
          PROVE  e = main.epoch /\ agent[n].prepared[e] = plan.range[n]
      <4>1. n \in alive /\ Switched(n)
        BY <1>0, <2>1, <3>1, <3>5, ServedFrames
      <4>2. e = main.epoch /\ e # 0
        <5>1. e \in {0, main.epoch}
          BY <3>1, <4>1 DEF SwitchedUse, e
        <5> QED BY <2>2, <5>1, TwoEpochs
      <4>3. agent[n].prepared[e] # NoRange /\ agent[n].prepared[main.epoch] \in {NoRange, plan.range[n]}
        BY <3>1, <3>5, <4>2 DEF AgentInv, AgentOK, e
      <4> QED BY <4>2, <4>3
    <3>6. JobSteady(agent[n], n)'
      BY <2>1, <3>1, <3>2, <3>4, <3>5 DEF JobSteady, control, e
    <3> QED BY <1>a, <2>1, <2>2, <3>1, <3>6
  <2> QED BY <1>b, <2>1, <2>2
<1>8. ASSUME NEW n \in Stages, ForwardEnds(n)
      PROVE  JobsSteady'
  <2>1. /\ agent'[n] = [agent[n] EXCEPT !.busy = NotBusy] /\ \A m \in Stages \ {n} : agent'[m] = agent[m]
        /\ UNCHANGED control
    BY <1>8, Ending
  <2>2. agent[n] \in Agents
    BY <1>0
  <2>3. agent'[n].busy = NotBusy
    BY <2>1, <2>2 DEF Agents
  <2> QED BY <1>a, <2>1, <2>3
<1>9. ASSUME NEW n \in Stages, AgentStarts(n)
      PROVE  JobsSteady'
  <2>1. main.phase = "wait" /\ UNCHANGED control
    BY <1>9, Starting
  <2> QED BY <2>1 DEF JobsSteady, JobSteady, control
<1>10. ASSUME NEW n \in Stages, Emptied(n), UNCHANGED control
       PROVE  JobsSteady'
  BY <1>a, <1>10 DEF Emptied
<1>11. ASSUME NEW f \in frames, AgentShutdown(f) PROVE JobsSteady'
  BY <1>0, <1>10, <1>11, ShuttingDown
<1>12. ASSUME NEW n \in Stages, AgentRestarts(n) PROVE JobsSteady'
  BY <1>10, <1>12, Restarting
<1>13. CASE UNCHANGED vars
  BY <1>b, <1>13 DEF vars, control
<1> QED BY <1>1, <1>2, <1>3, <1>4, <1>5, <1>6, <1>7, <1>8, <1>9, <1>11, <1>12, <1>13 DEF Next, AgentStep

-----------------------------------------------------------------------------
(* Answers and gaps *)

\* The answers that come back tell of the layers that the plan in force gave.
AnswersSteady ==
  \A r \in Requests : ReturnedOk(r) => calls[r].answer.range = plan.range[calls[r].frame.node]

\* Nobody has met a gap, and who runs waits for the layers of the stage in turn.
GapFree ==
  \A r \in Requests :
    /\ ~worker[r].gap
    /\ worker[r].status = "running" => worker[r].reached = plan.range[First(worker[r].todo)][1]

\* Answers tell of the layers of the plan in force.
LEMMA AnswersStep ==
  ASSUME ControlInv, ControlInv', MachineTypeOK, MachineTypeOK', WorkerInv, FrameInv,
         JobsSteady, AnswersSteady, [Next]_vars
  PROVE  AnswersSteady'
<1>0. alive \in SUBSET Stages /\ Main \in Callers /\ Requests \subseteq Callers /\ Main \notin Requests
      /\ \A f \in frames : f \in Frames
  BY RequestIds DEF ControlInv, SplitInv, ControlTypeOK, MachineTypeOK
<1>a. ASSUME plan' = plan, \A r \in Requests : calls'[r] = calls[r] \/ ~ReturnedOk(r)'
      PROVE  AnswersSteady'
  BY <1>a DEF AnswersSteady, ReturnedOk
<1>b. ASSUME plan' = plan, NEW f \in Frames, NEW a \in Answers(f), calls' = Answered(f, a),
             ~a.ok \/ f.from = Main
      PROVE  AnswersSteady'
  <2>1. ASSUME NEW r \in Requests, calls'[r] = AnsweredCall(f, a), r = f.from
        PROVE  ~ReturnedOk(r)'
    BY <1>0, <1>b, <2>1 DEF ReturnedOk, AnsweredCall
  <2>2. \A r \in Requests : calls'[r] = calls[r] \/ ~ReturnedOk(r)'
    BY <1>0, <1>b, <2>1, Answering
  <2> QED BY <1>a, <1>b, <2>2
<1>1. CASE MainStep
  <2>1. \A r \in Requests : worker[r].status # "running" /\ calls[r] = Idle
    BY <1>1, MainMeansIdle
  <2>2. \A c \in Requests : calls'[c] = Idle
    BY <1>0, <1>1, <2>1, MainTouches, MainCalling
  <2>3. Idle.st # "answered"
    BY DEF Idle
  <2> QED BY <2>2, <2>3 DEF AnswersSteady, ReturnedOk
<1>2. ASSUME NEW r \in Requests, WorkerCalls(r)
      PROVE  AnswersSteady'
  <2>1. worker[r].todo # {}
    BY <1>2, RequestFrameOK
  <2>2. /\ \A c \in Callers \ {r} : calls'[c] = calls[c]
        /\ calls'[r] = SentCall(RequestFrame(r)) \/ calls'[r] = Raised
        /\ UNCHANGED control
    BY <1>2, <2>1, WorkerCalling
  <2>3. Raised.st # "answered" /\ \A g : SentCall(g).st # "answered"
    BY DEF SentCall, Raised
  <2>4. calls'[r].st # "answered"
    BY <2>2, <2>3
  <2> QED BY <1>0, <1>a, <2>2, <2>4 DEF ReturnedOk, control
<1>3. ASSUME NEW r \in Requests, WorkerReturns(r)
      PROVE  AnswersSteady'
  <2>1. calls'[r] = Idle /\ (\A c \in Callers \ {r} : calls'[c] = calls[c]) /\ UNCHANGED control
    BY <1>0, <1>3, Returning
  <2>2. Idle.st # "answered"
    BY DEF Idle
  <2> QED BY <1>0, <1>a, <2>1, <2>2 DEF ReturnedOk, control
<1>4. ASSUME NEW c \in Callers, Break(c)
      PROVE  AnswersSteady'
  <2>1. /\ \A d \in Callers \ {c} : calls'[d] = calls[d]
        /\ (\E g : calls'[c] = SentCall(g)) \/ calls'[c] = Raised
        /\ UNCHANGED control
    BY <1>4, Breaking
  <2>2. Raised.st # "answered" /\ \A g : SentCall(g).st # "answered"
    BY DEF SentCall, Raised
  <2>3. calls'[c].st # "answered"
    BY <2>1, <2>2
  <2> QED BY <1>0, <1>a, <2>1, <2>3 DEF ReturnedOk, control
<1>5. ASSUME NEW f \in frames, AgentPrepare(f)
      PROVE  AnswersSteady'
  <2>1. f \in Frames /\ f.what.op = "prepare" /\ plan' = plan /\ \E a \in Answers(f) : calls' = Answered(f, a)
    BY <1>5, Preparing DEF control
  <2> QED BY <1>b, <2>1, FrameKinds
<1>6. ASSUME NEW f \in frames, AgentActivate(f)
      PROVE  AnswersSteady'
  <2>1. /\ f \in Frames /\ f.what.op = "activate" /\ plan' = plan
        /\ calls' = Answered(f, Refused) \/ calls' = Answered(f, Success)
    BY <1>6, Activating DEF control
  <2> QED BY <1>b, <2>1, FrameKinds
<1>7. ASSUME NEW f \in frames, AgentRetire(f)
      PROVE  AnswersSteady'
  <2>1. /\ f \in Frames /\ f.what.op = "retire" /\ plan' = plan
        /\ calls' = Answered(f, Success) /\ Success \in Answers(f)
    BY <1>7, Retiring DEF control
  <2> QED BY <1>b, <2>1, FrameKinds
<1>8. ASSUME NEW f \in frames, AgentShutdown(f)
      PROVE  AnswersSteady'
  <2>1. /\ f \in Frames /\ f.what.op = "shutdown" /\ plan' = plan
        /\ calls' = Answered(f, Success) /\ Success \in Answers(f)
    BY <1>8, ShuttingDown DEF control
  <2> QED BY <1>b, <2>1, FrameKinds
<1>9. ASSUME NEW f \in frames, ForwardBegins(f)
      PROVE  AnswersSteady'
  <2>1. /\ f \in Frames /\ f.what.op \in ForwardOps /\ plan' = plan
        /\ calls' = Answered(f, Refused) \/ calls' = calls
    BY <1>9, Beginning DEF control
  <2>2. Refused \in Answers(f) /\ ~Refused.ok
    BY <2>1, FrameKinds DEF Refused
  <2> QED BY <1>a, <1>b, <2>1, <2>2
<1>10. ASSUME NEW n \in Stages, ForwardEnds(n)
       PROVE  AnswersSteady'
  <2> DEFINE job == agent[n].busy
             past == cache[n][job.epoch][job.frame.from]
             done == [ok |-> TRUE, past |-> IF past = -1 THEN 0 ELSE past, range |-> job.range]
  <2>1. /\ job # NotBusy /\ job.frame \in Frames /\ job.frame.from \in Requests /\ done \in Answers(job.frame)
        /\ calls' = Answered(job.frame, done) \/ calls' = Answered(job.frame, Refused)
        /\ UNCHANGED control /\ job.frame \in RequestFrames /\ done.range = job.range
    BY <1>10, Ending
  <2>2. Refused \in Answers(job.frame) /\ ~Refused.ok
    BY <2>1, RequestIds DEF RequestFrames, Answers, Refused
  <2> HIDE DEF done
  <2>3. CASE calls' = Answered(job.frame, Refused)
    <3> HIDE DEF job
    <3> QED BY <1>b, <2>1, <2>2, <2>3 DEF control
  <2>4. CASE calls' = Answered(job.frame, done)
    <3>1. PICK f \in Frames : f = job.frame
      BY <2>1
    <3>2. ASSUME calls[f.from] = SentCall(f)
          PROVE  job.range = plan.range[f.node]
      <4>1. f.from \in Requests /\ Open(f.from) /\ calls[f.from].frame = f /\ calls[f.from] # Idle
        <5>1. SentCall(f).st = "sent" /\ SentCall(f).frame = f /\ Idle.st = "idle"
          BY DEF SentCall, Idle
        <5> QED BY <2>1, <3>1, <3>2, <5>1 DEF Open
      <4>2. main.phase = "serve" /\ f.line = main.line
        BY <4>1 DEF WorkerInv
      <4>3. job.range = plan.range[n] /\ f.node = n
        BY <2>1, <3>1, <4>2 DEF JobsSteady, JobSteady, FrameInv
      <4> QED BY <4>3
    <3> HIDE DEF job
    <3>3. ASSUME NEW r \in Requests, ReturnedOk(r)'
          PROVE  calls'[r].answer.range = plan.range[calls'[r].frame.node]
      <4>1. CASE calls'[r] = calls[r]
        BY <3>3, <4>1 DEF AnswersSteady, ReturnedOk
      <4>2. CASE r = f.from /\ calls[r] = SentCall(f) /\ calls'[r] = AnsweredCall(f, done)
        <5>1. calls'[r].answer = done /\ calls'[r].frame = f
          BY <4>2 DEF AnsweredCall
        <5> QED BY <2>1, <3>2, <4>2, <5>1
      <4> QED BY <1>0, <2>1, <2>4, <3>1, <4>1, <4>2, Answering
    <3> QED BY <2>1, <3>3 DEF AnswersSteady, control
  <2> HIDE DEF job
  <2> QED BY <2>1, <2>3, <2>4
<1>11. ASSUME NEW n \in Stages, AgentStarts(n)
       PROVE  AnswersSteady'
  BY <1>11, <1>a, Starting DEF control
<1>12. ASSUME NEW n \in Stages, AgentRestarts(n)
       PROVE  AnswersSteady'
  BY <1>12, <1>a, Restarting DEF control
<1>13. CASE UNCHANGED vars
  BY <1>13, <1>a DEF vars
<1> QED BY <1>1, <1>2, <1>3, <1>4, <1>5, <1>6, <1>7, <1>8, <1>9, <1>10, <1>11, <1>12, <1>13
     DEF Next, WorkerStep, AgentStep

\* The next stage begins where the last answer ended.
LEMMA GapFreeStep ==
  ASSUME ControlInv, ControlInv', MachineTypeOK, MachineTypeOK', WorkerInv, AnswersSteady, GapFree, [Next]_vars
  PROVE  GapFree'
<1>0. alive \in SUBSET Stages /\ Stages \subseteq Int
  <2>1. Stages \subseteq Int
    BY SizesAssumption DEF Stages
  <2> QED BY <2>1 DEF ControlInv, SplitInv, ControlTypeOK
<1>a. ASSUME worker' = worker, plan' = plan PROVE GapFree'
  BY <1>a DEF GapFree
<1>1. CASE MainStep
  <2>1. \A r \in Requests : worker[r].status # "running"
    BY <1>1, MainMeansIdle
  <2>2. CASE ~StartRound
    <3>1. worker' = worker
      BY <1>1, <2>2, MainTouches, MainCalling
    <3> QED BY <2>1, <3>1 DEF GapFree
  <2>3. CASE StartRound
    <3>1. /\ main.phase = "next" /\ main.line \notin PlanLines /\ UNCHANGED <<plan, alive>>
      BY <2>3, StartRoundTyped
    <3>2. alive # {} /\ Linked(plan.range, alive, NumLayers)
      BY <3>1 DEF ControlInv, LineInv, ChainInv, Planned
    <3>3. plan.range[First(alive)][1] = 0
      <4>1. First(alive) \in alive /\ LeastIn(alive, First(alive))
        BY <1>0, <3>2, FirstIsLeast DEF LeastIn
      <4> QED BY <3>2, <4>1 DEF Linked
    <3>4. ASSUME NEW r \in Requests
          PROVE  /\ ~worker'[r].gap
                 /\ worker'[r].status = "running" => worker'[r].reached = plan'.range[First(worker'[r].todo)][1]
      <4>1. CASE r \in Script[main.line].ids
        <5>1. worker'[r].todo = alive /\ worker'[r].reached = 0 /\ worker'[r].gap = FALSE
          BY <2>3, <4>1, StartRoundTyped
        <5> QED BY <3>1, <3>3, <5>1
      <4>2. CASE r \notin Script[main.line].ids
        <5>1. worker'[r] = worker[r]
          BY <2>3, <4>2, StartRoundTyped
        <5> QED BY <2>1, <5>1 DEF GapFree
      <4> QED BY <4>1, <4>2
    <3> QED BY <3>4 DEF GapFree
  <2> QED BY <2>2, <2>3
<1>2. ASSUME NEW r \in Requests, WorkerCalls(r)
      PROVE  GapFree'
  BY <1>2, <1>a DEF WorkerCalls, control
<1>3. ASSUME NEW r \in Requests, WorkerReturns(r)
      PROVE  GapFree'
  <2> DEFINE w == worker[r]
             v == worker'[r]
             answer == calls[r].answer
             first == First(w.todo)
             rest == w.todo \ {first}
  <2>1. /\ w.status = "running"
        /\ UNCHANGED control
        /\ \A q \in Requests \ {r} : worker'[q] = worker[q]
        /\ \/ ~ReturnedOk(r) /\ v = [w EXCEPT !.status = "failed"]
           \/ /\ ReturnedOk(r)
              /\ v.gap => w.gap \/ answer.range[1] # w.reached
                            \/ (rest = {} /\ answer.range[2] # NumLayers)
              /\ \/ /\ rest # {} /\ v.status = "running" /\ v.todo = rest
                    /\ v.reached = answer.range[2]
                 \/ rest = {} /\ v.status = "done"
                 \/ rest = {} /\ v.status = "running" /\ v.todo = alive /\ v.reached = 0
    BY <1>0, <1>3, Returning
  <2>2. /\ main.phase = "serve" /\ w.todo # {} /\ w.todo \subseteq alive
        /\ \A i \in alive \ w.todo, j \in w.todo : i < j
    BY <2>1 DEF WorkerInv
  <2>3. main.line \notin PlanLines
    BY <2>2, LineKinds DEF ControlInv, LineInv
  <2>4. Linked(plan.range, alive, NumLayers) /\ alive # {}
    BY <2>2, <2>3 DEF ControlInv, ChainInv, LineInv, Planned
  <2>5. /\ first \in w.todo /\ first \in alive /\ \A j \in w.todo : first <= j
        /\ First(alive) \in alive /\ LeastIn(alive, First(alive))
    BY <1>0, <2>2, <2>4, FirstIsLeast DEF LeastIn
  <2>6. CASE ~ReturnedOk(r) /\ v = [w EXCEPT !.status = "failed"]
    <3>1. w \in Workers
      BY DEF MachineTypeOK
    <3>2. v.status = "failed" /\ v.gap = w.gap
      <4> HIDE DEF w, v
      <4> QED BY <2>6, <3>1 DEF Workers
    <3> QED BY <2>1, <3>2 DEF GapFree, control
  <2>7. CASE ReturnedOk(r)
    <3>1. answer.range = plan.range[first]
      <4>1. Open(r)
        BY <2>7 DEF Open, ReturnedOk
      <4>2. calls[r].frame.node = first
        BY <4>1 DEF WorkerInv
      <4> QED BY <2>7, <4>2 DEF AnswersSteady
    <3>2. rest = {} => answer.range[2] = NumLayers
      <4>1. ASSUME rest = {} PROVE GreatestIn(alive, first)
        <5>1. ASSUME NEW i \in alive PROVE i <= first
          <6>1. i \in Int /\ first \in Int
            BY <1>0, <2>5
          <6>2. i = first \/ i \notin w.todo
            BY <4>1
          <6> QED BY <2>2, <2>5, <6>1, <6>2
        <5> QED BY <5>1 DEF GreatestIn
      <4> QED BY <2>4, <2>5, <3>1, <4>1 DEF Linked
    <3>3. rest # {} => answer.range[2] = plan.range[First(rest)][1]
      <4> SUFFICES ASSUME rest # {} PROVE answer.range[2] = plan.range[First(rest)][1]
        OBVIOUS
      <4> DEFINE second == First(rest)
      <4>1. second \in rest /\ \A j \in rest : second <= j
        BY <1>0, <2>2, FirstIsLeast
      <4>2. second \in alive /\ second \in Int /\ first \in Int /\ second # first /\ second \in w.todo
        BY <1>0, <2>2, <2>5, <4>1
      <4> HIDE DEF second
      <4>3. first < second
        BY <2>5, <4>2
      <4>4. ASSUME NEW k \in alive PROVE k <= first \/ second <= k
        <5>1. k \in Int
          BY <1>0
        <5>2. CASE k \notin w.todo
          BY <2>2, <2>5, <4>2, <5>1, <5>2
        <5>3. CASE k \in w.todo
          BY <4>1, <4>2, <5>1, <5>3
        <5> QED BY <5>2, <5>3
      <4>5. Follows(alive, first, second)
        BY <4>3, <4>4 DEF Follows
      <4> QED BY <2>4, <2>5, <3>1, <4>2, <4>5 DEF Linked, second
    <3>4. plan.range[First(alive)][1] = 0
      BY <2>4, <2>5 DEF Linked
    <3>5. ~w.gap /\ w.reached = plan.range[first][1]
      BY <2>1 DEF GapFree
    <3> HIDE DEF rest, v, w, answer, first
    <3>6. ~v.gap /\ (v.status = "running" => v.reached = plan.range[First(v.todo)][1])
      BY <2>1, <2>7, <3>1, <3>2, <3>3, <3>4, <3>5
    <3> QED BY <2>1, <3>6 DEF GapFree, control, v
  <2> HIDE DEF w, v, rest, answer
  <2> QED BY <2>1, <2>6, <2>7
<1>4. CASE UNCHANGED <<control, worker>>
  BY <1>a, <1>4 DEF control
<1>5. CASE UNCHANGED vars
  BY <1>a, <1>5 DEF vars
<1> QED BY <1>1, <1>2, <1>3, <1>4, <1>5, QuietSteps DEF WorkerStep

-----------------------------------------------------------------------------
(* The invariant and what follows from it *)

\* What holds of a round unless an activation was sent twice.
SteadyInv ==
  Activation \notin broken => ActivationsAwaited /\ SwitchedUse /\ JobsSteady /\ AnswersSteady /\ GapFree

\* Everything that holds of the controller, the threads, the agents and the frames.
PipelineInv ==
  /\ ControlInv /\ MachineTypeOK /\ WorkerInv /\ MainCallInv /\ FrameInv /\ AgentInv /\ SteadyInv

\* The types hold at the start.
LEMMA StartTyped == Init => MachineTypeOK
<1> SUFFICES ASSUME Init PROVE MachineTypeOK
  OBVIOUS
<1>1. worker \in [Requests -> Workers]
  <2>1. NewWorker \in Workers
    <3> DEFINE no == FALSE
    <3>1. NewWorker = [status |-> "new", todo |-> {}, pass |-> 0, kind |-> "tokens", token |-> no,
                       reached |-> 0, gap |-> no, skew |-> no]
      BY DEF NewWorker
    <3>2. no \in BOOLEAN
      OBVIOUS
    <3> HIDE DEF no
    <3> QED BY <3>1, <3>2 DEF Workers, Kinds
  <2> QED BY <2>1 DEF Init
<1>2. CallsTyped
  BY EmptyCalls DEF Init, CallsTyped
<1>3. agent \in [Stages -> Agents]
  <2> DEFINE down == [NewAgent EXCEPT !.up = FALSE]
  <2>1. down \in Agents
    BY EmptyMachine
  <2>2. agent = [n \in Stages |-> down]
    BY DEF Init
  <2> HIDE DEF down
  <2> QED BY <2>1, <2>2
<1>4. cache \in [Stages -> [Epochs -> [Requests -> Int]]]
  BY EmptyMachine DEF Init
<1> QED BY <1>1, <1>2, <1>3, <1>4 DEF Init, MachineTypeOK

\* The invariant holds at the start.
LEMMA PipelineInit == Init => PipelineInv
<1> SUFFICES ASSUME Init PROVE PipelineInv
  OBVIOUS
<1>1. ControlInv /\ MachineTypeOK
  BY ControlInit, StartTyped
<1>2. /\ \A c \in Callers : calls[c] = Idle /\ ~Open(c) /\ ~ReturnedOk(c)
      /\ frames = {} /\ main.phase = "wait" /\ main.epoch = 0
  BY DEF Init, Idle, Open, ReturnedOk
<1>3. Main \in Callers /\ Requests \subseteq Callers
  BY RequestIds
<1>4. /\ \A r \in Requests : worker[r] = NewWorker
      /\ NewWorker.status = "new" /\ NewWorker.gap = FALSE
  BY DEF Init, NewWorker
<1>5. ASSUME NEW n \in Stages
      PROVE  agent[n].busy = NotBusy /\ agent[n].active = 0 /\ \A e \in Epochs : agent[n].prepared[e] = NoRange
  BY EmptyMachine DEF Init, NewAgent
<1>6. WorkerInv
  BY <1>2, <1>3, <1>4 DEF WorkerInv
<1>7. MainCallInv
  BY <1>2, <1>3 DEF MainCallInv
<1>8. FrameInv
  BY <1>2, <1>5 DEF FrameInv
<1>9. AgentInv
  <2> SUFFICES ASSUME NEW n \in Stages PROVE AgentOK(agent[n], n)
    BY DEF AgentInv
  <2>1. agent[n] \in Agents
    BY <1>1 DEF MachineTypeOK
  <2> QED BY <1>1, <1>5, <2>1, EmptyAgentOK
<1>10. SteadyInv
  <2>1. ActivationsAwaited
    BY <1>2 DEF ActivationsAwaited
  <2>2. SwitchedUse
    BY <1>2 DEF SwitchedUse, Switched
  <2>3. JobsSteady
    BY <1>5 DEF JobsSteady, JobSteady
  <2>4. AnswersSteady
    BY <1>2, <1>3 DEF AnswersSteady
  <2>5. GapFree
    BY <1>4 DEF GapFree
  <2> QED BY <2>1, <2>2, <2>3, <2>4, <2>5 DEF SteadyInv
<1> QED BY <1>1, <1>6, <1>7, <1>8, <1>9, <1>10 DEF PipelineInv

\* No step breaks the invariant.
LEMMA PipelineStep == PipelineInv /\ [Next]_vars => PipelineInv'
<1> SUFFICES ASSUME PipelineInv, [Next]_vars PROVE PipelineInv'
  OBVIOUS
<1>1. /\ ControlInv /\ MachineTypeOK /\ WorkerInv /\ MainCallInv /\ FrameInv /\ AgentInv /\ SteadyInv
  BY DEF PipelineInv
<1>2. ControlInv' /\ Advance
  BY <1>1, ControlStep
<1>3. MachineTypeOK'
  BY <1>1, TypeStep
<1>4. WorkerInv'
  BY <1>1, <1>2, <1>3, WorkerInvStep
<1>5. MainCallInv'
  BY <1>1, MainCallStep
<1>6. FrameInv'
  BY <1>1, <1>2, <1>3, FrameInvStep
<1>7. AgentInv'
  BY <1>1, <1>2, <1>3, AgentInvStep
<1>8. SteadyInv'
  <2> SUFFICES ASSUME Activation \notin broken'
               PROVE  (ActivationsAwaited /\ SwitchedUse /\ JobsSteady /\ AnswersSteady /\ GapFree)'
    BY DEF SteadyInv, Activation
  <2>1. ActivationsAwaited /\ SwitchedUse /\ JobsSteady /\ AnswersSteady /\ GapFree
    BY <1>1, <1>2 DEF SteadyInv, Advance
  <2>2. ActivationsAwaited'
    BY <1>1, <2>1, ActivationsStep
  <2>3. SwitchedUse'
    BY <1>1, <1>2, <1>3, <2>1, SwitchedStep
  <2>4. JobsSteady'
    BY <1>1, <1>2, <1>3, <2>1, JobsStep
  <2>5. AnswersSteady'
    BY <1>1, <1>2, <1>3, <2>1, AnswersStep
  <2>6. GapFree'
    BY <1>1, <1>2, <1>3, <2>1, GapFreeStep
  <2> QED BY <2>2, <2>3, <2>4, <2>5, <2>6
<1> QED BY <1>2, <1>3, <1>4, <1>5, <1>6, <1>7, <1>8 DEF PipelineInv

\* Controller, threads, agents and frames agree as PipelineInv says, in every behaviour.
THEOREM PipelineInvariant == Spec => []PipelineInv
BY PipelineInit, PipelineStep, PTL DEF Spec

\* Every state of main, the plan, the agents and the calls is of its type.
THEOREM RealPipelineTypeCorrect == Spec => []RealPipelineTypeOK
<1>1. PipelineInv => RealPipelineTypeOK
  <2> SUFFICES ASSUME PipelineInv PROVE RealPipelineTypeOK
    OBVIOUS
  <2>1. /\ main.phase \in Phases /\ main.todo \subseteq Stages /\ alive \subseteq Stages
        /\ main.epoch \in 0..2 /\ plan.cursor \in (-NumStages)..NumLayers
    BY DEF PipelineInv, ControlInv, SplitInv, ControlTypeOK, LineInv
  <2>2. MaxEpoch = 2 /\ Epochs = {1, 2}
    BY TwoEpochs
  <2>3. \A n \in Stages : agent[n].active \in 0..MaxEpoch
    <3>1. {0} \cup Epochs = 0..MaxEpoch
      BY <2>2
    <3> QED BY <3>1 DEF PipelineInv, MachineTypeOK, Agents
  <2>4. \A c \in Callers : calls[c].st \in {"idle", "sent", "answered", "raised"}
    BY CallKinds DEF PipelineInv
  <2> QED BY <2>1, <2>2, <2>3, <2>4 DEF RealPipelineTypeOK
<1> QED BY <1>1, PipelineInvariant, PTL

\* A pass whose caller still waits keeps its layers to the end, although retire_epoch
\* does not take the lock of the engine.
THEOREM CallersAlwaysKeepStage == Spec => []CallerKeepsStage
<1>1. PipelineInv => CallerKeepsStage
  <2> SUFFICES ASSUME PipelineInv, Activation \notin broken, NEW n \in Stages, agent[n].busy # NotBusy,
                      calls[agent[n].busy.frame.from] = SentCall(agent[n].busy.frame)
               PROVE  agent[n].prepared[agent[n].busy.epoch] = agent[n].busy.range
    BY DEF CallerKeepsStage, SentCall
  <2> DEFINE f == agent[n].busy.frame
  <2>1. f \in RequestFrames /\ f.from \in Requests
    BY DEF PipelineInv, MachineTypeOK, Agents, RequestFrames
  <2>2. Open(f.from) /\ calls[f.from].frame = f /\ calls[f.from] # Idle
    <3>1. SentCall(f).st = "sent" /\ SentCall(f).frame = f /\ Idle.st = "idle"
      BY DEF SentCall, Idle
    <3> QED BY <3>1 DEF Open
  <2> HIDE DEF f
  <2>3. main.phase = "serve" /\ f.line = main.line
    BY <2>1, <2>2 DEF PipelineInv, WorkerInv
  <2>4. JobSteady(agent[n], n)
    BY DEF PipelineInv, SteadyInv, JobsSteady
  <2> QED BY <2>3, <2>4 DEF JobSteady, f
<1> QED BY <1>1, PipelineInvariant, PTL

\* The passes of every request go through each layer once and in order, although its
\* frames name no epoch, connections break and agents are restarted.
THEOREM PassesAlwaysCoverModel == Spec => []PassesCoverModel
<1>1. PipelineInv => PassesCoverModel
  BY DEF PipelineInv, SteadyInv, GapFree, PassesCoverModel
<1> QED BY <1>1, PipelineInvariant, PTL

-----------------------------------------------------------------------------
(* Caches *)

\* None of the exceptions of CacheMatchesPass applies to r.
Clean(r) == r \notin broken /\ Activation \notin broken /\ ~UsedBefore(r)

\* The tokens in the cache of r; there are none when there is no cache.
Length(n, e, r) == IF cache[n][e][r] = -1 THEN 0 ELSE cache[n][e][r]

\* The tokens of r that stage n has seen, by what the thread of r knows.
Expected(n, r) ==
  IF n \notin worker[r].todo \/ (n = First(worker[r].todo) /\ ReturnedOk(r))
    THEN Before(worker[r].pass + 1) ELSE Before(worker[r].pass)

\* A call that failed; a stage that runs a pass of r.
ReturnedBadly(r) == Returned(r) /\ ~ReturnedOk(r)
Serves(n, r) == agent[n].busy # NotBusy /\ agent[n].busy.frame.from = r

\* Of a clean request: its call waits for the only frame or pass there is of it, and
\* every stage that still has the epoch in force has seen the tokens its thread expects.
CacheOK(r) ==
  /\ ~worker[r].skew
  /\ worker[r].status = "new" =>
       \A n \in Stages : ~Serves(n, r) /\ \A e \in Epochs : cache[n][e][r] = -1
  /\ \A f \in frames : f.from = r => calls[r] = SentCall(f)
  /\ \A n \in Stages : Serves(n, r) =>
       /\ calls[r] = SentCall(agent[n].busy.frame) /\ agent[n].busy.frame \notin frames
       /\ cache[n][agent[n].busy.epoch][r] # -1
  /\ worker[r].status = "running" =>
       \A n \in alive : agent[n].active = main.epoch =>
         \/ n = First(worker[r].todo) /\ ReturnedBadly(r)
         \/ Length(n, main.epoch, r) = Expected(n, r)
  /\ ReturnedOk(r) => calls[r].answer.past = Before(worker[r].pass)

\* So it is with every clean request.
CacheInv == \A r \in Requests : Clean(r) => CacheOK(r)

\* What was clean stays so until something happens to it.
LEMMA CleanBefore ==
  ASSUME ControlInv, ControlInv', Advance, NEW r \in Requests, Clean(r)'
  PROVE  Clean(r)
<1>1. main.line \in Int /\ main'.line \in Int /\ main.line <= main'.line
  BY DEF ControlInv, SplitInv, ControlTypeOK, Advance
<1>2. UsedBefore(r) => UsedBefore(r)'
  BY <1>1, UsedOn
<1> QED BY <1>2 DEF Clean, Advance, Activation

\* A step that does not concern r, or only takes away what r has on a machine.
LEMMA CacheOKFrom ==
  ASSUME MachineTypeOK, MachineTypeOK', NEW r \in Requests, CacheOK(r), UNCHANGED control,
         worker'[r] = worker[r], calls'[r] = calls[r],
         main.phase = "serve" => main.epoch \in Epochs,
         worker[r].status = "running" => main.phase = "serve",
         \A f \in frames' : f.from = r => f \in frames,
         \A n \in Stages : agent'[n].busy = NotBusy \/ ~Serves(n, r)' \/
           (agent'[n].busy = agent[n].busy /\ (agent[n].busy.frame \in frames' => agent[n].busy.frame \in frames)),
         \A n \in Stages : main.phase = "serve" => agent'[n].active \in {0, agent[n].active},
         \A n \in Stages, e \in Epochs :
           \/ cache'[n][e][r] = cache[n][e][r]
           \/ /\ cache'[n][e][r] = -1 /\ (main.phase = "serve" => agent'[n].active # e)
              /\ Serves(n, r)' => agent'[n].busy.epoch # e,
         alive \in SUBSET Stages
  PROVE  CacheOK(r)'
<1>1. ~worker'[r].skew
  BY DEF CacheOK
<1>2. ASSUME NEW n \in Stages, Serves(n, r)'
      PROVE  Serves(n, r) /\ agent'[n].busy = agent[n].busy /\ agent[n].busy.epoch \in Epochs
  <2>1. agent'[n].busy = agent[n].busy /\ Serves(n, r)
    BY <1>2 DEF Serves
  <2> QED BY <2>1 DEF Serves, MachineTypeOK, Agents
<1>3. worker'[r].status = "new" =>
        \A n \in Stages : ~Serves(n, r)' /\ \A e \in Epochs : cache'[n][e][r] = -1
  BY <1>2 DEF CacheOK
<1>4. \A f \in frames' : f.from = r => calls'[r] = SentCall(f)
  BY DEF CacheOK
<1>5. ASSUME NEW n \in Stages, Serves(n, r)'
      PROVE  /\ calls'[r] = SentCall(agent'[n].busy.frame) /\ agent'[n].busy.frame \notin frames'
             /\ cache'[n][agent'[n].busy.epoch][r] # -1
  <2>1. Serves(n, r) /\ agent'[n].busy = agent[n].busy /\ agent[n].busy.epoch \in Epochs
    BY <1>2, <1>5
  <2>2. calls[r] = SentCall(agent[n].busy.frame) /\ agent[n].busy.frame \notin frames
        /\ cache[n][agent[n].busy.epoch][r] # -1
    BY <2>1 DEF CacheOK
  <2>3. agent[n].busy.frame \notin frames'
    BY <1>5, <2>1, <2>2 DEF Serves
  <2> QED BY <1>5, <2>1, <2>2, <2>3
<1>6. ASSUME worker'[r].status = "running", NEW n \in alive', agent'[n].active = main'.epoch
      PROVE  \/ n = First(worker'[r].todo) /\ ReturnedBadly(r)'
             \/ Length(n, main.epoch, r)' = Expected(n, r)'
  <2>1. n \in alive /\ n \in Stages /\ main' = main /\ main.epoch \in Epochs /\ agent[n].active = main.epoch
        /\ main.phase = "serve" /\ agent'[n].active = main.epoch
    <3>1. main.epoch # 0
      BY <1>6, TwoEpochs
    <3> QED BY <1>6, <3>1 DEF control
  <2>2. \/ n = First(worker[r].todo) /\ ReturnedBadly(r)
        \/ Length(n, main.epoch, r) = Expected(n, r)
    BY <1>6, <2>1 DEF CacheOK
  <2>3. cache'[n][main.epoch][r] = cache[n][main.epoch][r]
    BY <2>1
  <2> QED BY <2>1, <2>2, <2>3 DEF ReturnedBadly, Returned, ReturnedOk, Length, Expected
<1>7. ReturnedOk(r)' => calls'[r].answer.past = Before(worker'[r].pass)
  BY DEF CacheOK, ReturnedOk
<1> HIDE DEF CacheOK
<1> QED BY <1>1, <1>3, <1>4, <1>5, <1>6, <1>7 DEF CacheOK

\* What is known of a clean request while its round is served.
LEMMA ServedRound ==
  ASSUME PipelineInv, NEW r \in Requests, worker[r].status = "running" \/ calls[r] # Idle
  PROVE  /\ worker[r].status = "running" /\ main.phase = "serve" /\ main.epoch \in Epochs /\ main.epoch # 0
         /\ main.line \notin PlanLines
         /\ worker[r].todo # {} /\ worker[r].todo \subseteq alive /\ alive \in SUBSET Stages
         /\ First(worker[r].todo) \in worker[r].todo
         /\ worker[r].pass \in Nat
<1>1. /\ worker[r].status = "running" /\ main.phase = "serve"
      /\ worker[r].todo # {} /\ worker[r].todo \subseteq alive
  BY DEF PipelineInv, WorkerInv
<1>2. alive \in SUBSET Stages /\ LineInv /\ worker[r] \in Workers
  BY DEF PipelineInv, ControlInv, SplitInv, ControlTypeOK, MachineTypeOK
<1>3. main.line \notin PlanLines /\ main.line \in 1..LastLine
  BY <1>1, <1>2, LineKinds DEF LineInv
<1>4. main.epoch \in {1, 2}
  BY <1>1, <1>2, <1>3, LineOrder DEF LineInv, PlansBefore
<1>5. First(worker[r].todo) \in worker[r].todo
  <2>1. worker[r].todo \in SUBSET Stages
    BY <1>2 DEF Workers
  <2> QED BY <1>1, <2>1, FirstIsLeast
<1> QED BY <1>1, <1>2, <1>3, <1>4, <1>5, TwoEpochs DEF Workers

\* How the answered and the raised call differ from the others.
LEMMA CallStates ==
  /\ Idle.st = "idle" /\ Raised.st = "raised"
  /\ \A f : SentCall(f).st = "sent" /\ SentCall(f).frame = f
  /\ \A f, a : AnsweredCall(f, a).st = "answered" /\ AnsweredCall(f, a).frame = f /\ AnsweredCall(f, a).answer = a
BY DEF Idle, Raised, SentCall, AnsweredCall

\* A thread that calls finds nothing of its own on the way.
LEMMA CallingKeepsCache ==
  ASSUME PipelineInv, NEW r \in Requests, CacheOK(r), WorkerCalls(r)
  PROVE  CacheOK(r)'
<1>1. worker[r].todo # {} /\ MachineTypeOK /\ ControlInv
  BY RequestFrameOK DEF PipelineInv
<1> PICK f \in Frames : f = RequestFrame(r)
  BY <1>1, WorkerCalling
<1>2. /\ worker[r].status = "running" /\ f.from = r /\ calls[r] = Idle
      /\ \/ calls'[r] = SentCall(f) /\ frames' = frames \cup {f}
         \/ calls'[r] = Raised /\ frames' = frames
      /\ UNCHANGED <<control, worker, machines>>
  BY <1>1, WorkerCalling
<1>3. (\A g \in frames : g.from # r) /\ \A n \in Stages : ~Serves(n, r)
  BY <1>2, CallStates DEF CacheOK
<1>4. ~ReturnedOk(r) /\ ~ReturnedOk(r)' /\ ~ReturnedBadly(r)
  BY <1>2, CallStates DEF ReturnedOk, ReturnedBadly, Returned
<1>5. \A n \in Stages : ~Serves(n, r)'
  BY <1>2, <1>3 DEF Serves, machines
<1>6. \A g \in frames' : g.from = r => calls'[r] = SentCall(g)
  BY <1>2, <1>3
<1>7. \A n \in alive : agent'[n].active = main.epoch => Length(n, main.epoch, r)' = Expected(n, r)'
  <2>1. \A n \in alive : agent[n].active = main.epoch => Length(n, main.epoch, r) = Expected(n, r)
    BY <1>2, <1>4 DEF CacheOK
  <2> QED BY <1>2, <1>4, <2>1 DEF Length, Expected, machines, control
<1>8. alive' = alive /\ main' = main
  BY <1>2 DEF control
<1>9. ~worker'[r].skew /\ worker'[r].status = "running"
  BY <1>2 DEF CacheOK
<1> QED BY <1>4, <1>5, <1>6, <1>7, <1>8, <1>9 DEF CacheOK

\* A thread that takes an answer agrees with the stage about the tokens it has seen.
LEMMA ReturningKeepsCache ==
  ASSUME PipelineInv, NEW r \in Requests, CacheOK(r), WorkerReturns(r)
  PROVE  CacheOK(r)'
<1> DEFINE w == worker[r]
           v == worker'[r]
           answer == calls[r].answer
           first == First(w.todo)
           rest == w.todo \ {first}
<1>1. MachineTypeOK /\ alive \in SUBSET Stages
  BY DEF PipelineInv, ControlInv, SplitInv, ControlTypeOK
<1>2. /\ w.status = "running" /\ Returned(r) /\ calls'[r] = Idle
      /\ UNCHANGED <<control, frames, machines>>
      /\ \/ ~ReturnedOk(r) /\ v = [w EXCEPT !.status = "failed"]
         \/ /\ ReturnedOk(r)
            /\ v.skew => w.skew \/ answer.past # Before(w.pass)
            /\ \/ rest # {} /\ v.status = "running" /\ v.todo = rest /\ v.pass = w.pass
               \/ rest = {} /\ v.status = "done"
               \/ rest = {} /\ v.status = "running" /\ v.todo = alive /\ v.pass = w.pass + 1
  BY <1>1, Returning
<1>3. main' = main /\ alive' = alive /\ agent' = agent /\ cache' = cache /\ frames' = frames
  BY <1>2 DEF control, machines
<1>4. (\A g \in frames : g.from # r) /\ \A n \in Stages : ~Serves(n, r)
  BY <1>2, CallStates DEF CacheOK, Returned
<1>5. \A n \in Stages : ~Serves(n, r)'
  BY <1>3, <1>4 DEF Serves
<1>6. ~ReturnedOk(r)'
  BY <1>2, CallStates DEF ReturnedOk
<1>7. CASE ~ReturnedOk(r) /\ v = [w EXCEPT !.status = "failed"]
  <2>1. w \in Workers
    BY <1>1 DEF MachineTypeOK
  <2>2. v.status = "failed" /\ v.skew = w.skew
    <3> HIDE DEF w, v
    <3> QED BY <1>7, <2>1 DEF Workers
  <2>3. ~w.skew
    BY DEF CacheOK
  <2> HIDE DEF w
  <2> QED BY <1>3, <1>4, <1>5, <1>6, <2>2, <2>3 DEF CacheOK
<1>8. CASE ReturnedOk(r)
  <2>1. ~w.skew /\ answer.past = Before(w.pass) /\ ~ReturnedBadly(r)
    BY <1>8 DEF CacheOK, ReturnedBadly
  <2>2. ~v.skew /\ v.status \in {"running", "done"}
    BY <1>2, <1>8, <2>1
  <2>3. \A n \in alive : agent[n].active = main.epoch => Length(n, main.epoch, r) = Expected(n, r)
    BY <1>2, <2>1 DEF CacheOK
  <2>4. ASSUME v.status = "running", NEW n \in alive PROVE Expected(n, r)' = Expected(n, r)
    <3>1. CASE rest # {} /\ v.todo = rest /\ v.pass = w.pass
      BY <1>6, <1>8, <3>1 DEF Expected
    <3>2. CASE rest = {} /\ v.todo = alive /\ v.pass = w.pass + 1
      <4>1. n \notin w.todo \/ n = first
        BY <3>2
      <4>2. Expected(n, r) = Before(w.pass + 1)
        BY <1>8, <4>1 DEF Expected
      <4>3. Expected(n, r)' = Before(v.pass)
        BY <1>6, <3>2 DEF Expected
      <4> QED BY <3>2, <4>2, <4>3
    <3> QED BY <1>2, <1>8, <2>4, <3>1, <3>2
  <2>5. \A n, e : Length(n, e, r)' = Length(n, e, r)
    BY <1>3 DEF Length
  <2>6. v.status = "running" => \A n \in alive : agent'[n].active = main'.epoch =>
          Length(n, main.epoch, r)' = Expected(n, r)'
    BY <1>3, <2>3, <2>4, <2>5
  <2> HIDE DEF w
  <2> QED BY <1>3, <1>4, <1>5, <1>6, <2>2, <2>6 DEF CacheOK
<1> HIDE DEF w, v, rest, answer, first
<1> QED BY <1>2, <1>7, <1>8

\* A connection of r that breaks and is not made again takes the call with it.
LEMMA BreakingKeepsCache ==
  ASSUME PipelineInv, NEW r \in Requests, Clean(r), CacheOK(r), Break(r), r \notin broken'
  PROVE  CacheOK(r)'
<1> DEFINE f == calls[r].frame
<1>1. MachineTypeOK /\ r \in Callers /\ FrameInv
  BY RequestIds DEF PipelineInv
<1>2. /\ calls[r].st \in {"sent", "answered"} /\ f \in Frames /\ f.from = r
      /\ \/ broken' = broken \cup {IF f.what.op = "activate" THEN Activation ELSE r}
         \/ ~ (f.try = 1 /\ agent[f.node].up) /\ calls'[r] = Raised /\ frames' \subseteq frames
      /\ UNCHANGED <<control, worker, machines>>
  BY <1>1, Breaking
<1> HIDE DEF f
<1>3. f.what.op \in ForwardOps /\ f.try \in {1, 2}
  <2>1. f.from # Main
    BY <1>2, RequestIds
  <2> QED BY <1>2, <2>1, FrameKinds
<1>4. ~ (f.try = 1 /\ agent[f.node].up) /\ calls'[r] = Raised /\ frames' \subseteq frames
  BY <1>2, <1>3 DEF ForwardOps
<1>5. ~agent[f.node].up
  <2>1. FrameOK(f)
    BY <1>1, <1>2 DEF FrameInv, Open, f
  <2>2. f.try # 2
    BY <1>2, <1>3, <2>1 DEF FrameOK, Resent, Clean, ForwardOps
  <2> QED BY <1>3, <1>4, <2>2
<1>6. ASSUME NEW g \in frames, g.from = r PROVE FALSE
  <2>1. calls[r] = SentCall(g)
    BY <1>6 DEF CacheOK
  <2>2. f = g
    BY <2>1, CallStates DEF f
  <2> QED BY <1>1, <1>5, <1>6, <2>2 DEF FrameInv
<1>7. ASSUME NEW n \in Stages, Serves(n, r) PROVE FALSE
  <2>1. f = agent[n].busy.frame
    BY <1>7, CallStates DEF CacheOK, f
  <2> QED BY <1>1, <1>5, <1>7, <2>1 DEF FrameInv, Serves
<1>8. /\ worker[r].status = "running" /\ f.node = First(worker[r].todo)
  <2>1. Open(r) /\ calls[r] # Idle
    BY <1>2, CallStates DEF Open
  <2> QED BY <2>1 DEF PipelineInv, WorkerInv, f
<1>9. ~ReturnedOk(r)' /\ ReturnedBadly(r)'
  BY <1>4, CallStates DEF ReturnedOk, ReturnedBadly, Returned
<1>10. /\ main' = main /\ alive' = alive /\ agent' = agent /\ cache' = cache /\ worker' = worker
  BY <1>2 DEF control, machines
<1>11. ASSUME NEW n \in alive, agent[n].active = main.epoch, n # First(worker[r].todo)
       PROVE  Length(n, main.epoch, r)' = Expected(n, r)'
  <2>1. Length(n, main.epoch, r) = Expected(n, r)
    BY <1>8, <1>11 DEF CacheOK
  <2>2. Length(n, main.epoch, r)' = Length(n, main.epoch, r)
    BY <1>10 DEF Length
  <2>3. Expected(n, r)' = Expected(n, r)
    BY <1>10, <1>11 DEF Expected
  <2> QED BY <2>1, <2>2, <2>3
<1>12. \A n \in Stages : ~Serves(n, r)'
  BY <1>7, <1>10 DEF Serves
<1>13. ~worker[r].skew
  BY DEF CacheOK
<1> QED BY <1>4, <1>6, <1>8, <1>9, <1>10, <1>11, <1>12, <1>13 DEF CacheOK

\* A pass of r begins at the length that the stage has reached, or is refused.
LEMMA BeginningKeepsCache ==
  ASSUME PipelineInv, MachineTypeOK', NEW f \in frames, ForwardBegins(f), f.from \in Requests,
         CacheOK(f.from)
  PROVE  CacheOK(f.from)'
<1> DEFINE n == f.node
           e == agent[n].active
           job == [epoch |-> e, range |-> agent[n].prepared[e], frame |-> f]
<1> PICK r \in Requests : r = f.from
  OBVIOUS
<1>1. MachineTypeOK /\ r \in Callers /\ f \in Frames /\ n \in Stages
  BY RequestIds, FrameKinds DEF PipelineInv, MachineTypeOK
<1>2. calls[r] = SentCall(f) /\ calls[r] # Idle
  BY CallStates DEF CacheOK
<1>3. /\ worker[r].status = "running" /\ n = First(worker[r].todo)
  <2>1. Open(r)
    BY <1>2, CallStates DEF Open
  <2> QED BY <1>2, <2>1, CallStates DEF PipelineInv, WorkerInv
<1>4. /\ agent[n].busy = NotBusy /\ frames' = frames \ {f}
      /\ UNCHANGED <<control, worker>>
      /\ \/ calls' = Answered(f, Refused) /\ UNCHANGED machines
         \/ /\ e \in Epochs /\ calls' = calls
            /\ agent'[n] = [agent[n] EXCEPT !.busy = job]
            /\ \A m \in Stages \ {n} : agent'[m] = agent[m] /\ cache'[m] = cache[m]
            /\ \A d \in Epochs, q \in Requests :
                 cache'[n][d][q] = IF d = e /\ q = f.from /\ cache[n][d][q] = -1 THEN 0 ELSE cache[n][d][q]
  BY <1>1, Beginning
<1>5. \A g \in frames' : g.from # r
  BY <1>2, <1>4, CallStates DEF CacheOK
<1>6. main' = main /\ alive' = alive /\ worker' = worker /\ alive \in SUBSET Stages /\ ~worker[r].skew
  BY <1>4 DEF control, CacheOK, PipelineInv, ControlInv, SplitInv, ControlTypeOK
<1>7. ~ReturnedOk(r)
  BY <1>2, CallStates DEF ReturnedOk
<1>8. ~ReturnedBadly(r)
  BY <1>2, CallStates DEF ReturnedBadly, Returned
<1>9. \A m \in Stages : ~Serves(m, r)
  <2> SUFFICES ASSUME NEW m \in Stages, Serves(m, r) PROVE FALSE
    OBVIOUS
  <2>1. agent[m].busy.frame = f
    BY <1>2, CallStates DEF CacheOK
  <2> QED BY <1>4, <2>1 DEF PipelineInv, FrameInv, Serves
<1>10. CASE calls' = Answered(f, Refused) /\ UNCHANGED machines
  <2>1. calls'[r] = AnsweredCall(f, Refused)
    <3>1. Refused \in Answers(f)
      BY <1>1, RequestIds DEF Answers
    <3> QED BY <1>1, <1>2, <1>10, <3>1, Answering
  <2>2. ~ReturnedOk(r)' /\ ReturnedBadly(r)'
    BY <2>1, CallStates DEF ReturnedOk, ReturnedBadly, Returned, Refused
  <2>3. \A m \in Stages : ~Serves(m, r)'
    BY <1>9, <1>10 DEF Serves, machines
  <2>4. ASSUME NEW m \in alive, agent[m].active = main.epoch, m # n
        PROVE  Length(m, main.epoch, r)' = Expected(m, r)'
    <3>1. Length(m, main.epoch, r) = Expected(m, r)
      BY <1>3, <1>8, <2>4 DEF CacheOK
    <3> QED BY <1>3, <1>6, <1>10, <2>4, <3>1 DEF Length, Expected, machines
  <2>5. agent' = agent
    BY <1>10 DEF machines
  <2> QED BY <1>3, <1>5, <1>6, <2>2, <2>3, <2>4, <2>5 DEF CacheOK
<1>11. CASE /\ e \in Epochs /\ calls' = calls
            /\ agent'[n] = [agent[n] EXCEPT !.busy = job]
            /\ \A m \in Stages \ {n} : agent'[m] = agent[m] /\ cache'[m] = cache[m]
            /\ \A d \in Epochs, q \in Requests :
                 cache'[n][d][q] = IF d = e /\ q = f.from /\ cache[n][d][q] = -1 THEN 0 ELSE cache[n][d][q]
  <2>1. job.frame = f /\ job.epoch = e
    OBVIOUS
  <2> HIDE DEF job, e
  <2>2. agent[n] \in Agents
    BY <1>1 DEF MachineTypeOK
  <2>3. agent'[n].busy = job /\ agent'[n].active = agent[n].active
    BY <1>11, <2>2 DEF Agents
  <2>4. \A m \in Stages : Serves(m, r)' => m = n
    BY <1>9, <1>11 DEF Serves
  <2>5. cache'[n][e][r] # -1 /\ f \notin frames'
    BY <1>4, <1>11
  <2>6. ASSUME NEW m \in Stages, NEW d \in Epochs PROVE Length(m, d, r)' = Length(m, d, r)
    BY <1>1, <1>11 DEF Length
  <2>7. ~ReturnedOk(r)' /\ calls'[r] = SentCall(f)
    BY <1>2, <1>7, <1>11 DEF ReturnedOk
  <2>8. main.epoch \in Epochs
    BY <1>3, ServedRound
  <2>9. ASSUME NEW m \in alive, agent'[m].active = main.epoch
        PROVE  Length(m, main.epoch, r)' = Expected(m, r)'
    <3>1. agent[m].active = main.epoch
      BY <1>6, <1>11, <2>3, <2>9
    <3>2. Length(m, main.epoch, r) = Expected(m, r)
      BY <1>3, <1>8, <3>1 DEF CacheOK
    <3>3. Expected(m, r)' = Expected(m, r)
      BY <1>6, <1>7, <2>7 DEF Expected
    <3> QED BY <1>6, <2>6, <2>8, <3>2, <3>3
  <2>10. \A m \in Stages : Serves(m, r)' =>
           /\ calls'[r] = SentCall(agent'[m].busy.frame) /\ agent'[m].busy.frame \notin frames'
           /\ cache'[m][agent'[m].busy.epoch][r] # -1
    BY <2>1, <2>3, <2>4, <2>5, <2>7
  <2> QED BY <1>3, <1>5, <1>6, <2>7, <2>9, <2>10 DEF CacheOK
<1> QED BY <1>4, <1>10, <1>11

\* A pass of r that ends has brought the stage one pass further, and says so.
LEMMA EndingKeepsCache ==
  ASSUME PipelineInv, Activation \notin broken, MachineTypeOK', NEW n \in Stages, NEW r \in Requests,
         ForwardEnds(n), agent[n].busy.frame.from = r, CacheOK(r)
  PROVE  CacheOK(r)'
<1> DEFINE job == agent[n].busy
           f == job.frame
           past == cache[n][job.epoch][f.from]
           seq == IF f.what.op = "prefill" THEN PromptLength ELSE 1
           done == [ok |-> TRUE, past |-> IF past = -1 THEN 0 ELSE past, range |-> job.range]
<1>1. MachineTypeOK /\ r \in Callers
  BY RequestIds DEF PipelineInv
<1>2. /\ job # NotBusy /\ job.epoch \in Epochs /\ f \in Frames /\ f \in RequestFrames /\ past \in Int
      /\ done \in Answers(f)
      /\ calls' = Answered(f, done) \/ calls' = Answered(f, Refused)
      /\ UNCHANGED <<control, worker, frames>>
      /\ agent'[n] = [agent[n] EXCEPT !.busy = NotBusy]
      /\ \A m \in Stages \ {n} : agent'[m] = agent[m]
      /\ \A m \in Stages, d \in Epochs, q \in Requests :
           cache'[m][d][q] =
             IF m = n /\ d = job.epoch /\ q = f.from /\ past # -1 THEN past + seq ELSE cache[m][d][q]
  BY <1>1, Ending
<1>20. /\ f.from = r /\ past = cache[n][job.epoch][r]
       /\ \A m \in Stages, d \in Epochs :
            cache'[m][d][r] = IF m = n /\ d = job.epoch /\ past # -1 THEN past + seq ELSE cache[m][d][r]
  <2>1. f.from = r
    OBVIOUS
  <2> HIDE DEF done, job, past, seq
  <2>2. past = cache[n][job.epoch][r]
    BY <2>1 DEF past
  <2> QED BY <1>2, <2>1, <2>2
<1>3. done.past = IF past = -1 THEN 0 ELSE past
  OBVIOUS
<1>4. Serves(n, r)
  BY <1>2 DEF Serves
<1>5. calls[r] = SentCall(f) /\ past # -1 /\ f \notin frames /\ calls[r] # Idle
  BY <1>4, <1>20, CallStates DEF CacheOK
<1> HIDE DEF done, job, past
<1>6. /\ worker[r].status = "running" /\ n = First(worker[r].todo) /\ f.line = main.line
      /\ f.what.op = IF worker[r].pass = 0 THEN "prefill" ELSE "decode"
  <2>1. Open(r) /\ calls[r].frame = f
    BY <1>5, CallStates DEF Open
  <2>2. f.node = n
    BY <1>2 DEF PipelineInv, FrameInv, job
  <2> QED BY <1>5, <2>1, <2>2 DEF PipelineInv, WorkerInv
<1>7. /\ main.phase = "serve" /\ main.epoch \in Epochs /\ n \in alive /\ n \in worker[r].todo
      /\ worker[r].pass \in Nat /\ alive \in SUBSET Stages
  BY <1>6, ServedRound
<1>8. job.epoch = main.epoch /\ agent[n].active = main.epoch
  <2>1. JobSteady(agent[n], n)
    BY DEF PipelineInv, SteadyInv, JobsSteady
  <2> QED BY <1>2, <1>6, <1>7, <2>1 DEF JobSteady, job
<1>9. ~ReturnedOk(r) /\ ~ReturnedBadly(r)
  BY <1>5, CallStates DEF ReturnedOk, ReturnedBadly, Returned
<1>10. \A m \in alive : agent[m].active = main.epoch => Length(m, main.epoch, r) = Expected(m, r)
  BY <1>6, <1>9 DEF CacheOK
<1>11. past = Before(worker[r].pass)
  <2>1. Length(n, main.epoch, r) = past
    BY <1>5, <1>8, <1>20 DEF Length
  <2>2. Expected(n, r) = Before(worker[r].pass)
    BY <1>6, <1>7, <1>9 DEF Expected
  <2> QED BY <1>7, <1>8, <1>10, <2>1, <2>2
<1>12. past + seq = Before(worker[r].pass + 1) /\ past + seq # -1
  BY <1>6, <1>7, <1>11, LengthsAssumption DEF Before
<1>13. agent'[n].busy = NotBusy /\ agent'[n].active = agent[n].active
  <2>1. agent[n] \in Agents
    BY <1>1 DEF MachineTypeOK
  <2> QED BY <1>2, <2>1 DEF Agents
<1>14. \A m \in Stages : ~Serves(m, r)'
  <2> SUFFICES ASSUME NEW m \in Stages, Serves(m, r)' PROVE FALSE
    OBVIOUS
  <2>1. m # n /\ agent'[m] = agent[m]
    BY <1>2, <1>13 DEF Serves
  <2>2. Serves(m, r)
    BY <2>1 DEF Serves
  <2>3. agent[m].busy.frame = f
    BY <1>5, <2>2, CallStates DEF CacheOK
  <2> QED BY <1>2, <2>1, <2>2, <2>3 DEF PipelineInv, FrameInv, Serves, job
<1>15. main' = main /\ alive' = alive /\ worker' = worker /\ frames' = frames /\ ~worker[r].skew
  BY <1>2 DEF control, CacheOK
<1>16. \A g \in frames' : g.from # r
  BY <1>5, <1>15, CallStates DEF CacheOK
<1>17. ASSUME NEW m \in alive, m # n, agent'[m].active = main.epoch
       PROVE  Length(m, main.epoch, r)' = Expected(m, r)'
  <2>1. Length(m, main.epoch, r) = Expected(m, r)
    BY <1>2, <1>7, <1>10, <1>17
  <2>2. Length(m, main.epoch, r)' = Length(m, main.epoch, r)
    BY <1>2, <1>7, <1>15, <1>17 DEF Length
  <2>3. Expected(m, r)' = Expected(m, r)
    BY <1>6, <1>15, <1>17 DEF Expected
  <2> QED BY <2>1, <2>2, <2>3
<1>18. CASE calls' = Answered(f, Refused)
  <2>1. calls'[r] = AnsweredCall(f, Refused)
    <3>1. Refused \in Answers(f)
      BY <1>2, RequestIds DEF Answers, RequestFrames
    <3>2. f.from = r
      BY DEF job
    <3> HIDE DEF f
    <3> QED BY <1>1, <1>2, <1>5, <1>18, <3>1, <3>2, Answering
  <2>2. ~ReturnedOk(r)' /\ ReturnedBadly(r)'
    BY <2>1, CallStates DEF ReturnedOk, ReturnedBadly, Returned, Refused
  <2> QED BY <1>6, <1>14, <1>15, <1>16, <1>17, <2>2 DEF CacheOK
<1>19. CASE calls' = Answered(f, done)
  <2>1. calls'[r] = AnsweredCall(f, done)
    <3>1. f.from = r
      BY DEF job
    <3> HIDE DEF f
    <3> QED BY <1>1, <1>2, <1>5, <1>19, <3>1, Answering
  <2>2. calls'[r].answer.past = Before(worker'[r].pass)
    BY <1>3, <1>5, <1>11, <1>15, <2>1, CallStates
  <2>3. done.ok = TRUE
    BY DEF done
  <2>4. ReturnedOk(r)'
    BY <2>1, <2>3, CallStates DEF ReturnedOk
  <2>5. Length(n, main.epoch, r)' = Expected(n, r)'
    <3>1. Length(n, main.epoch, r)' = past + seq
      BY <1>2, <1>5, <1>7, <1>8, <1>12, <1>15, <1>20 DEF Length
    <3>2. Expected(n, r)' = Before(worker[r].pass + 1)
      BY <1>6, <1>15, <2>4 DEF Expected
    <3> QED BY <1>12, <3>1, <3>2
  <2> QED BY <1>6, <1>14, <1>15, <1>16, <1>17, <2>2, <2>5 DEF CacheOK
<1> QED BY <1>2, <1>18, <1>19

\* A step of main starts a request with empty caches, or leaves it as it was.
LEMMA MainKeepsCache ==
  ASSUME PipelineInv, NEW r \in Requests, Clean(r), CacheOK(r), MainStep
  PROVE  CacheOK(r)'
<1>1. ControlInv /\ MachineTypeOK /\ WorkerInv /\ alive \in SUBSET Stages /\ r \in Callers /\ Main # r
  BY RequestIds DEF PipelineInv, ControlInv, SplitInv, ControlTypeOK
<1>2. worker[r].status # "running" /\ calls[r] = Idle
  BY <1>1, MainMeansIdle
<1>3. /\ UNCHANGED machines /\ calls'[r] = Idle
      /\ frames' \subseteq frames \cup {MainFrame}
      /\ worker' = worker \/ StartRound
  BY <1>1, <1>2, MainTouches, MainCalling
<1>4. ASSUME NEW f \in frames', f.from = r PROVE FALSE
  <2>1. MainFrame.from = Main
    BY DEF MainFrame
  <2>2. f \in frames
    BY <1>1, <1>3, <1>4, <2>1
  <2> QED BY <1>2, <1>4, <2>2, CallStates DEF CacheOK
<1>5. ASSUME NEW n \in Stages, Serves(n, r)' PROVE FALSE
  <2>1. Serves(n, r)
    BY <1>3, <1>5 DEF Serves, machines
  <2> QED BY <1>2, <2>1, CallStates DEF CacheOK
<1>6. ~ReturnedOk(r)'
  BY <1>3, CallStates DEF ReturnedOk
<1>7. cache' = cache /\ agent' = agent
  BY <1>3 DEF machines
<1>8. CASE worker'[r] = worker[r]
  BY <1>2, <1>4, <1>5, <1>6, <1>7, <1>8 DEF CacheOK
<1>9. CASE StartRound /\ r \in Script[main.line].ids
  <2>1. /\ worker'[r].status = "running" /\ worker'[r].todo = alive /\ worker'[r].pass = 0
        /\ worker'[r].skew = FALSE /\ main.phase = "next" /\ alive' = alive
        /\ main' = [phase |-> "serve", line |-> main.line, todo |-> {}, epoch |-> main.epoch]
        /\ main.line \in 1..LastLine /\ main.line \notin PlanLines
    BY <1>1, <1>9, StartRoundTyped
  <2>2. worker[r].status = "new"
    BY <1>1, <2>1 DEF WorkerInv, Clean
  <2>3. \A n \in Stages, e \in Epochs : cache[n][e][r] = -1
    BY <2>2 DEF CacheOK
  <2>4. main'.epoch \in Epochs
    BY <1>1, <2>1, LineOrder, TwoEpochs DEF ControlInv, LineInv, PlansBefore
  <2>5. ASSUME NEW n \in alive PROVE Length(n, main.epoch, r)' = Expected(n, r)'
    <3>1. Length(n, main.epoch, r)' = 0
      BY <1>1, <1>7, <2>3, <2>4 DEF Length
    <3>2. Expected(n, r)' = 0
      BY <1>6, <2>1 DEF Expected, Before
    <3> QED BY <3>1, <3>2
  <2> QED BY <1>4, <1>5, <1>6, <2>1, <2>5 DEF CacheOK
<1> QED BY <1>1, <1>3, <1>8, <1>9, StartRoundTyped

\* A clean request's pass runs in the epoch in force.
LEMMA ServedJob ==
  ASSUME PipelineInv, NEW r \in Requests, Clean(r), CacheOK(r), NEW n \in Stages, Serves(n, r)
  PROVE  agent[n].busy.epoch = main.epoch
<1>1. PICK f \in RequestFrames : f = agent[n].busy.frame
  BY DEF PipelineInv, MachineTypeOK, Agents, Serves
<1>2. calls[r] = SentCall(f)
  BY <1>1 DEF CacheOK
<1>3. Open(r) /\ calls[r].frame = f /\ calls[r] # Idle
  BY <1>2, CallStates DEF Open
<1>4. f.line = main.line /\ main.phase = "serve"
  BY <1>3, ServedRound DEF PipelineInv, WorkerInv
<1>5. JobSteady(agent[n], n)
  BY DEF PipelineInv, SteadyInv, JobsSteady, Clean
<1> QED BY <1>1, <1>4, <1>5 DEF JobSteady, Serves

\* Whatever else happens leaves r alone, or takes away what r does not use.
LEMMA OthersKeepCache ==
  ASSUME PipelineInv, MachineTypeOK', NEW r \in Requests, CacheOK(r), UNCHANGED control,
         worker'[r] = worker[r], calls'[r] = calls[r],
         \A f \in frames' : f.from = r => f \in frames,
         \A n \in Stages : agent'[n].busy = NotBusy \/ agent'[n].busy = agent[n].busy \/ ~Serves(n, r)',
         \A n \in Stages : main.phase = "serve" => agent'[n].active \in {0, agent[n].active},
         \A n \in Stages, e \in Epochs :
           \/ cache'[n][e][r] = cache[n][e][r]
           \/ /\ cache'[n][e][r] = -1 /\ (main.phase = "serve" => agent'[n].active # e)
              /\ Serves(n, r)' => agent'[n].busy.epoch # e
  PROVE  CacheOK(r)'
<1>1. MachineTypeOK /\ alive \in SUBSET Stages
  BY DEF PipelineInv, ControlInv, SplitInv, ControlTypeOK
<1>2. worker[r].status = "running" => main.phase = "serve"
  BY ServedRound
<1>3. main.phase = "serve" => main.epoch \in Epochs
  <2> SUFFICES ASSUME main.phase = "serve" PROVE main.epoch \in Epochs
    OBVIOUS
  <2>1. main.line \notin PlanLines /\ main.line \in 1..LastLine /\ LineInv
    BY LineKinds DEF PipelineInv, ControlInv, LineInv
  <2> QED BY <2>1, LineOrder, TwoEpochs DEF LineInv, PlansBefore
<1>4. \A n \in Stages : agent'[n].busy = NotBusy \/ ~Serves(n, r)' \/
         (agent'[n].busy = agent[n].busy /\ (agent[n].busy.frame \in frames' => agent[n].busy.frame \in frames))
  BY DEF Serves
<1> QED BY <1>1, <1>2, <1>3, <1>4, CacheOKFrom

\* An agent that starts again has nothing of r.
LEMMA EmptyingKeepsCache ==
  ASSUME PipelineInv, MachineTypeOK', NEW r \in Requests, CacheOK(r), NEW n \in Stages, Emptied(n),
         UNCHANGED <<control, worker>>, calls'[r] = calls[r], frames' \subseteq frames
  PROVE  CacheOK(r)'
<1>1. UNCHANGED control /\ worker'[r] = worker[r]
  OBVIOUS
<1>2. \A m \in Stages : agent'[m].busy = NotBusy \/ agent'[m].busy = agent[m].busy
  BY DEF Emptied
<1>3. \A m \in Stages : agent'[m].active \in {0, agent[m].active}
  BY DEF Emptied
<1>4. ASSUME NEW m \in Stages, NEW e \in Epochs
      PROVE  \/ cache'[m][e][r] = cache[m][e][r]
             \/ /\ cache'[m][e][r] = -1 /\ agent'[m].active # e
                /\ Serves(m, r)' => agent'[m].busy.epoch # e
  <2>1. e # 0
    BY TwoEpochs
  <2> QED BY <2>1 DEF Emptied, Serves
<1> QED BY <1>1, <1>2, <1>3, <1>4, OthersKeepCache

\* Orders of main take away only the caches of an epoch that is not in force.
LEMMA OrdersKeepCache ==
  ASSUME PipelineInv, MachineTypeOK', NEW r \in Requests, Clean(r), CacheOK(r), NEW f \in frames,
         AgentPrepare(f) \/ AgentActivate(f) \/ AgentRetire(f) \/ AgentShutdown(f)
  PROVE  CacheOK(r)'
<1>1. /\ MachineTypeOK /\ f \in Frames /\ f.node \in Stages /\ r \in Callers /\ Main # r
      /\ agent \in [Stages -> Agents]
  BY FrameKinds, RequestIds DEF PipelineInv, MachineTypeOK
<1>2. ASSUME f.from = Main, NEW a \in Answers(f), calls' = Answered(f, a)
      PROVE  calls'[r] = calls[r]
  BY <1>1, <1>2, Answering
<1>3. CASE AgentPrepare(f)
  <2>1. /\ f.what.op = "prepare" /\ agent[f.node].busy = NotBusy
        /\ \E a \in Answers(f) : calls' = Answered(f, a)
        /\ frames' = frames \ {f} /\ UNCHANGED <<control, worker, cache>>
        /\ \A m \in Stages :
             \/ agent'[m] = agent[m]
             \/ agent'[m] = [agent[m] EXCEPT !.prepared = [@ EXCEPT ![f.what.epoch] = f.what.range]]
    BY <1>1, <1>3, Preparing
  <2>2. calls'[r] = calls[r]
    BY <1>1, <1>2, <2>1, FrameKinds
  <2>3. \A m \in Stages : agent'[m].busy = agent[m].busy /\ agent'[m].active = agent[m].active
    BY <1>1, <2>1 DEF Agents
  <2> QED BY <2>1, <2>2, <2>3, OthersKeepCache
<1>4. CASE AgentActivate(f)
  <2>1. /\ f.what.op = "activate" /\ frames' = frames \ {f} /\ UNCHANGED <<control, worker, cache>>
        /\ calls' = Answered(f, Refused) \/ calls' = Answered(f, Success)
        /\ agent' = agent \/ /\ agent'[f.node] = [agent[f.node] EXCEPT !.active = f.what.epoch]
                             /\ \A m \in Stages \ {f.node} : agent'[m] = agent[m]
    BY <1>1, <1>4, Activating
  <2>2. calls'[r] = calls[r]
    BY <1>1, <1>2, <2>1, FrameKinds
  <2>3. main.phase # "serve"
    <3>1. MainCallInv /\ ActivationsAwaited
      BY DEF PipelineInv, SteadyInv, Clean
    <3> QED BY <2>1, <3>1, NoActivationServed
  <2>4. \A m \in Stages : agent'[m].busy = agent[m].busy
    BY <1>1, <2>1 DEF Agents
  <2> QED BY <2>1, <2>2, <2>3, <2>4, OthersKeepCache
<1>5. CASE AgentRetire(f)
  <2> DEFINE e == f.what.epoch
  <2>1. /\ f.what.op = "retire" /\ e \in Epochs
        /\ frames' = frames \ {f} /\ UNCHANGED <<control, worker>>
        /\ calls' = Answered(f, Success) /\ Success \in Answers(f)
        /\ agent'[f.node].busy = agent[f.node].busy
        /\ agent'[f.node].active = IF agent[f.node].active = e THEN 0 ELSE agent[f.node].active
        /\ cache'[f.node] = [cache[f.node] EXCEPT ![e] = [q \in Requests |-> -1]]
        /\ \A m \in Stages \ {f.node} : agent'[m] = agent[m] /\ cache'[m] = cache[m]
    BY <1>1, <1>5, Retiring
  <2>2. calls'[r] = calls[r]
    BY <1>1, <1>2, <2>1, FrameKinds
  <2>3. e < main.epoch /\ main.epoch \in Int
    BY <1>1, <2>1 DEF PipelineInv, FrameInv, FrameOK, ControlInv, SplitInv, ControlTypeOK
  <2> HIDE DEF e
  <2>4. e # 0 /\ e # main.epoch
    BY <2>1, <2>3, TwoEpochs
  <2>5. \A m \in Stages : agent'[m].busy = agent[m].busy /\ agent'[m].active \in {0, agent[m].active}
    BY <2>1
  <2>6. ASSUME NEW m \in Stages, NEW d \in Epochs
        PROVE  \/ cache'[m][d][r] = cache[m][d][r]
               \/ /\ cache'[m][d][r] = -1 /\ (main.phase = "serve" => agent'[m].active # d)
                  /\ Serves(m, r)' => agent'[m].busy.epoch # d
    <3>1. CASE m # f.node
      BY <2>1, <3>1
    <3>2. CASE m = f.node
      <4>1. cache[m] \in [Epochs -> [Requests -> Int]]
        BY <1>1 DEF MachineTypeOK
      <4>2. CASE d # e
        BY <2>1, <3>2, <4>1, <4>2
      <4>3. CASE d = e
        <5>1. cache'[m][d][r] = -1
          BY <2>1, <3>2, <4>1, <4>3
        <5>2. agent'[m].active # d
          BY <2>1, <2>4, <3>2, <4>3
        <5>3. Serves(m, r)' => Serves(m, r)
          BY <2>5 DEF Serves
        <5> QED BY <2>4, <2>5, <4>3, <5>1, <5>2, <5>3, ServedJob
      <4> QED BY <4>2, <4>3
    <3> QED BY <3>1, <3>2
  <2> QED BY <2>1, <2>2, <2>5, <2>6, OthersKeepCache
<1>6. CASE AgentShutdown(f)
  <2>1. /\ f.what.op = "shutdown" /\ calls' = Answered(f, Success) /\ Success \in Answers(f)
        /\ frames' \subseteq frames /\ UNCHANGED <<control, worker>> /\ Emptied(f.node)
    BY <1>1, <1>6, ShuttingDown
  <2>2. calls'[r] = calls[r]
    BY <1>1, <1>2, <2>1, FrameKinds
  <2> QED BY <1>1, <2>1, <2>2, EmptyingKeepsCache
<1> QED BY <1>3, <1>4, <1>5, <1>6

\* The pass of another request does not touch what r has on the stage.
LEMMA PassesKeepCache ==
  ASSUME PipelineInv, MachineTypeOK', NEW r \in Requests, Clean(r), CacheOK(r), NEW n \in Stages,
         \/ \E f \in frames : f.node = n /\ ForwardBegins(f)
         \/ ForwardEnds(n)
  PROVE  CacheOK(r)'
<1>1. MachineTypeOK /\ r \in Callers /\ agent \in [Stages -> Agents]
  BY RequestIds DEF PipelineInv, MachineTypeOK
<1>2. ASSUME NEW f \in frames, ForwardBegins(f)
      PROVE  CacheOK(r)'
  <2> DEFINE e == agent[f.node].active
             job == [epoch |-> e, range |-> agent[f.node].prepared[e], frame |-> f]
  <2>1. /\ f \in Frames /\ f.what.op \in ForwardOps /\ f.node \in Stages /\ f.from \in Requests
        /\ Refused \in Answers(f) /\ job.frame = f
    BY <1>1, <1>2, Beginning, FrameKinds
  <2>2. /\ frames' = frames \ {f} /\ UNCHANGED <<control, worker>>
        /\ \/ calls' = Answered(f, Refused) /\ UNCHANGED machines
           \/ /\ calls' = calls
              /\ agent'[f.node] = [agent[f.node] EXCEPT !.busy = job]
              /\ \A m \in Stages \ {f.node} : agent'[m] = agent[m] /\ cache'[m] = cache[m]
              /\ \A d \in Epochs, q \in Requests :
                   cache'[f.node][d][q] = IF d = e /\ q = f.from /\ cache[f.node][d][q] = -1
                                            THEN 0 ELSE cache[f.node][d][q]
    BY <1>1, <1>2, Beginning
  <2>3. CASE f.from = r
    BY <1>2, <2>1, <2>3, BeginningKeepsCache
  <2>4. CASE f.from # r
    <3> HIDE DEF job, e
    <3>1. calls'[r] = calls[r]
      BY <1>1, <2>1, <2>2, <2>4, Answering
    <3>2. CASE UNCHANGED machines
      BY <2>2, <3>1, <3>2, OthersKeepCache DEF machines
    <3>3. CASE /\ agent'[f.node] = [agent[f.node] EXCEPT !.busy = job]
               /\ \A m \in Stages \ {f.node} : agent'[m] = agent[m] /\ cache'[m] = cache[m]
               /\ \A d \in Epochs, q \in Requests :
                    cache'[f.node][d][q] = IF d = e /\ q = f.from /\ cache[f.node][d][q] = -1
                                             THEN 0 ELSE cache[f.node][d][q]
      <4>1. agent[f.node] \in Agents
        BY <1>1, <2>1
      <4>2. agent'[f.node].busy = job /\ agent'[f.node].active = agent[f.node].active
        BY <3>3, <4>1 DEF Agents
      <4>3. \A m \in Stages : agent'[m].active = agent[m].active
        BY <3>3, <4>2
      <4>4. \A m \in Stages : agent'[m].busy = agent[m].busy \/ ~Serves(m, r)'
        BY <2>1, <2>4, <3>3, <4>2 DEF Serves
      <4>5. \A m \in Stages, d \in Epochs : cache'[m][d][r] = cache[m][d][r]
        BY <2>1, <2>4, <3>3
      <4> QED BY <2>2, <3>1, <4>3, <4>4, <4>5, OthersKeepCache
    <3> QED BY <2>2, <3>2, <3>3
  <2> QED BY <2>3, <2>4
<1>3. CASE ForwardEnds(n)
  <2> DEFINE job == agent[n].busy
             f == job.frame
             past == cache[n][job.epoch][f.from]
             seq == IF f.what.op = "prefill" THEN PromptLength ELSE 1
             done == [ok |-> TRUE, past |-> IF past = -1 THEN 0 ELSE past, range |-> job.range]
  <2>1. CASE f.from = r
    <3>1. Activation \notin broken
      BY DEF Clean
    <3> QED BY <1>3, <2>1, <3>1, EndingKeepsCache
  <2>2. CASE f.from # r
    <3>1. /\ f \in Frames /\ f \in RequestFrames /\ done \in Answers(f)
          /\ calls' = Answered(f, done) \/ calls' = Answered(f, Refused)
          /\ UNCHANGED <<control, worker, frames>>
          /\ agent'[n] = [agent[n] EXCEPT !.busy = NotBusy]
          /\ \A m \in Stages \ {n} : agent'[m] = agent[m]
          /\ \A m \in Stages, d \in Epochs, q \in Requests :
               cache'[m][d][q] =
                 IF m = n /\ d = job.epoch /\ q = f.from /\ past # -1 THEN past + seq ELSE cache[m][d][q]
      BY <1>1, <1>3, Ending
    <3> HIDE DEF job, past, seq, done
    <3>2. calls'[r] = calls[r]
      <4>1. Refused \in Answers(f)
        BY <3>1, RequestIds DEF Answers, RequestFrames
      <4> HIDE DEF f
      <4> QED BY <1>1, <2>2, <3>1, <4>1, Answering
    <3>3. agent[n] \in Agents
      BY <1>1
    <3>4. agent'[n].busy = NotBusy /\ agent'[n].active = agent[n].active
      BY <3>1, <3>3 DEF Agents
    <3>5. \A m \in Stages : agent'[m].active = agent[m].active /\ agent'[m].busy \in {NotBusy, agent[m].busy}
      BY <3>1, <3>4
    <3>6. \A m \in Stages, d \in Epochs : cache'[m][d][r] = cache[m][d][r]
      BY <2>2, <3>1
    <3> QED BY <3>1, <3>2, <3>5, <3>6, OthersKeepCache
  <2> QED BY <2>1, <2>2
<1> QED BY <1>2, <1>3

-----------------------------------------------------------------------------
(* The invariant of the caches *)

\* No step makes the cache of a clean request differ from what its thread expects.
LEMMA CacheInvStep == PipelineInv /\ CacheInv /\ [Next]_vars => CacheInv'
<1> SUFFICES ASSUME PipelineInv, CacheInv, [Next]_vars, NEW r \in Requests, Clean(r)'
             PROVE  CacheOK(r)'
  BY DEF CacheInv
<1>1. ControlInv /\ MachineTypeOK /\ WorkerInv /\ alive \in SUBSET Stages /\ r \in Callers
  BY RequestIds DEF PipelineInv, ControlInv, SplitInv, ControlTypeOK
<1>2. ControlInv' /\ Advance /\ MachineTypeOK'
  BY <1>1, ControlStep, TypeStep, PipelineStep DEF PipelineInv
<1>3. Clean(r)
  BY <1>1, <1>2, CleanBefore
<1>4. CacheOK(r)
  BY <1>3 DEF CacheInv
<1>5. CASE MainStep
  BY <1>3, <1>4, <1>5, MainKeepsCache
<1>6. ASSUME NEW q \in Requests, WorkerCalls(q)
      PROVE  CacheOK(r)'
  <2>1. CASE q = r
    BY <1>4, <1>6, <2>1, CallingKeepsCache
  <2>2. CASE q # r
    <3>1. worker[q].todo # {}
      BY <1>1, <1>6 DEF WorkerInv, WorkerCalls
    <3>2. PICK f \in Frames : f = RequestFrame(q)
      BY <1>1, <1>6, <3>1, WorkerCalling
    <3>3. /\ f.from = q /\ frames' \subseteq frames \cup {f}
          /\ \A c \in Callers \ {q} : calls'[c] = calls[c]
          /\ UNCHANGED <<control, worker, machines>>
      BY <1>1, <1>6, <3>1, <3>2, WorkerCalling
    <3> QED BY <1>1, <1>2, <1>4, <2>2, <3>3, OthersKeepCache DEF machines
  <2> QED BY <2>1, <2>2
<1>7. ASSUME NEW q \in Requests, WorkerReturns(q)
      PROVE  CacheOK(r)'
  <2>1. CASE q = r
    BY <1>4, <1>7, <2>1, ReturningKeepsCache
  <2>2. CASE q # r
    <3>1. /\ \A c \in Callers \ {q} : calls'[c] = calls[c]
          /\ \A p \in Requests \ {q} : worker'[p] = worker[p]
          /\ UNCHANGED <<control, frames, machines>>
      BY <1>1, <1>7, Returning
    <3> QED BY <1>1, <1>2, <1>4, <2>2, <3>1, OthersKeepCache DEF machines
  <2> QED BY <2>1, <2>2
<1>8. ASSUME NEW c \in Callers, Break(c)
      PROVE  CacheOK(r)'
  <2>1. CASE c = r
    <3>1. r \notin broken'
      BY DEF Clean
    <3> QED BY <1>3, <1>4, <1>8, <2>1, <3>1, BreakingKeepsCache
  <2>2. CASE c # r
    <3>1. PICK f \in Frames : f = [calls[c].frame EXCEPT !.try = 2] /\ f.from = c
      BY <1>1, <1>8, Breaking
    <3>2. /\ frames' \subseteq frames \cup {f}
          /\ \A d \in Callers \ {c} : calls'[d] = calls[d]
          /\ UNCHANGED <<control, worker, machines>>
      BY <1>1, <1>8, <3>1, Breaking
    <3> QED BY <1>1, <1>2, <1>4, <2>2, <3>1, <3>2, OthersKeepCache DEF machines
  <2> QED BY <2>1, <2>2
<1>9. ASSUME NEW n \in Stages, AgentStep(n)
      PROVE  CacheOK(r)'
  BY <1>2, <1>3, <1>4, <1>9, OrdersKeepCache, PassesKeepCache DEF AgentStep
<1>10. ASSUME NEW n \in Stages, AgentStarts(n)
       PROVE  CacheOK(r)'
  <2>1. /\ UNCHANGED <<control, worker, calls, frames, cache>>
        /\ agent'[n] = [agent[n] EXCEPT !.up = TRUE]
        /\ \A m \in Stages \ {n} : agent'[m] = agent[m]
    BY <1>1, <1>10, Starting
  <2>2. agent[n] \in Agents
    BY <1>1 DEF MachineTypeOK
  <2>3. \A m \in Stages : agent'[m].busy = agent[m].busy /\ agent'[m].active = agent[m].active
    BY <2>1, <2>2 DEF Agents
  <2> QED BY <1>2, <1>4, <2>1, <2>3, OthersKeepCache
<1>11. ASSUME NEW n \in Stages, AgentRestarts(n)
       PROVE  CacheOK(r)'
  <2>1. UNCHANGED <<control, worker, calls>> /\ frames' \subseteq frames /\ Emptied(n)
    BY <1>1, <1>11, Restarting
  <2> QED BY <1>2, <1>4, <2>1, EmptyingKeepsCache
<1>12. CASE UNCHANGED vars
  BY <1>2, <1>4, <1>12, OthersKeepCache DEF vars, control
<1> QED BY <1>5, <1>6, <1>7, <1>8, <1>9, <1>10, <1>11, <1>12 DEF Next, WorkerStep

\* It holds at the start.
LEMMA CacheInvInit == Init => CacheInv
<1> SUFFICES ASSUME Init, NEW r \in Requests PROVE CacheOK(r)
  BY DEF CacheInv
<1>1. worker[r] = NewWorker /\ NewWorker.status = "new" /\ NewWorker.skew = FALSE
  BY DEF Init, NewWorker
<1>2. frames = {} /\ calls[r] = Idle
  BY RequestIds DEF Init
<1>3. ~ReturnedOk(r)
  BY <1>2, CallStates DEF ReturnedOk
<1>4. ASSUME NEW n \in Stages
      PROVE  ~Serves(n, r) /\ \A e \in Epochs : cache[n][e][r] = -1
  <2>1. agent[n].busy = NotBusy
    BY DEF Init, NewAgent
  <2> QED BY <2>1, EmptyMachine DEF Init, Serves
<1> QED BY <1>1, <1>2, <1>3, <1>4 DEF CacheOK

\* The caches agree with the threads in every behaviour.
THEOREM CacheInvariant == Spec => [](PipelineInv /\ CacheInv)
<1>1. Init => PipelineInv /\ CacheInv
  BY PipelineInit, CacheInvInit
<1>2. PipelineInv /\ CacheInv /\ [Next]_vars => (PipelineInv /\ CacheInv)'
  BY PipelineStep, CacheInvStep
<1> QED BY <1>1, <1>2, PTL DEF Spec

\* Every pass finds in each cache exactly the tokens before it, unless one of its calls
\* or an activation was sent twice or its id was used before.
THEOREM CachesAlwaysMatchPass == Spec => []CacheMatchesPass
<1>1. CacheInv => CacheMatchesPass
  BY DEF CacheInv, CacheOK, Clean, CacheMatchesPass
<1> QED BY <1>1, CacheInvariant, PTL
=============================================================================
