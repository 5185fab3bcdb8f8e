------------------------- MODULE ModelLedgerProofs -------------------------
(***************************************************************************)
(* The memory account, for every number of nodes, layers and operations     *)
(* and all sizes: it keeps its types, counts on no memory that a node does  *)
(* not have, and every placement is paid for; of the plans only that the    *)
(* model manager validates them is used for that.  A plan itself is a       *)
(* proportional split of the model.                                         *)
(*                                                                          *)
(* A sum is shown to count the elements of a finite set, and so needs no    *)
(* induction of its own; where finite sets are gone through, a minimal      *)
(* counterexample is taken.                                                 *)
(***************************************************************************)
EXTENDS ModelLedger, FiniteSetTheorems, WellFoundedInduction, TLAPS

SomeRange == Ranges \cup {NoRange}
SomePlacement == Placements \cup {NoPlacement}

Account ==
  /\ LedgerTypeOK
  /\ NoPhantomMemory
  /\ PlacedIsReserved

-----------------------------------------------------------------------------
(* Sizes *)

\* The product of two naturals is one.
LEMMA ProductNat == ASSUME NEW a \in Nat, NEW b \in Nat PROVE a * b \in Nat
  OBVIOUS

\* A range of layers takes no negative number of bytes.
LEMMA LayersNat == ASSUME NEW r \in SomeRange PROVE Layers(r) \in Nat
<1>1. r[2] - r[1] \in Nat
  BY CountsAssumption DEF SomeRange, Ranges, NoRange
<1>2. LayerBytes \in Nat
  BY BytesAssumption
<1>3. QED
  BY <1>1, <1>2, ProductNat DEF Layers

\* No layers take no bytes.
LEMMA LayersOfNone == Layers(NoRange) = 0
<1>1. NoRange[2] - NoRange[1] = 0
  BY DEF NoRange
<1>2. LayerBytes * 0 = 0
  BY BytesAssumption
<1>3. QED
  BY <1>1, <1>2 DEF Layers

\* The experts of a placement take no negative number of bytes either.
LEMMA ExpertsNat == ASSUME NEW k \in Nat PROVE ExpertBytes * k \in Nat
<1>1. ExpertBytes \in Nat
  BY BytesAssumption
<1>2. QED
  BY <1>1, ProductNat

\* A placement takes the bytes of its layers and experts.
LEMMA MemorySplit ==
  ASSUME NEW p \in Placements
  PROVE  /\ Memory(p) = Layers(p.range) + ExpertBytes * p.experts
         /\ Memory(p) \in Nat
<1>1. p.range \in SomeRange /\ p.experts \in Nat
  BY BytesAssumption DEF Placements, SomeRange
<1>2. Layers(p.range) \in Nat /\ ExpertBytes * p.experts \in Nat
  BY <1>1, LayersNat, ExpertsNat
<1>3. p.experts = 0 => ExpertBytes * p.experts = 0
  BY BytesAssumption
<1>4. QED
  BY <1>1, <1>2, <1>3 DEF Memory

\* A node without a placement pays for nothing.
LEMMA MemoryOfNone == Memory(NoPlacement) = 0
  BY LayersOfNone DEF Memory, NoPlacement

\* What a floored quotient counts fits into what is divided.
LEMMA Quotient ==
  ASSUME NEW a \in Nat, NEW b \in Nat \ {0}
  PROVE  a \div b \in Nat /\ b * (a \div b) <= a
  OBVIOUS

\* The experts that are loaded fit into what the layers leave free.
LEMMA ExpertsThatFitFit ==
  ASSUME LedgerTypeOK, NEW n \in Nodes, NEW p \in Placements, Layers(p.range) <= free[n]
  PROVE  /\ ExpertsThatFit(n, p) \in Nat
         /\ ExpertBytes * ExpertsThatFit(n, p) \in Nat
         /\ ExpertBytes * ExpertsThatFit(n, p) <= free[n] - Layers(p.range)
<1> DEFINE rest == free[n] - Layers(p.range)
           room == rest \div ExpertBytes
           fit == ExpertsThatFit(n, p)
<1>1. p.range \in SomeRange /\ p.experts \in Nat /\ ExpertBytes \in Nat \ {0}
  BY BytesAssumption DEF Placements, SomeRange
<1>2. rest \in Nat
  <2>1. Layers(p.range) \in Nat /\ free[n] \in Nat
    BY <1>1, LayersNat DEF LedgerTypeOK
  <2>2. QED
    BY <2>1
<1>3. room \in Nat /\ ExpertBytes * room <= rest
  BY <1>1, <1>2, Quotient
<1>4. fit \in Nat /\ fit <= room
  BY <1>1, <1>3 DEF ExpertsThatFit
<1>5. ExpertBytes * fit <= ExpertBytes * room
  <2> HIDE DEF fit, room
  <2>1. \A a \in Nat, b, c \in Nat : b <= c => a * b <= a * c
    OBVIOUS
  <2>2. QED
    BY <1>1, <1>3, <1>4, <2>1
<1>6. ExpertBytes * fit \in Nat
  BY <1>4, ExpertsNat
<1>7. QED
  <2> HIDE DEF rest, room, fit
  <2>1. ExpertBytes * fit <= rest
    BY <1>2, <1>3, <1>5, <1>6, <1>1, <1>4, ProductNat
  <2>2. QED
    BY <1>4, <1>6, <2>1 DEF rest, fit

-----------------------------------------------------------------------------
(* The invariant *)

\* What the types say of one node.
LEMMA NodeFacts ==
  ASSUME LedgerTypeOK, NEW n \in Nodes
  PROVE  /\ free[n] \in Nat /\ reserved[n] \in Nat
         /\ held[n] \in SomeRange /\ placed[n] \in SomePlacement
         /\ Memory(placed[n]) \in Nat
<1>1. free[n] \in Nat /\ reserved[n] \in Nat /\ held[n] \in SomeRange /\ placed[n] \in SomePlacement
  BY DEF LedgerTypeOK, SomeRange, SomePlacement
<1>2. CASE placed[n] \in Placements
  BY <1>1, <1>2, MemorySplit
<1>3. CASE placed[n] = NoPlacement
  BY <1>1, <1>3, MemoryOfNone
<1>4. QED
  BY <1>1, <1>2, <1>3 DEF SomePlacement

\* Nothing is booked at the start.
LEMMA AccountInit == ASSUME Init PROVE Account
<1>1. Total \in Nat /\ NoRange \in SomeRange /\ NoPlacement \in SomePlacement
  BY BytesAssumption DEF SomeRange, SomePlacement
<1>2. LedgerTypeOK
  BY <1>1 DEF Init, LedgerTypeOK, SomeRange, SomePlacement, NoPlan
<1>3. NoPhantomMemory
  BY <1>1 DEF Init, NoPhantomMemory
<1>4. PlacedIsReserved
  BY MemoryOfNone DEF Init, PlacedIsReserved
<1>5. QED
  BY <1>2, <1>3, <1>4 DEF Account

\* A plan that passed the validation pays for its layers with what was free or reserved.
LEMMA PlanStep == ASSUME Account, ApplyPipelinePlan PROVE Account'
<1> USE DEF Account
<1> DEFINE r(n) == plan.range[n]
<1>1. \A n \in Nodes : r(n) \in SomeRange /\ Layers(r(n)) \in Nat
  <2>1. \A n \in Nodes : r(n) \in SomeRange
    BY DEF ApplyPipelinePlan, Covers, SomeRange
  <2>2. QED
    BY <2>1, LayersNat
<1>2. \A n \in Nodes : n \notin Members => Layers(r(n)) = 0
  BY LayersOfNone DEF Members
<1>3. \A n \in Nodes : Layers(r(n)) <= free[n] + reserved[n]
  <2>1. \A n \in Members : Layers(r(n)) <= free[n] + reserved[n]
    BY DEF ApplyPipelinePlan, Fits
  <2>2. QED
    BY <1>2, <2>1, NodeFacts
<1>4. free' \in [Nodes -> Nat] /\ \A n \in Nodes : free'[n] = free[n] + reserved[n] - Layers(r(n))
  <2>1. \A n \in Nodes : free[n] + reserved[n] - Layers(r(n)) \in Nat
    BY <1>1, <1>3, NodeFacts
  <2>2. QED
    BY <2>1 DEF ApplyPipelinePlan
<1>5. reserved' \in [Nodes -> Nat] /\ \A n \in Nodes : reserved'[n] = Layers(r(n))
  BY <1>1 DEF ApplyPipelinePlan
<1>6. \A n \in Nodes : placed'[n] \in SomePlacement /\ Memory(placed'[n]) <= reserved'[n]
  <2> SUFFICES ASSUME NEW n \in Nodes
               PROVE  placed'[n] \in SomePlacement /\ Memory(placed'[n]) <= reserved'[n]
    OBVIOUS
  <2>1. CASE n \in Members
    <3> DEFINE p == [range |-> r(n), experts |-> 0]
    <3>1. placed'[n] = p
      BY <2>1 DEF ApplyPipelinePlan
    <3>2. p \in Placements /\ p.range = r(n) /\ p.experts = 0
      BY <1>1, BytesAssumption DEF Placements, SomeRange
    <3>3. Memory(p) = Layers(r(n))
      BY <1>1, <3>2 DEF Memory
    <3>4. QED
      BY <1>1, <1>5, <3>1, <3>2, <3>3 DEF SomePlacement
  <2>2. CASE n \notin Members
    <3>1. placed'[n] = NoPlacement
      BY <2>2 DEF ApplyPipelinePlan
    <3>2. QED
      BY <1>1, <1>5, <3>1, MemoryOfNone DEF SomePlacement
  <2>3. QED
    BY <2>1, <2>2
<1>7. held' \in [Nodes -> SomeRange]
  BY <1>1, NodeFacts DEF ApplyPipelinePlan
<1>8. placed' \in [Nodes -> SomePlacement]
  BY <1>6 DEF ApplyPipelinePlan
<1>9. LedgerTypeOK'
  BY <1>4, <1>5, <1>7, <1>8 DEF ApplyPipelinePlan, LedgerTypeOK, SomeRange, SomePlacement, NoPlan
<1>10. NoPhantomMemory'
  <2>1. \A n \in Nodes : free'[n] + reserved'[n] = free[n] + reserved[n]
    BY <1>1, <1>4, <1>5, NodeFacts
  <2>2. QED
    BY <2>1 DEF NoPhantomMemory, ApplyPipelinePlan
<1>11. PlacedIsReserved'
  BY <1>6 DEF PlacedIsReserved
<1>12. QED
  BY <1>9, <1>10, <1>11

\* A placement takes its memory, or what there was of it; an earlier reservation is
\* replaced and what it paid for stays booked.
LEMMA LoadStep ==
  ASSUME Account, NEW n \in Nodes, NEW p \in Placements, LoadPlacement(n, p)
  PROVE  Account'
<1> USE DEF Account
<1> DEFINE layers == Layers(p.range)
           fit == ExpertsThatFit(n, p)
           experts == ExpertBytes * fit
           whole == fit = p.experts
<1>1. /\ p.range \in SomeRange /\ layers \in Nat /\ layers <= free[n]
      /\ experts \in Nat /\ experts <= free[n] - layers
      /\ Memory(p) \in Nat
      /\ whole => Memory(p) = layers + experts
  <2>1. p.range \in SomeRange /\ layers <= free[n]
    BY DEF Placements, SomeRange, LoadPlacement
  <2>2. QED
    BY <2>1, LayersNat, ExpertsThatFitFit, MemorySplit
<1> HIDE DEF layers, fit, experts, whole
<1>2. free' = [free EXCEPT ![n] = free[n] - layers - experts]
  BY DEF LoadPlacement, layers, experts, fit
<1>3. free[n] - layers - experts \in Nat
  BY <1>1, NodeFacts
<1>typed. /\ free \in [Nodes -> Nat] /\ free' \in [Nodes -> Nat]
          /\ reserved \in [Nodes -> Nat] /\ placed \in [Nodes -> SomePlacement]
          /\ held' \in [Nodes -> SomeRange]
  BY <1>1, <1>2, <1>3 DEF LoadPlacement, LedgerTypeOK, SomePlacement, SomeRange
<1>4. CASE whole
  <2>1. placed' = [placed EXCEPT ![n] = p] /\ reserved' = [reserved EXCEPT ![n] = Memory(p)]
    BY <1>4 DEF LoadPlacement, whole, fit
  <2>2. LedgerTypeOK'
    <3>1. placed' \in [Nodes -> SomePlacement]
      BY <1>typed, <2>1 DEF SomePlacement
    <3>2. reserved' \in [Nodes -> Nat]
      BY <1>1, <1>typed, <2>1
    <3>3. QED
      BY <1>typed, <3>1, <3>2 DEF LoadPlacement, LedgerTypeOK, SomeRange, SomePlacement
  <2>3. NoPhantomMemory'
    <3> SUFFICES ASSUME NEW m \in Nodes \ unaware
                 PROVE  free'[m] + reserved'[m] <= Total
      BY DEF NoPhantomMemory, LoadPlacement
    <3>1. free[m] + reserved[m] <= Total
      BY DEF NoPhantomMemory
    <3>2. CASE m = n
      <4>1. free'[n] = free[n] - layers - experts /\ reserved'[n] = layers + experts
        BY <1>1, <1>2, <1>4, <1>typed, <2>1
      <4>2. QED
        BY <1>1, <3>1, <3>2, <4>1, NodeFacts, BytesAssumption
    <3>3. CASE m # n
      <4>1. free'[m] = free[m] /\ reserved'[m] = reserved[m]
        BY <1>2, <2>1, <3>3 DEF LedgerTypeOK
      <4>2. QED
        BY <3>1, <4>1
    <3>4. QED
      BY <3>2, <3>3
  <2>4. PlacedIsReserved'
    <3> SUFFICES ASSUME NEW m \in Nodes PROVE Memory(placed'[m]) <= reserved'[m]
      BY DEF PlacedIsReserved
    <3>1. CASE m = n
      <4>1. placed'[m] = p /\ reserved'[m] = Memory(p)
        BY <1>typed, <2>1, <3>1
      <4>2. Memory(placed'[m]) = Memory(p)
        BY <4>1
      <4>3. QED
        BY <1>1, <4>1, <4>2
    <3>2. CASE m # n
      <4>1. placed'[m] = placed[m] /\ reserved'[m] = reserved[m]
        BY <2>1, <3>2 DEF LedgerTypeOK
      <4>2. QED
        BY <4>1 DEF PlacedIsReserved
    <3>3. QED
      BY <3>1, <3>2
  <2>5. QED
    BY <2>2, <2>3, <2>4
<1>5. CASE ~whole
  <2>1. placed' = placed /\ reserved' = reserved
    BY <1>5 DEF LoadPlacement, whole, fit
  <2>2. LedgerTypeOK'
    BY <1>1, <1>2, <1>3, <2>1 DEF LoadPlacement, LedgerTypeOK, SomeRange
  <2>3. \A m \in Nodes : free'[m] <= free[m]
    BY <1>1, <1>2, NodeFacts DEF LedgerTypeOK
  <2>4. NoPhantomMemory'
    BY <2>1, <2>2, <2>3, NodeFacts, BytesAssumption DEF NoPhantomMemory, LoadPlacement, LedgerTypeOK
  <2>5. PlacedIsReserved'
    BY <2>1 DEF PlacedIsReserved
  <2>6. QED
    BY <2>2, <2>4, <2>5
<1>6. QED
  BY <1>4, <1>5

\* Layers without a placement only take from what is free.
LEMMA LoadLayersStep ==
  ASSUME Account, NEW n \in Nodes, NEW range \in Ranges, LoadLayers(n, range)
  PROVE  Account'
<1> USE DEF Account
<1> DEFINE bytes == Layers(range)
<1>1. bytes \in Nat /\ bytes <= free[n]
  BY LayersNat DEF SomeRange, LoadLayers
<1> HIDE DEF bytes
<1>2. free' = [free EXCEPT ![n] = free[n] - bytes] /\ free[n] - bytes \in Nat
  BY <1>1, NodeFacts DEF LoadLayers, bytes
<1>3. LedgerTypeOK'
  BY <1>2 DEF LoadLayers, LedgerTypeOK
<1>4. \A m \in Nodes : free'[m] <= free[m]
  BY <1>1, <1>2, NodeFacts DEF LedgerTypeOK
<1>5. NoPhantomMemory'
  BY <1>3, <1>4, NodeFacts, BytesAssumption DEF NoPhantomMemory, LoadLayers, LedgerTypeOK
<1>6. PlacedIsReserved'
  BY DEF PlacedIsReserved, LoadLayers
<1>7. QED
  BY <1>3, <1>5, <1>6

\* A placement without its layers or experts needs no more than before.
LEMMA UnloadStep ==
  ASSUME Account, NEW n \in Nodes, NEW layers \in BOOLEAN, NEW experts \in BOOLEAN,
         Unload(n, layers, experts)
  PROVE  Account'
<1> USE DEF Account
<1> DEFINE p == placed[n]
           q == [range |-> IF layers THEN NoRange ELSE p.range,
                 experts |-> IF experts THEN 0 ELSE p.experts]
<1>1. placed' = [placed EXCEPT ![n] = IF p = NoPlacement THEN p ELSE q]
  BY DEF Unload
<1>2. ASSUME p # NoPlacement
      PROVE  q \in Placements /\ Memory(q) <= Memory(p)
  <2>1. p \in Placements
    BY <1>2, NodeFacts DEF SomePlacement
  <2>2. q \in Placements
    BY <2>1, BytesAssumption DEF Placements
  <2>3. p.range \in SomeRange /\ p.experts \in Nat
    BY <2>1, BytesAssumption DEF Placements, SomeRange
  <2>4. Layers(q.range) \in Nat /\ Layers(q.range) <= Layers(p.range) /\ Layers(p.range) \in Nat
    BY <2>3, LayersNat, LayersOfNone DEF SomeRange
  <2>5. /\ ExpertBytes * q.experts \in Nat /\ ExpertBytes * p.experts \in Nat
        /\ ExpertBytes * q.experts <= ExpertBytes * p.experts
    <3>1. ExpertBytes * p.experts \in Nat
      BY <2>3, ExpertsNat
    <3>2. ExpertBytes * 0 = 0
      BY BytesAssumption
    <3>3. q.experts = 0 \/ q.experts = p.experts
      OBVIOUS
    <3>4. QED
      BY <3>1, <3>2, <3>3
  <2>6. Memory(q) = Layers(q.range) + ExpertBytes * q.experts
    BY <2>2, MemorySplit
  <2>7. Memory(p) = Layers(p.range) + ExpertBytes * p.experts
    BY <2>1, MemorySplit
  <2> HIDE DEF p, q
  <2>8. QED
    BY <2>2, <2>4, <2>5, <2>6, <2>7
<1>3. (IF p = NoPlacement THEN p ELSE q) \in SomePlacement
  BY <1>2 DEF SomePlacement
<1> HIDE DEF q
<1>4. LedgerTypeOK'
  BY <1>1, <1>3 DEF Unload, LedgerTypeOK, SomePlacement
<1>5. NoPhantomMemory'
  BY DEF NoPhantomMemory, Unload
<1>6. PlacedIsReserved'
  <2> SUFFICES ASSUME NEW m \in Nodes PROVE Memory(placed'[m]) <= reserved[m]
    BY DEF PlacedIsReserved, Unload
  <2>1. Memory(placed[m]) <= reserved[m] /\ Memory(placed[m]) \in Nat /\ reserved[m] \in Nat
    BY NodeFacts DEF PlacedIsReserved
  <2>2. CASE m = n /\ p # NoPlacement
    <3>1. placed'[m] = q
      BY <1>1, <2>2 DEF LedgerTypeOK
    <3>2. Memory(q) \in Nat /\ Memory(q) <= Memory(placed[m])
      BY <1>2, <2>2, MemorySplit
    <3>3. QED
      BY <2>1, <3>1, <3>2
  <2>3. CASE ~(m = n /\ p # NoPlacement)
    <3>1. placed'[m] = placed[m]
      BY <1>1, <2>3 DEF LedgerTypeOK
    <3>2. QED
      BY <2>1, <3>1
  <2>4. QED
    BY <2>2, <2>3
<1>7. QED
  BY <1>4, <1>5, <1>6

\* A replaced state is trusted, unless it leaves out what is booked.
LEMMA ReplaceStep ==
  ASSUME Account, NEW n \in Nodes, NEW bytes \in 0..Total, Replace(n, bytes),
         alive' = alive \cup {n}, UNCHANGED <<flops, placed, reserved, plan>>,
         held' \in [Nodes -> SomeRange]
  PROVE  Account'
<1> USE DEF Account
<1>1. bytes \in Nat /\ free' = [free EXCEPT ![n] = bytes]
  BY BytesAssumption DEF Replace
<1>2. LedgerTypeOK'
  BY <1>1 DEF Replace, LedgerTypeOK, SomeRange
<1>3. NoPhantomMemory'
  <2> SUFFICES ASSUME NEW m \in Nodes, m \notin unaware' PROVE free'[m] + reserved[m] <= Total
    BY DEF NoPhantomMemory
  <2>1. CASE m = n
    <3>1. ~(bytes + reserved[n] > Total)
      BY <2>1 DEF Replace
    <3>2. QED
      BY <1>1, <2>1, <3>1, NodeFacts, BytesAssumption DEF LedgerTypeOK
  <2>2. CASE m # n
    <3>1. m \notin unaware /\ free'[m] = free[m]
      BY <1>1, <2>2 DEF Replace, LedgerTypeOK
    <3>2. QED
      BY <3>1 DEF NoPhantomMemory
  <2>3. QED
    BY <2>1, <2>2
<1>4. PlacedIsReserved'
  BY DEF PlacedIsReserved
<1>5. QED
  BY <1>2, <1>3, <1>4

\* Every step keeps the account.
LEMMA AccountStep == ASSUME Account, [Next]_vars PROVE Account'
<1>1. CASE Reparallelize
  <2>1. UNCHANGED <<alive, flops, account, unaware>> /\ plan'.over = alive
    BY <1>1 DEF Reparallelize
  <2>2. QED
    BY <2>1 DEF Account, LedgerTypeOK, NoPhantomMemory, PlacedIsReserved, account
<1>2. CASE ApplyPipelinePlan
  BY <1>2, PlanStep
<1>3. CASE PlanRefused
  BY <1>3 DEF PlanRefused, Account, LedgerTypeOK, NoPhantomMemory, PlacedIsReserved, account, NoPlan
<1>4. ASSUME NEW n \in Nodes, LedgerStep(n) PROVE Account'
  BY <1>4, LoadStep, LoadLayersStep, UnloadStep DEF LedgerStep
<1>5. ASSUME NEW n \in Nodes, NodeStep(n) PROVE Account'
  <2>1. CASE Unregister(n)
    BY <2>1 DEF Unregister, Account, LedgerTypeOK, NoPhantomMemory, PlacedIsReserved, account
  <2>2. ASSUME NEW bytes \in 0..Total, Register(n, bytes) PROVE Account'
    <3>1. held' \in [Nodes -> SomeRange]
      BY <2>2 DEF Register, Account, LedgerTypeOK, SomeRange
    <3>2. QED
      BY <2>2, <3>1, ReplaceStep DEF Register
  <2>3. ASSUME NEW bytes \in 0..Total, Heartbeat(n, bytes, held[n]) PROVE Account'
    <3>1. held' \in [Nodes -> SomeRange]
      BY <2>3 DEF Heartbeat, Account, LedgerTypeOK, SomeRange
    <3>2. QED
      BY <2>3, <3>1, ReplaceStep DEF Heartbeat
  <2>4. QED
    BY <1>5, <2>1, <2>2, <2>3 DEF NodeStep
<1>6. CASE UNCHANGED vars
  BY <1>6 DEF vars, Account, LedgerTypeOK, NoPhantomMemory, PlacedIsReserved
<1>7. QED
  BY <1>1, <1>2, <1>3, <1>4, <1>5, <1>6 DEF Next

-----------------------------------------------------------------------------
(* The theorems *)

\* The account is in order in every reachable state.
THEOREM AccountInvariant == Spec => []Account
<1>1. Init => Account
  BY AccountInit
<1>2. Account /\ [Next]_vars => Account'
  BY AccountStep
<1>3. QED
  BY <1>1, <1>2, PTL DEF Spec

\* The free and the reserved bytes of a node never become negative.
THEOREM LedgerTypeCorrect == Spec => []LedgerTypeOK
<1>1. Account => LedgerTypeOK
  BY DEF Account
<1>2. QED
  BY <1>1, AccountInvariant, PTL

\* The manager counts on no memory that a node does not have.
THEOREM NeverPhantomMemory == Spec => []NoPhantomMemory
<1>1. Account => NoPhantomMemory
  BY DEF Account
<1>2. QED
  BY <1>1, AccountInvariant, PTL

\* Every recorded placement is paid for.
THEOREM PlacedAlwaysReserved == Spec => []PlacedIsReserved
<1>1. Account => PlacedIsReserved
  BY DEF Account
<1>2. QED
  BY <1>1, AccountInvariant, PTL

-----------------------------------------------------------------------------
(* Sums over finite sets *)

\* A set of subsets of a finite set has one that is minimal.
LEMMA MinimalSet ==
  ASSUME NEW S, IsFiniteSet(S), NEW B \in SUBSET SUBSET S, B # {}
  PROVE  \E T \in B : \A U \in SUBSET T : U # T => U \notin B
<1>1. B \subseteq FiniteSubsetsOf(S)
  <2>1. SUFFICES ASSUME NEW T \in B PROVE T \in FiniteSubsetsOf(S)
    OBVIOUS
  <2>2. T \in SUBSET S /\ IsFiniteSet(T)
    BY FS_Subset
  <2> QED BY <2>2 DEF FiniteSubsetsOf
<1>2. PICK T \in B : \A U \in B : ~ (<<U, T>> \in StrictSubsetOrdering(S))
  BY <1>1, FS_StrictSubsetOrderingWellFounded, WFMin
<1>3. ASSUME NEW U \in SUBSET T, U # T, U \in B PROVE FALSE
  <2>1. <<U, T>> \in StrictSubsetOrdering(S)
    BY <1>3 DEF StrictSubsetOrdering
  <2> QED BY <1>2, <1>3, <2>1
<1> QED BY <1>2, <1>3

\* What a sum counts: f[x] pairs for each x.
Units(f, S) == UNION {{x} \X (1..f[x]) : x \in S}

\* One more element adds its units.
LEMMA UnitsAdd ==
  ASSUME NEW S, NEW f, NEW x \in S, f[x] \in Nat,
         IsFiniteSet(Units(f, S \ {x}))
  PROVE  /\ IsFiniteSet(Units(f, S))
         /\ Cardinality(Units(f, S)) = f[x] + Cardinality(Units(f, S \ {x}))
<1> DEFINE Old == Units(f, S \ {x})
           New == {x} \X (1..f[x])
<1>1. Units(f, S) = Old \cup New
  BY DEF Units
<1>2. Old \cap New = {}
  BY DEF Units
<1>3. IsFiniteSet(New) /\ Cardinality(New) = f[x]
  <2>1. IsFiniteSet(1..f[x]) /\ Cardinality(1..f[x]) = f[x]
    BY FS_Interval
  <2>2. IsFiniteSet({x}) /\ Cardinality({x}) = 1
    BY FS_Singleton
  <2>3. IsFiniteSet(New) /\ Cardinality(New) = Cardinality({x}) * Cardinality(1..f[x])
    BY <2>1, <2>2, FS_Product
  <2> QED BY <2>1, <2>2, <2>3
<1>4. Cardinality(Old) \in Nat
  BY FS_CardinalityType
<1> HIDE DEF Old, New
<1>5. Cardinality(Old \cup New) = Cardinality(Old) + Cardinality(New) - Cardinality(Old \cap New)
      /\ IsFiniteSet(Old \cup New)
  BY <1>3, FS_Union DEF Old
<1>6. Cardinality(Old \cap New) = 0
  BY <1>2, FS_EmptySet
<1> QED BY <1>1, <1>3, <1>4, <1>5, <1>6 DEF Old

\* A finite number of elements has finitely many units.
LEMMA UnitsFinite ==
  ASSUME NEW S, IsFiniteSet(S), NEW f, \A x \in S : f[x] \in Nat
  PROVE  IsFiniteSet(Units(f, S))
<1> DEFINE B == {T \in SUBSET S : ~ IsFiniteSet(Units(f, T))}
<1> SUFFICES ASSUME B # {} PROVE FALSE
  OBVIOUS
<1>1. PICK T \in B : \A U \in SUBSET T : U # T => U \notin B
  <2>1. B \in SUBSET SUBSET S
    OBVIOUS
  <2> HIDE DEF B
  <2> QED BY <2>1, MinimalSet
<1>2. T # {}
  <2>1. Units(f, {}) = {}
    BY DEF Units
  <2> QED BY <2>1, FS_EmptySet
<1>3. PICK x \in T : TRUE
  BY <1>2
<1>4. IsFiniteSet(Units(f, T \ {x}))
  BY <1>1, <1>3
<1> QED BY <1>3, <1>4, UnitsAdd

\* The sum of a function over a finite set counts the units of the set.
LEMMA SumCounts ==
  ASSUME NEW S, IsFiniteSet(S), NEW f, \A x \in S : f[x] \in Nat
  PROVE  SumOf(f, S) = Cardinality(Units(f, S))
<1> DEFINE pick(s) == CHOOSE x \in s : TRUE
           fold(g) == [s \in SUBSET S |-> IF s = {} THEN 0 ELSE f[pick(s)] + g[s \ {pick(s)}]]
           iter == CHOOSE g : g = fold(g)
           count == [s \in SUBSET S |-> Cardinality(Units(f, s))]
<1>1. SumOf(f, S) = iter[S]
  BY DEF SumOf, FoldFunctionOnSet, MapThenFoldSet
<1>2. \A s \in SUBSET S : s # {} => pick(s) \in s /\ s \ {pick(s)} \in SUBSET S
  OBVIOUS
<1>3. ASSUME NEW s \in SUBSET S, NEW x \in s
      PROVE  count[s] = f[x] + count[s \ {x}]
  <2>1. IsFiniteSet(s \ {x})
    BY FS_Subset
  <2> QED BY <2>1, UnitsFinite, UnitsAdd
<1>4. count[{}] = 0
  <2>1. Units(f, {}) = {}
    BY DEF Units
  <2> QED BY <2>1, FS_EmptySet
<1>5. count = fold(count)
  <2> HIDE DEF pick
  <2>1. ASSUME NEW s \in SUBSET S
        PROVE  count[s] = IF s = {} THEN 0 ELSE f[pick(s)] + count[s \ {pick(s)}]
    BY <1>2, <1>3, <1>4
  <2>2. count = [s \in SUBSET S |-> count[s]]
    OBVIOUS
  <2> HIDE DEF count
  <2> QED BY <2>1, <2>2
<1>6. iter = fold(iter)
  <2> HIDE DEF fold, count
  <2> QED BY <1>5
<1>7. \A s \in SUBSET S : iter[s] = IF s = {} THEN 0 ELSE f[pick(s)] + iter[s \ {pick(s)}]
  <2> HIDE DEF iter, pick
  <2> QED BY <1>6
<1> HIDE DEF iter, count, fold, pick
<1> DEFINE B == {T \in SUBSET S : iter[T] # count[T]}
<1>8. B = {}
  <2> SUFFICES ASSUME B # {} PROVE FALSE
    OBVIOUS
  <2>1. PICK T \in B : \A U \in SUBSET T : U # T => U \notin B
    <3>1. B \in SUBSET SUBSET S
      OBVIOUS
    <3> HIDE DEF B
    <3> QED BY <3>1, MinimalSet
  <2>2. T # {}
    BY <1>4, <1>7
  <2>3. pick(T) \in T /\ T \in SUBSET S
    BY <1>2, <2>2
  <2>4. iter[T \ {pick(T)}] = count[T \ {pick(T)}]
    BY <2>1, <2>3
  <2> QED BY <1>3, <1>7, <2>2, <2>3, <2>4
<1>9. count[S] = Cardinality(Units(f, S))
  BY DEF count
<1> QED BY <1>1, <1>8, <1>9

\* What a sum over a finite set is.
LEMMA SumFacts ==
  ASSUME NEW S, IsFiniteSet(S), NEW f, \A x \in S : f[x] \in Nat
  PROVE  /\ SumOf(f, S) \in Nat
         /\ S = {} => SumOf(f, S) = 0
         /\ \A x \in S : SumOf(f, S) = f[x] + SumOf(f, S \ {x})
         /\ \A T \in SUBSET S : SumOf(f, T) \in Nat /\ SumOf(f, T) <= SumOf(f, S)
<1>1. IsFiniteSet(Units(f, S)) /\ SumOf(f, S) = Cardinality(Units(f, S))
  BY UnitsFinite, SumCounts
<1>2. ASSUME NEW T \in SUBSET S
      PROVE  IsFiniteSet(Units(f, T)) /\ SumOf(f, T) = Cardinality(Units(f, T))
  <2>1. IsFiniteSet(T)
    BY FS_Subset
  <2> QED BY <2>1, UnitsFinite, SumCounts
<1>3. ASSUME NEW T \in SUBSET S
      PROVE  SumOf(f, T) \in Nat /\ SumOf(f, T) <= SumOf(f, S)
  <2>1. Units(f, T) \in SUBSET Units(f, S)
    BY DEF Units
  <2> QED BY <1>1, <1>2, <2>1, FS_Subset, FS_CardinalityType
<1>4. ASSUME NEW x \in S
      PROVE  SumOf(f, S) = f[x] + SumOf(f, S \ {x})
  BY <1>1, <1>2, UnitsAdd
<1>5. S = {} => SumOf(f, S) = 0
  <2>1. Units(f, {}) = {}
    BY DEF Units
  <2> QED BY <1>1, <2>1, FS_EmptySet
<1> QED BY <1>3, <1>4, <1>5

\* One more for some elements adds their number to the sum.
LEMMA SumMore ==
  ASSUME NEW S, IsFiniteSet(S), NEW M \in SUBSET S, NEW f, NEW g,
         \A x \in S : f[x] \in Nat /\ g[x] = f[x] + IF x \in M THEN 1 ELSE 0
  PROVE  SumOf(g, S) = SumOf(f, S) + Cardinality(M)
<1> DEFINE B == {T \in SUBSET S : SumOf(g, T) # SumOf(f, T) + Cardinality(M \cap T)}
<1>1. \A x \in S : g[x] \in Nat
  OBVIOUS
<1>2. B = {}
  <2> SUFFICES ASSUME B # {} PROVE FALSE
    OBVIOUS
  <2>1. PICK T \in B : \A U \in SUBSET T : U # T => U \notin B
    <3>1. B \in SUBSET SUBSET S
      OBVIOUS
    <3> HIDE DEF B
    <3> QED BY <3>1, MinimalSet
  <2>2. T \in SUBSET S /\ IsFiniteSet(T)
    BY FS_Subset
  <2>3. CASE T = {}
    <3>1. SumOf(f, T) = 0 /\ SumOf(g, T) = 0
      BY <2>2, <2>3, SumFacts
    <3>2. Cardinality(M \cap T) = 0
      BY <2>3, FS_EmptySet
    <3> QED BY <3>1, <3>2
  <2>4. CASE T # {}
    <3>1. PICK x \in T : TRUE
      BY <2>4
    <3>2. SumOf(g, T \ {x}) = SumOf(f, T \ {x}) + Cardinality(M \cap (T \ {x}))
      BY <2>1, <2>2, <3>1
    <3>3. /\ SumOf(f, T) = f[x] + SumOf(f, T \ {x}) /\ SumOf(f, T \ {x}) \in Nat
          /\ SumOf(g, T) = g[x] + SumOf(g, T \ {x}) /\ SumOf(g, T \ {x}) \in Nat
      <4>1. T \ {x} \in SUBSET T
        OBVIOUS
      <4> QED BY <1>1, <2>2, <4>1, <3>1, SumFacts
    <3>4. /\ Cardinality(M \cap T) \in Nat
          /\ Cardinality(M \cap (T \ {x})) =
               IF x \in M THEN Cardinality(M \cap T) - 1 ELSE Cardinality(M \cap T)
      <4>1. M \cap (T \ {x}) = (M \cap T) \ {x} /\ IsFiniteSet(M \cap T)
        BY <2>2, FS_Subset
      <4>2. x \in M \cap T <=> x \in M
        BY <3>1
      <4>3. Cardinality(M \cap T) \in Nat
        BY <4>1, FS_CardinalityType
      <4>4. Cardinality((M \cap T) \ {x}) =
              IF x \in M \cap T THEN Cardinality(M \cap T) - 1 ELSE Cardinality(M \cap T)
        BY <4>1, FS_RemoveElement
      <4> QED BY <4>1, <4>2, <4>3, <4>4
    <3>5. f[x] \in Nat /\ g[x] = f[x] + IF x \in M THEN 1 ELSE 0
      BY <2>2, <3>1
    <3>6. SumOf(g, T) = SumOf(f, T) + Cardinality(M \cap T)
      BY <3>2, <3>3, <3>4, <3>5
    <3> QED BY <3>6
  <2> QED BY <2>3, <2>4
<1>3. SumOf(g, S) = SumOf(f, S) + Cardinality(M \cap S)
  BY <1>2
<1>4. M \cap S = M
  OBVIOUS
<1> QED BY <1>3, <1>4

\* A non-empty set of naturals has a least element.
LEMMA LeastNatural ==
  ASSUME NEW K \in SUBSET Nat, K # {}
  PROVE  \E k \in K : \A j \in K : k <= j
<1>1. PICK k \in K : \A j \in K : ~ (<<j, k>> \in OpToRel(<, Nat))
  BY NatLessThanWellFounded, WFMin
<1>2. ASSUME NEW j \in K, j < k PROVE FALSE
  <2>1. <<j, k>> \in OpToRel(<, Nat)
    BY <1>2 DEF OpToRel
  <2> QED BY <1>1, <2>1
<1>3. \A j \in K : k <= j
  BY <1>2
<1> QED BY <1>3

\* The nodes of A that come before n.
Earlier(A, n) == {m \in A : m < n}

\* Shares that add up to the model, handed out in the order of the nodes, tile it.
LEMMA SharesTile ==
  ASSUME NEW A \in SUBSET Nodes, NEW share, \A n \in A : share[n] \in Nat,
         SumOf(share, A) = NumLayers,
         NEW start, \A n \in A : start[n] = SumOf(share, Earlier(A, n))
  PROVE  /\ \A n \in A : start[n] \in Nat
         /\ \A n, m \in A : n < m => start[n] + share[n] <= start[m]
         /\ \A n \in A : start[n] + share[n] <= NumLayers
         /\ \A x \in 0..(NumLayers - 1) : \E n \in A : start[n] <= x /\ x < start[n] + share[n]
<1> DEFINE below(k) == {m \in A : m < k}
           C(k) == SumOf(share, below(k))
<1>0. /\ NumNodes \in Nat /\ NumLayers \in Nat
      /\ \A n \in A : n \in Nat /\ n <= NumNodes
  BY CountsAssumption DEF Nodes
<1>1. IsFiniteSet(A)
  <2>1. IsFiniteSet(Nodes)
    BY <1>0, FS_Interval DEF Nodes
  <2> QED BY <2>1, FS_Subset
<1>2. \A T \in SUBSET A : SumOf(share, T) \in Nat /\ SumOf(share, T) <= NumLayers
  BY <1>1, SumFacts
<1>3. \A n \in A : start[n] = C(n)
  BY DEF Earlier
<1>4. \A k : C(k) \in Nat
  BY <1>2
<1>5. ASSUME NEW n \in A
      PROVE  C(n) + share[n] = SumOf(share, below(n) \cup {n})
  <2>1. below(n) \cup {n} \in SUBSET A
    OBVIOUS
  <2>2. (below(n) \cup {n}) \ {n} = below(n)
    BY <1>0
  <2>3. IsFiniteSet(below(n) \cup {n})
    BY <1>1, <2>1, FS_Subset
  <2>4. SumOf(share, below(n) \cup {n}) = share[n] + SumOf(share, (below(n) \cup {n}) \ {n})
    BY <2>1, <2>3, SumFacts
  <2>5. share[n] \in Nat /\ C(n) \in Nat
    BY <1>4
  <2>6. SumOf(share, (below(n) \cup {n}) \ {n}) = C(n)
    BY <2>2
  <2> HIDE DEF below, C
  <2> QED BY <2>4, <2>5, <2>6
<1>6. ASSUME NEW n \in A, NEW m \in A, n < m
      PROVE  C(n) + share[n] <= C(m)
  <2>1. below(n) \cup {n} \in SUBSET below(m)
    BY <1>0, <1>6
  <2>2. IsFiniteSet(below(m))
    BY <1>1, FS_Subset
  <2>3. SumOf(share, below(n) \cup {n}) <= SumOf(share, below(m))
    BY <2>1, <2>2, SumFacts
  <2> QED BY <1>5, <2>3
<1>7. ASSUME NEW n \in A
      PROVE  C(n) + share[n] <= NumLayers
  <2>1. below(n) \cup {n} \in SUBSET A
    OBVIOUS
  <2> QED BY <1>2, <1>5, <2>1
<1>8. ASSUME NEW x \in 0..(NumLayers - 1)
      PROVE  \E n \in A : C(n) <= x /\ x < C(n) + share[n]
  <2> DEFINE K == {k \in Nat : C(k) > x}
  <2>1. NumNodes + 1 \in K
    <3>1. below(NumNodes + 1) = A
      <4>1. \A n \in A : n < NumNodes + 1
        BY <1>0
      <4> QED BY <4>1
    <3>2. NumLayers > x /\ NumNodes + 1 \in Nat
      BY <1>0
    <3> HIDE DEF below
    <3> QED BY <3>1, <3>2
  <2>2. PICK k \in K : \A j \in K : k <= j
    <3>1. K \in SUBSET Nat /\ K # {}
      BY <2>1
    <3> HIDE DEF K
    <3> QED BY <3>1, LeastNatural
  <2>3. k # 0
    <3>1. below(0) = {}
      BY <1>0
    <3>2. C(0) = 0
      BY <3>1, FS_EmptySet, SumFacts
    <3> QED BY <3>2
  <2>4. k - 1 \in Nat /\ C(k - 1) <= x
    <3>1. k - 1 \in Nat /\ k - 1 \notin K
      BY <2>2, <2>3
    <3>2. C(k - 1) \in Nat /\ x \in Nat
      <4>1. C(k - 1) \in Nat
        BY <1>4
      <4> QED BY <1>0, <4>1
    <3>3. ~ (C(k - 1) > x)
      BY <3>1
    <3> HIDE DEF C
    <3> QED BY <3>1, <3>2, <3>3
  <2>5. k - 1 \in A
    <3> SUFFICES ASSUME k - 1 \notin A PROVE FALSE
      OBVIOUS
    <3>1. below(k) = below(k - 1)
      BY <1>0, <2>4
    <3> QED BY <1>4, <2>2, <2>4, <3>1
  <2>6. below(k - 1) \cup {k - 1} = below(k)
    BY <1>0, <2>4, <2>5
  <2>7. C(k - 1) + share[k - 1] = C(k)
    BY <1>5, <2>5, <2>6
  <2> QED BY <2>4, <2>5, <2>7
<1> HIDE DEF C
<1> QED BY <1>3, <1>4, <1>6, <1>7, <1>8

-----------------------------------------------------------------------------
(* The plans *)

\* Of two products with the same positive factor, the larger has the larger quotient,
\* or the same quotient and the larger remainder.
LEMMA LargerShare ==
  ASSUME NEW a \in Nat, NEW b \in Nat, a > b, NEW d \in Nat \ {0}
  PROVE  /\ a \div d \in Nat /\ b \div d \in Nat
         /\ a \div d > b \div d \/ (a \div d = b \div d /\ a % d > b % d)
<1>1. /\ a \div d \in Nat /\ b \div d \in Nat /\ a % d \in 0..(d - 1) /\ b % d \in 0..(d - 1)
      /\ a = d * (a \div d) + (a % d) /\ b = d * (b \div d) + (b % d)
  OBVIOUS
<1>2. \A p, q, r, s \in Nat :
        (d * p + r > d * q + s /\ s < d /\ r < d) => p > q \/ (p = q /\ r > s)
  <2> SUFFICES ASSUME NEW p \in Nat, NEW q \in Nat, NEW r \in Nat, NEW s \in Nat,
                      d * p + r > d * q + s, r < d, s < d, p <= q
               PROVE  p = q /\ r > s
    OBVIOUS
  <2>1. CASE p = q
    BY <2>1
  <2>2. CASE p < q
    <3>1. d * q >= d * (p + 1)
      BY <2>2
    <3>2. d * (p + 1) = d * p + d
      OBVIOUS
    <3>3. d * p \in Nat /\ d * q \in Nat
      OBVIOUS
    <3> QED BY <3>1, <3>2, <3>3
  <2> QED BY <2>1, <2>2
<1> QED BY <1>1, <1>2

\* The largest remainders get what the floors leave: the plan tiles the model in the
\* order of the nodes, and more flops never give fewer layers.
LEMMA PlanMade == ASSUME LedgerTypeOK, Reparallelize PROVE PlanIsProportional'
<1> DEFINE w == [n \in Nodes |-> Weight(n)]
           sum == SumOf(w, alive)
           base == Shares(alive, sum, {})
           rem(n) == (Weight(n) * NumLayers) % sum
<1>1. PICK more \in SUBSET alive :
        LET share == Shares(alive, sum, more)
            start == [n \in alive |-> SumOf(share, {m \in alive : m < n})]
        IN
        /\ Cardinality(more) = NumLayers - SumOf(base, alive)
        /\ \A a \in more, b \in alive \ more : rem(a) >= rem(b)
        /\ plan' = [over |-> alive, range |-> [n \in Nodes |->
             IF n \in alive /\ share[n] > 0 THEN <<start[n], start[n] + share[n]>> ELSE NoRange]]
  BY DEF Reparallelize
<1> DEFINE share == Shares(alive, sum, more)
           start == [n \in alive |-> SumOf(share, {m \in alive : m < n})]
           range == [n \in Nodes |->
             IF n \in alive /\ share[n] > 0 THEN <<start[n], start[n] + share[n]>> ELSE NoRange]
<1>2. /\ alive \in SUBSET Nodes /\ alive # {} /\ flops' = flops
      /\ NumNodes \in Nat /\ NumLayers \in Nat \ {0}
  BY CountsAssumption DEF Reparallelize, LedgerTypeOK
<1>3. IsFiniteSet(alive)
  <2>1. IsFiniteSet(Nodes)
    BY <1>2, FS_Interval DEF Nodes
  <2> QED BY <1>2, <2>1, FS_Subset
<1>4. \A n \in Nodes : Weight(n) \in Nat \ {0} /\ w[n] = Weight(n)
  BY BoundsAssumption DEF LedgerTypeOK, Weight
<1>5. sum \in Nat \ {0}
  <2>1. PICK n \in alive : TRUE
    BY <1>2
  <2>2. \A x \in alive : w[x] \in Nat
    BY <1>2, <1>4
  <2>3. alive \ {n} \in SUBSET alive
    OBVIOUS
  <2> HIDE DEF w
  <2>4. sum = w[n] + SumOf(w, alive \ {n}) /\ SumOf(w, alive \ {n}) \in Nat
    BY <1>3, <2>2, <2>3, SumFacts
  <2> QED BY <1>2, <1>4, <2>4
<1> HIDE DEF sum
<1>6. \A n \in alive : /\ base[n] = (Weight(n) * NumLayers) \div sum
                       /\ base[n] \in Nat
                       /\ share[n] = base[n] + (IF n \in more THEN 1 ELSE 0)
                       /\ share[n] \in Nat
  <2>1. SUFFICES ASSUME NEW n \in alive
                 PROVE  /\ base[n] = (Weight(n) * NumLayers) \div sum
                        /\ base[n] \in Nat
                        /\ share[n] = base[n] + (IF n \in more THEN 1 ELSE 0)
                        /\ share[n] \in Nat
    OBVIOUS
  <2>2. Weight(n) * NumLayers \in Nat
    BY <1>2, <1>4
  <2>3. (Weight(n) * NumLayers) \div sum \in Nat
    BY <1>5, <2>2
  <2>4. /\ base[n] = (Weight(n) * NumLayers) \div sum + 0
        /\ share[n] = (Weight(n) * NumLayers) \div sum + (IF n \in more THEN 1 ELSE 0)
    BY DEF Shares
  <2> QED BY <2>3, <2>4
<1>7. SumOf(share, alive) = NumLayers
  <2> HIDE DEF base, share
  <2>1. SumOf(share, alive) = SumOf(base, alive) + Cardinality(more)
    BY <1>3, <1>6, SumMore
  <2>2. SumOf(base, alive) \in Nat
    BY <1>3, <1>6, SumFacts
  <2>3. Cardinality(more) = NumLayers - SumOf(base, alive)
    BY <1>1
  <2> QED BY <1>2, <2>1, <2>2, <2>3
<1>8. plan' = [over |-> alive, range |-> range]
  BY <1>1
<1>9. \A a \in more, b \in alive \ more : rem(a) >= rem(b)
  BY <1>1
<1> HIDE DEF base, share, rem
<1>10. /\ \A n \in alive : start[n] \in Nat
       /\ \A n, m \in alive : n < m => start[n] + share[n] <= start[m]
       /\ \A x \in 0..(NumLayers - 1) :
            \E n \in alive : start[n] <= x /\ x < start[n] + share[n]
  <2>1. \A n \in alive : start[n] = SumOf(share, Earlier(alive, n))
    BY DEF Earlier
  <2>2. \A n \in alive : share[n] \in Nat
    BY <1>6
  <2> HIDE DEF start
  <2> QED BY <1>2, <1>7, <2>1, <2>2, SharesTile
<1> HIDE DEF start
<1>11. ASSUME NEW n \in Nodes
       PROVE  /\ n \in alive /\ share[n] > 0 => range[n][1] = start[n] /\ range[n][2] = start[n] + share[n]
              /\ ~ (n \in alive /\ share[n] > 0) => range[n][1] = 0 /\ range[n][2] = 0 /\ range[n] = NoRange
  BY DEF NoRange
<1> HIDE DEF range
<1>12. ASSUME NEW x \in 0..(NumLayers - 1)
       PROVE  Cardinality({n \in alive : range[n][1] <= x /\ x < range[n][2]}) = 1
  <2>1. PICK n \in alive : start[n] <= x /\ x < start[n] + share[n]
    BY <1>10
  <2>2. n \in Nodes /\ start[n] \in Nat /\ share[n] \in Nat /\ x \in Nat
    BY <1>2, <1>6, <1>10
  <2>3. range[n][1] <= x /\ x < range[n][2]
    <3>1. share[n] > 0
      BY <2>1, <2>2
    <3> QED BY <1>11, <2>1, <2>2, <3>1
  <2>4. ASSUME NEW m \in alive, range[m][1] <= x, x < range[m][2]
        PROVE  m = n
    <3>1. m \in Nodes /\ start[m] \in Nat /\ share[m] \in Nat /\ n \in Int /\ m \in Int
      BY <1>2, <1>6, <1>10 DEF Nodes
    <3>2. start[m] <= x /\ x < start[m] + share[m]
      <4>1. share[m] > 0
        BY <1>11, <2>2, <2>4, <3>1
      <4> QED BY <1>11, <2>4, <3>1, <4>1
    <3>3. ~ (n < m) /\ ~ (m < n)
      BY <1>10, <2>1, <2>2, <3>1, <3>2
    <3> QED BY <3>1, <3>3
  <2>5. {k \in alive : range[k][1] <= x /\ x < range[k][2]} = {n}
    BY <2>3, <2>4
  <2> QED BY <2>5, FS_Singleton
<1>13. ASSUME NEW n \in Nodes, NEW m \in Nodes, range[n] # NoRange, range[m] # NoRange, n < m
       PROVE  range[n][2] <= range[m][1]
  <2>1. n \in alive /\ share[n] > 0 /\ m \in alive /\ share[m] > 0
    BY <1>11, <1>13
  <2> QED BY <1>10, <1>11, <1>13, <2>1
<1>14. ASSUME NEW n \in alive, NEW m \in alive, Weight(n) > Weight(m)
       PROVE  share[n] >= share[m]
  <2> DEFINE a == Weight(n) * NumLayers
             b == Weight(m) * NumLayers
  <2>1. Weight(n) \in Nat /\ Weight(m) \in Nat
    BY <1>2, <1>4
  <2>2. a \in Nat /\ b \in Nat /\ a > b
    BY <1>2, <1>14, <2>1
  <2>3. base[n] = a \div sum /\ base[m] = b \div sum /\ rem(n) = a % sum /\ rem(m) = b % sum
    BY <1>6 DEF rem
  <2> HIDE DEF a, b
  <2>4. /\ base[n] \in Nat /\ base[m] \in Nat
        /\ base[n] > base[m] \/ (base[n] = base[m] /\ rem(n) > rem(m))
    <3>1. /\ a \div sum \in Nat /\ b \div sum \in Nat
          /\ a \div sum > b \div sum \/ (a \div sum = b \div sum /\ a % sum > b % sum)
      BY <1>5, <2>2, LargerShare
    <3> QED BY <2>3, <3>1
  <2>5. rem(n) \in Int /\ rem(m) \in Int
    BY <1>5, <2>2, <2>3
  <2>6. ~ (m \in more /\ n \notin more /\ rem(n) > rem(m))
    BY <1>9, <2>5
  <2>7. /\ share[n] = base[n] + (IF n \in more THEN 1 ELSE 0)
        /\ share[m] = base[m] + (IF m \in more THEN 1 ELSE 0)
    BY <1>6
  <2> QED BY <2>4, <2>6, <2>7
<1>15. ASSUME NEW n \in alive
       PROVE  range[n][2] - range[n][1] = share[n]
  <2>1. n \in Nodes /\ start[n] \in Nat /\ share[n] \in Nat
    BY <1>2, <1>6, <1>10
  <2> QED BY <1>11, <2>1
<1>16. ASSUME NEW n \in alive, NEW m \in alive, Weight(n)' > Weight(m)'
       PROVE  range[n][2] - range[n][1] >= range[m][2] - range[m][1]
  <2>1. Weight(n) > Weight(m)
    BY <1>2, <1>16 DEF Weight
  <2> QED BY <1>14, <1>15, <2>1
<1>17. plan'.over = alive /\ plan'.range = range
  BY <1>8
<1>18. \A n \in alive : n \in Nodes
  BY <1>2
<1> HIDE DEF range
<1> QED BY <1>12, <1>13, <1>16, <1>17, <1>18 DEF PlanIsProportional, Members

\* Nothing but the making of a plan gives it ranges, and the flops stay as they were.
LEMMA PlanKept == ASSUME LedgerTypeOK, PlanIsProportional, [Next]_vars PROVE PlanIsProportional'
<1>1. CASE Reparallelize
  BY <1>1, PlanMade
<1>2. CASE ApplyPipelinePlan \/ PlanRefused
  BY <1>2 DEF ApplyPipelinePlan, PlanRefused, PlanIsProportional
<1>3. CASE UNCHANGED <<plan, flops>>
  BY <1>3 DEF PlanIsProportional, Members, Weight
<1>4. CASE UNCHANGED vars
  BY <1>3, <1>4 DEF vars
<1>5. ASSUME NEW n \in Nodes, LedgerStep(n) PROVE UNCHANGED <<plan, flops>>
  BY <1>5 DEF LedgerStep, LoadPlacement, LoadLayers, Unload
<1>6. ASSUME NEW n \in Nodes, NodeStep(n) PROVE UNCHANGED <<plan, flops>>
  BY <1>6 DEF NodeStep, Unregister, Register, Heartbeat
<1> QED BY <1>1, <1>2, <1>3, <1>4, <1>5, <1>6 DEF Next

\* Every plan covers the model by ranges in the order of the nodes that it was made
\* for, and a node with more flops has no fewer layers, for any number of nodes and
\* layers, any flops and any way in which equal remainders are ordered.
THEOREM PlanAlwaysProportional == Spec => []PlanIsProportional
<1>1. Init => PlanIsProportional
  BY DEF Init, PlanIsProportional
<1>2. LedgerTypeOK /\ PlanIsProportional /\ [Next]_vars => PlanIsProportional'
  BY PlanKept
<1> QED BY <1>1, <1>2, LedgerTypeCorrect, PTL DEF Spec
=============================================================================
