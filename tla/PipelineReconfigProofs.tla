----------------------- MODULE PipelineReconfigProofs -----------------------
(***************************************************************************)
(* Proofs about module PipelineReconfig, for every set of nodes, number of *)
(* layers and bound on the epochs: its invariant, what follows from it,    *)
(* and the refinement of BlueGreen.                                        *)
(***************************************************************************)
EXTENDS PipelineReconfig, TLAPS

-----------------------------------------------------------------------------
(* Facts about plans and the call *)

\* NoRange is not the range of a stage.
LEMMA NoRangeNotInRanges == NoRange \notin Ranges
  BY DEF NoRange, Ranges

LEMMA NoPlanFacts == NoPlan \in Plans /\ Members(NoPlan) = {}
  BY DEF NoPlan, Plans, Members, NoRange

LEMMA IdleType ==
  Idle \in [phase : Phases, epoch : 0..MaxEpoch, plan : Plans, done : SUBSET Nodes]
  BY NoPlanFacts, MaxEpochAssumption DEF Idle, Phases

\* The type invariant holds initially and is preserved by every step.
LEMMA InitTypeOK == Init => TypeOK
<1> SUFFICES ASSUME Init PROVE TypeOK
  OBVIOUS
<1>1. Unset \in [epoch : 0..MaxEpoch, plan : Plans]
  BY NoPlanFacts, MaxEpochAssumption DEF Unset
<1>2. NoDrain \in [epoch : 0..MaxEpoch, todo : SUBSET Nodes]
  BY MaxEpochAssumption DEF NoDrain
<1> QED
  BY <1>1, <1>2, IdleType, NoPlanFacts, MaxEpochAssumption DEF Init, TypeOK

LEMMA NextTypeOK == TypeOK /\ [Next]_vars => TypeOK'
<1> SUFFICES ASSUME TypeOK, [Next]_vars PROVE TypeOK'
  OBVIOUS
<1> USE MaxEpochAssumption DEF TypeOK
<1>1. ASSUME NEW p \in CompletePlans, StartApply(p) PROVE TypeOK'
  BY <1>1 DEF StartApply, nextEpoch, CompletePlans, Phases
<1>2. ASSUME NEW n \in Nodes, Prepare(n) PROVE TypeOK'
  <2>1. call.plan[n] \in Ranges \cup {NoRange}
    BY DEF Plans
  <2>2. assigned' \in [Nodes -> [Epochs -> Ranges \cup {NoRange}]]
    BY <1>2, <2>1 DEF Prepare
  <2>3. call' \in [phase : Phases, epoch : 0..MaxEpoch, plan : Plans, done : SUBSET Nodes]
    BY <1>2 DEF Prepare
  <2> QED
    BY <1>2, <2>2, <2>3 DEF Prepare
<1>3. CASE UpdateLedger
  BY <1>3 DEF UpdateLedger, Phases
<1>4. CASE CopyReusableKV
  BY <1>4 DEF CopyReusableKV, Phases
<1>5. ASSUME NEW n \in Nodes, Activate(n) PROVE TypeOK'
  BY <1>5 DEF Activate
<1>6. CASE Commit
  BY <1>6, IdleType DEF Commit
<1>7. CASE PrepareRefused \/ LedgerRefused \/ CallFails
  BY <1>7, IdleType DEF PrepareRefused, LedgerRefused, CallFails, Abandon
<1>8. ASSUME NEW e \in Epochs, StartDrain(e) PROVE TypeOK'
  BY <1>8 DEF StartDrain, Epochs
<1>9. ASSUME NEW n \in Nodes, Retire(n) PROVE TypeOK'
  <2>1. assigned' \in [Nodes -> [Epochs -> Ranges \cup {NoRange}]]
    BY <1>9 DEF Retire
  <2>2. active' \in [Nodes -> 0..MaxEpoch]
    BY <1>9 DEF Retire
  <2>3. drain' \in [epoch : 0..MaxEpoch, todo : SUBSET Nodes]
    BY <1>9 DEF Retire
  <2> QED
    BY <1>9, <2>1, <2>2, <2>3 DEF Retire
<1>10. CASE EndDrain
  BY <1>10 DEF EndDrain, NoDrain
<1>11. ASSUME NEW n \in Nodes, NodeLeaves(n) PROVE TypeOK'
  BY <1>11 DEF NodeLeaves
<1>12. ASSUME NEW n \in Nodes, NodeReturns(n) PROVE TypeOK'
  BY <1>12 DEF NodeReturns
<1>13. ASSUME NEW n \in Nodes, AttachRuntime(n) PROVE TypeOK'
  BY <1>13 DEF AttachRuntime, NoDrain
<1>14. CASE UNCHANGED vars
  BY <1>14 DEF vars
<1> QED
  BY <1>1, <1>2, <1>3, <1>4, <1>5, <1>6, <1>7, <1>8, <1>9, <1>10, <1>11, <1>12,
     <1>13, <1>14 DEF Next

\* The state of the coordinator, the runtimes, the placement policy and the
\* ledger has its type in every reachable state.
THEOREM TypeCorrect == Spec => []TypeOK
  BY InitTypeOK, NextTypeOK, PTL DEF Spec

-----------------------------------------------------------------------------
(* The inductive invariant *)

LEMMA InitIInv == Init => IInv
<1> SUFFICES ASSUME Init PROVE IInv
  OBVIOUS
<1>1. TypeOK
  BY InitTypeOK
<1>2. CallConsistent
  BY DEF Init, CallConsistent, Idle
<1>3. ServingConsistent
  BY DEF Init, ServingConsistent, Unset, NoDrain
<1>4. ActivationNeverRefused
  BY DEF Init, ActivationNeverRefused, Idle
<1>5. ServingPlanReady
  BY NoPlanFacts DEF Init, ServingPlanReady, Unset
<1>6. ActiveStageHeld
  BY DEF Init, ActiveStageHeld
<1> QED
  BY <1>1, <1>2, <1>3, <1>4, <1>5, <1>6 DEF IInv

\* The epoch of the call in progress indexes the runtimes' assignments.
LEMMA CallEpochFacts ==
  ASSUME IInv, call.phase # "idle"
  PROVE  call.epoch \in Epochs /\ call.epoch = current.epoch + 1
                               /\ call.epoch # policy.epoch
  BY MaxEpochAssumption
  DEF IInv, TypeOK, CallConsistent, ServingConsistent, Epochs

\* A plan's member has a range, and a plan in force is for a proper epoch.
LEMMA MemberFacts ==
  ASSUME IInv, NEW n \in Nodes
  PROVE  /\ n \in Members(policy.plan) => policy.epoch \in Epochs
         /\ \A p \in Plans : n \in Members(p) <=> p[n] # NoRange
<1>1. ASSUME n \in Members(policy.plan) PROVE policy.epoch # 0
  BY <1>1, NoPlanFacts DEF IInv, ServingConsistent
<1>2. policy.epoch \in 0..MaxEpoch
  BY DEF IInv, TypeOK
<1> QED
  BY <1>1, <1>2, MaxEpochAssumption DEF Members, Epochs

LEMMA StartApplyIInv ==
  ASSUME IInv, NEW p \in CompletePlans, StartApply(p), TypeOK'
  PROVE  IInv'
<1> USE DEF IInv, StartApply
<1>1. CallConsistent'
  BY DEF CallConsistent, nextEpoch, CompletePlans
<1>2. ServingConsistent'
  BY DEF ServingConsistent
<1>3. ActivationNeverRefused'
  BY DEF ActivationNeverRefused
<1>4. ServingPlanReady'
  BY DEF ServingPlanReady
<1>5. ActiveStageHeld'
  BY DEF ActiveStageHeld
<1> QED
  BY <1>1, <1>2, <1>3, <1>4, <1>5

\* prepare_epoch writes the entry of the epoch to come, which is neither the
\* serving nor any runtime's active one.
LEMMA PrepareIInv ==
  ASSUME IInv, NEW n \in Nodes, Prepare(n), TypeOK'
  PROVE  IInv'
<1> USE DEF Prepare
<1>1. call.epoch \in Epochs /\ call.epoch = current.epoch + 1 /\ call.epoch # policy.epoch
  BY CallEpochFacts
<1>2. \A m \in Nodes, e \in Epochs :
        assigned'[m][e] = IF m = n /\ e = call.epoch THEN call.plan[n] ELSE assigned[m][e]
  BY <1>1 DEF IInv, TypeOK
<1>3. call' = [call EXCEPT !.done = call.done \cup {n}]
  OBVIOUS
<1>4. /\ call'.phase = "prepare" /\ call'.epoch = call.epoch
      /\ call'.plan = call.plan /\ call'.done = call.done \cup {n}
  BY <1>3 DEF IInv, TypeOK
<1>5. call.plan[n] # NoRange
  BY MemberFacts DEF IInv, TypeOK, Members
<1>6. CallConsistent'
  <2>1. call.done \subseteq Nodes
    BY DEF IInv, TypeOK
  <2>2. \A m \in call'.done : assigned'[m][call'.epoch] = call'.plan[m]
    BY <1>1, <1>2, <1>4, <2>1 DEF IInv, CallConsistent
  <2> QED
    BY <1>4, <2>2 DEF IInv, CallConsistent
<1>7. ServingConsistent' /\ ActivationNeverRefused'
  BY <1>4 DEF IInv, ServingConsistent, ActivationNeverRefused
<1>8. ServingPlanReady'
  <2> SUFFICES ASSUME NEW m \in Members(policy.plan)
               PROVE  assigned'[m][policy.epoch] = policy.plan[m] /\ active[m] = policy.epoch
    BY DEF ServingPlanReady
  <2>1. m \in Nodes /\ policy.epoch \in Epochs
    BY MemberFacts DEF Members
  <2> QED
    BY <1>1, <1>2, <2>1 DEF IInv, ServingPlanReady
<1>9. ActiveStageHeld'
  <2> SUFFICES ASSUME NEW m \in Nodes, active[m] # 0
               PROVE  assigned'[m][active[m]] # NoRange
    BY DEF ActiveStageHeld
  <2>1. active[m] \in Epochs
    BY MaxEpochAssumption DEF IInv, TypeOK, Epochs
  <2> QED
    BY <1>2, <1>5, <2>1 DEF IInv, ActiveStageHeld
<1> QED
  BY <1>6, <1>7, <1>8, <1>9 DEF IInv

LEMMA UpdateLedgerIInv ==
  ASSUME IInv, UpdateLedger, TypeOK'
  PROVE  IInv'
<1> USE DEF UpdateLedger
<1>1. /\ call'.phase = "copy" /\ call'.epoch = call.epoch
      /\ call'.plan = call.plan /\ call'.done = {}
  BY DEF IInv, TypeOK
<1>2. CallConsistent' /\ ServingConsistent'
  BY <1>1 DEF IInv, CallConsistent, ServingConsistent
<1>3. ActivationNeverRefused'
  BY <1>1 DEF IInv, ActivationNeverRefused, CallConsistent
<1>4. ServingPlanReady' /\ ActiveStageHeld'
  BY DEF IInv, ServingPlanReady, ActiveStageHeld
<1> QED
  BY <1>2, <1>3, <1>4 DEF IInv

LEMMA CopyIInv ==
  ASSUME IInv, CopyReusableKV, TypeOK'
  PROVE  IInv'
<1> USE DEF CopyReusableKV
<1>1. /\ call'.phase = "activate" /\ call'.epoch = call.epoch
      /\ call'.plan = call.plan /\ call'.done = {}
  BY DEF IInv, TypeOK, CallConsistent
<1>2. CallConsistent' /\ ServingConsistent'
  BY <1>1 DEF IInv, CallConsistent, ServingConsistent
<1>3. ActivationNeverRefused'
  BY <1>1 DEF IInv, ActivationNeverRefused
<1>4. ServingPlanReady' /\ ActiveStageHeld'
  BY DEF IInv, ServingPlanReady, ActiveStageHeld
<1> QED
  BY <1>2, <1>3, <1>4 DEF IInv

LEMMA ActivateIInv ==
  ASSUME IInv, NEW n \in Nodes, Activate(n), TypeOK'
  PROVE  IInv'
<1> USE DEF Activate
<1>1. /\ call'.phase = "activate" /\ call'.epoch = call.epoch
      /\ call'.plan = call.plan /\ call'.done = call.done \cup {n}
  BY DEF IInv, TypeOK
<1>2. \A m \in Nodes : active'[m] = IF m = n THEN call.epoch ELSE active[m]
  BY DEF IInv, TypeOK
<1>3. call.done \subseteq Nodes
  BY DEF IInv, TypeOK
<1>4. CallConsistent' /\ ServingConsistent'
  BY <1>1, <1>2, <1>3 DEF IInv, CallConsistent, ServingConsistent
<1>5. ActivationNeverRefused'
  BY <1>1 DEF IInv, ActivationNeverRefused
<1>6. ServingPlanReady'
  BY <1>1, <1>2 DEF IInv, ServingPlanReady, Members
<1>7. ActiveStageHeld'
  BY <1>2 DEF IInv, ActiveStageHeld
<1> QED
  BY <1>4, <1>5, <1>6, <1>7 DEF IInv

\* The switch: every member has been activated, so the new plan is ready.
LEMMA CommitIInv ==
  ASSUME IInv, Commit, TypeOK'
  PROVE  IInv'
<1> USE DEF Commit
<1>1. call.epoch \in Epochs /\ call.epoch = current.epoch + 1
  BY CallEpochFacts
<1>2. policy'.epoch = call.epoch /\ policy'.plan = call.plan /\ current' = policy'
  OBVIOUS
<1>3. CallConsistent'
  BY DEF CallConsistent, Idle
<1>4. ServingConsistent'
  BY <1>1, <1>2 DEF IInv, TypeOK, ServingConsistent, CallConsistent, Epochs
<1>5. ActivationNeverRefused'
  BY DEF ActivationNeverRefused, Idle
<1>6. ServingPlanReady'
  BY <1>2 DEF IInv, ServingPlanReady, ActivationNeverRefused, CallConsistent
<1>7. ActiveStageHeld'
  BY DEF IInv, ActiveStageHeld
<1> QED
  BY <1>3, <1>4, <1>5, <1>6, <1>7 DEF IInv

\* An exception before the activations leaves the serving plan as it was.
LEMMA AbandonIInv ==
  ASSUME IInv, call.phase \in {"prepare", "copy"}, Abandon, TypeOK'
  PROVE  IInv'
<1> USE DEF Abandon
<1>1. CallConsistent' /\ ActivationNeverRefused'
  BY DEF CallConsistent, ActivationNeverRefused, Idle
<1>2. ServingConsistent'
  BY DEF IInv, ServingConsistent
<1>3. ServingPlanReady' /\ ActiveStageHeld'
  BY DEF IInv, ServingPlanReady, ActiveStageHeld
<1> QED
  BY <1>1, <1>2, <1>3 DEF IInv

LEMMA StartDrainIInv ==
  ASSUME IInv, NEW e \in Epochs, StartDrain(e), TypeOK'
  PROVE  IInv'
<1> USE DEF StartDrain
<1>1. drain'.epoch = e /\ e < current.epoch
  BY DEF IInv, TypeOK, Epochs
<1>2. ServingConsistent'
  BY <1>1 DEF IInv, ServingConsistent
<1>3. CallConsistent' /\ ActivationNeverRefused'
  BY DEF IInv, CallConsistent, ActivationNeverRefused
<1>4. ServingPlanReady' /\ ActiveStageHeld'
  BY DEF IInv, ServingPlanReady, ActiveStageHeld
<1> QED
  BY <1>2, <1>3, <1>4 DEF IInv

\* retire_epoch touches only a superseded epoch, so neither the serving stages
\* nor those of the call in progress.
LEMMA RetireIInv ==
  ASSUME IInv, NEW n \in Nodes, Retire(n), TypeOK'
  PROVE  IInv'
<1> USE DEF Retire
<1>1. /\ drain.epoch < current.epoch /\ drain.epoch # policy.epoch
      /\ drain.epoch \in Epochs
  BY MaxEpochAssumption DEF IInv, TypeOK, ServingConsistent, Epochs
<1>2. \A m \in Nodes, e \in Epochs :
        assigned'[m][e] = IF m = n /\ e = drain.epoch THEN NoRange ELSE assigned[m][e]
  BY <1>1 DEF IInv, TypeOK
<1>3. \A m \in Nodes :
        active'[m] = IF m = n /\ active[m] = drain.epoch THEN 0 ELSE active[m]
  BY DEF IInv, TypeOK
<1>4. drain'.epoch = drain.epoch
  BY DEF IInv, TypeOK
<1>5. call.phase # "idle" => call.epoch \in Epochs /\ call.epoch # drain.epoch
  <2>1. ASSUME call.phase # "idle" PROVE call.epoch \in Epochs /\ call.epoch = current.epoch + 1
    BY <2>1, CallEpochFacts
  <2>2. current.epoch \in Nat /\ drain.epoch \in Nat
    BY DEF IInv, TypeOK
  <2> QED
    BY <1>1, <2>1, <2>2
<1>6. call.done \subseteq Nodes
  BY DEF IInv, TypeOK
<1>7. CallConsistent'
  BY <1>2, <1>3, <1>5, <1>6 DEF IInv, CallConsistent
<1>8. ServingConsistent'
  BY <1>4 DEF IInv, ServingConsistent
<1>9. ActivationNeverRefused'
  BY <1>2, <1>5 DEF IInv, ActivationNeverRefused, Members
<1>10. ServingPlanReady'
  <2> SUFFICES ASSUME NEW m \in Members(policy.plan)
               PROVE  /\ assigned'[m][policy.epoch] = policy.plan[m]
                      /\ \/ active'[m] = policy.epoch
                         \/ call.phase = "activate" /\ m \in call.done
                                                    /\ active'[m] = call.epoch
    BY DEF ServingPlanReady
  <2>1. m \in Nodes /\ policy.epoch \in Epochs
    BY MemberFacts DEF Members
  <2> QED
    BY <1>1, <1>2, <1>3, <1>5, <2>1 DEF IInv, ServingPlanReady
<1>11. ActiveStageHeld'
  <2> SUFFICES ASSUME NEW m \in Nodes, active'[m] # 0
               PROVE  assigned'[m][active'[m]] # NoRange
    BY DEF ActiveStageHeld
  <2>1. active'[m] = active[m] /\ active[m] \in Epochs
    BY <1>3, MaxEpochAssumption DEF IInv, TypeOK, Epochs
  <2>2. ~(m = n /\ active[m] = drain.epoch)
    BY <1>3
  <2> QED
    BY <1>2, <2>1, <2>2 DEF IInv, ActiveStageHeld
<1> QED
  BY <1>7, <1>8, <1>9, <1>10, <1>11 DEF IInv

\* Steps that change neither the runtimes' epochs nor the plans.
LEMMA OtherIInv ==
  ASSUME IInv, TypeOK',
         UNCHANGED <<assigned, active, current, policy, ledger, call>>,
         drain' = drain \/ drain' = NoDrain
  PROVE  IInv'
<1>1. ServingConsistent'
  BY DEF IInv, ServingConsistent, NoDrain
<1>2. CallConsistent' /\ ActivationNeverRefused'
  BY DEF IInv, CallConsistent, ActivationNeverRefused
<1>3. ServingPlanReady' /\ ActiveStageHeld'
  BY DEF IInv, ServingPlanReady, ActiveStageHeld
<1> QED
  BY <1>1, <1>2, <1>3 DEF IInv

LEMMA NextIInv == IInv /\ [Next]_vars => IInv'
<1> SUFFICES ASSUME IInv, [Next]_vars PROVE IInv'
  OBVIOUS
<1>0. TypeOK'
  BY NextTypeOK DEF IInv
<1>1. CASE \E p \in CompletePlans : StartApply(p)
  BY <1>0, <1>1, StartApplyIInv
<1>2. CASE \E n \in Nodes : Prepare(n)
  BY <1>0, <1>2, PrepareIInv
<1>3. CASE UpdateLedger \/ CopyReusableKV \/ Commit
  BY <1>0, <1>3, UpdateLedgerIInv, CopyIInv, CommitIInv
<1>4. CASE \E n \in Nodes : Activate(n)
  BY <1>0, <1>4, ActivateIInv
<1>5. CASE PrepareRefused \/ LedgerRefused \/ CallFails
  BY <1>0, <1>5, AbandonIInv DEF PrepareRefused, LedgerRefused, CallFails
<1>6. CASE \E e \in Epochs : StartDrain(e)
  BY <1>0, <1>6, StartDrainIInv
<1>7. CASE \E n \in Nodes : Retire(n)
  BY <1>0, <1>7, RetireIInv
<1>8. CASE EndDrain \/ UNCHANGED vars
  BY <1>0, <1>8, OtherIInv DEF EndDrain, vars
<1>9. CASE \E n \in Nodes : NodeLeaves(n) \/ NodeReturns(n) \/ AttachRuntime(n)
  BY <1>0, <1>9, OtherIInv DEF NodeLeaves, NodeReturns, AttachRuntime
<1> QED
  BY <1>1, <1>2, <1>3, <1>4, <1>5, <1>6, <1>7, <1>8, <1>9 DEF Next

THEOREM Inductive == Spec => []IInv
  BY InitIInv, NextIInv, PTL DEF Spec

-----------------------------------------------------------------------------
(* What follows from it *)

\* The plan that new requests are bound to is resident on all its nodes in every
\* reachable state, whatever departures, failed attempts and drains happen.
THEOREM ServingPlanAlwaysReady == Spec => []ServingPlanReady
<1>1. IInv => ServingPlanReady
  BY DEF IInv
<1> QED
  BY <1>1, Inductive, PTL

\* No activation of apply_plan is refused by a runtime.
THEOREM NoActivationRefused == Spec => []ActivationNeverRefused
<1>1. IInv => ActivationNeverRefused
  BY DEF IInv
<1> QED
  BY <1>1, Inductive, PTL

\* No runtime is active in an epoch that it has released.
THEOREM ActiveStagesHeld == Spec => []ActiveStageHeld
<1>1. IInv => ActiveStageHeld
  BY DEF IInv
<1> QED
  BY <1>1, Inductive, PTL

-----------------------------------------------------------------------------
(* The refinement.  The inductive invariant is what makes the steps match. *)
(* First, the stage copies as the abstract specification sees them.        *)

HeldIsAssigned ==
  \A s : s \in Held <=>
    \E n \in Nodes, e \in Epochs :
      /\ assigned[n][e] # NoRange
      /\ s = [node |-> n, epoch |-> e, layers |-> assigned[n][e]]

LEMMA HeldMembers == HeldIsAssigned
<1> USE DEF HeldIsAssigned
<1> SUFFICES ASSUME NEW s
             PROVE  s \in Held <=> \E n \in Nodes, e \in Epochs :
                      /\ assigned[n][e] # NoRange
                      /\ s = [node |-> n, epoch |-> e, layers |-> assigned[n][e]]
  OBVIOUS
<1>1. ASSUME s \in Held
      PROVE  \E n \in Nodes, e \in Epochs :
               /\ assigned[n][e] # NoRange
               /\ s = [node |-> n, epoch |-> e, layers |-> assigned[n][e]]
  BY <1>1 DEF Held
<1>2. ASSUME NEW n \in Nodes, NEW e \in Epochs, assigned[n][e] # NoRange,
             s = [node |-> n, epoch |-> e, layers |-> assigned[n][e]]
      PROVE  s \in Held
  <2>1. <<n, e>> \in {y \in Nodes \X Epochs : assigned[y[1]][y[2]] # NoRange}
    BY <1>2
  <2> QED
    BY <1>2, <2>1 DEF Held
<1> QED
  BY <1>1, <1>2

LEMMA HeldMembersNext == HeldIsAssigned'
  BY HeldMembers, PTL

LEMMA HeldUnchanged == assigned' = assigned => Held' = Held
  BY DEF Held

\* Writing one entry of assigned replaces one stage copy.
LEMMA HeldAfterWrite ==
  ASSUME NEW n \in Nodes, NEW e \in Epochs, NEW r,
         \A m \in Nodes, f \in Epochs :
           assigned'[m][f] = IF m = n /\ f = e THEN r ELSE assigned[m][f]
  PROVE  Held' = {s \in Held : ~(s.node = n /\ s.epoch = e)}
                   \cup (IF r = NoRange THEN {}
                         ELSE {[node |-> n, epoch |-> e, layers |-> r]})
<1> DEFINE Kept == {s \in Held : ~(s.node = n /\ s.epoch = e)}
           New == IF r = NoRange THEN {} ELSE {[node |-> n, epoch |-> e, layers |-> r]}
<1>1. \A s : s \in Held' <=>
        \E m \in Nodes, f \in Epochs :
          /\ assigned'[m][f] # NoRange
          /\ s = [node |-> m, epoch |-> f, layers |-> assigned'[m][f]]
  BY HeldMembersNext DEF HeldIsAssigned
<1>2. ASSUME NEW s \in Held' PROVE s \in Kept \cup New
  <2>1. PICK m \in Nodes, f \in Epochs :
          /\ assigned'[m][f] # NoRange
          /\ s = [node |-> m, epoch |-> f, layers |-> assigned'[m][f]]
    BY <1>1
  <2>2. CASE m = n /\ f = e
    BY <2>1, <2>2
  <2>3. CASE ~(m = n /\ f = e)
    <3>1. assigned'[m][f] = assigned[m][f]
      BY <2>3
    <3>2. s \in Held
      BY <2>1, <3>1, HeldMembers DEF HeldIsAssigned
    <3>3. s.node = m /\ s.epoch = f
      BY <2>1
    <3> QED
      BY <2>3, <3>2, <3>3
  <2> QED
    BY <2>2, <2>3
<1>3. ASSUME NEW s \in Kept PROVE s \in Held'
  <2>1. PICK m \in Nodes, f \in Epochs :
          /\ assigned[m][f] # NoRange
          /\ s = [node |-> m, epoch |-> f, layers |-> assigned[m][f]]
    BY HeldMembers DEF HeldIsAssigned
  <2>2. ~(m = n /\ f = e)
    BY <2>1
  <2>3. assigned'[m][f] = assigned[m][f]
    BY <2>2
  <2> QED
    BY <1>1, <2>1, <2>3
<1>4. ASSUME NEW s \in New PROVE s \in Held'
  <2>1. r # NoRange /\ s = [node |-> n, epoch |-> e, layers |-> r]
    BY <1>4
  <2>2. assigned'[n][e] = r
    OBVIOUS
  <2> QED
    BY <1>1, <2>1, <2>2
<1> QED
  BY <1>2, <1>3, <1>4

-----------------------------------------------------------------------------
(* The steps that the abstract specification sees *)

LEMMA InitMaps == Init => Abstract!Init
<1> SUFFICES ASSUME Init PROVE Abstract!Init
  OBVIOUS
<1>1. Held = {}
  <2>1. \A n \in Nodes, e \in Epochs : assigned[n][e] = NoRange
    BY DEF Init
  <2> QED
    BY <2>1, HeldMembers DEF HeldIsAssigned
<1> QED
  BY <1>1 DEF Init, Unset, NoPlan, Abstract!Init

\* prepare_epoch loads a stage of the epoch to come.
LEMMA PrepareMaps ==
  ASSUME IInv, NEW n \in Nodes, Prepare(n)
  PROVE  Abstract!Load(n, call.plan[n])
<1> DEFINE r == call.plan[n]
<1>1. call.phase # "idle"
  BY DEF Prepare
<1>2. call.epoch \in Epochs /\ call.epoch = current.epoch + 1
  BY <1>1, CallEpochFacts
<1>3. r # NoRange
  BY DEF Prepare, Members
<1>4. \A m \in Nodes, f \in Epochs :
        assigned'[m][f] = IF m = n /\ f = call.epoch THEN r ELSE assigned[m][f]
  BY <1>2 DEF Prepare, IInv, TypeOK
<1>5. Held' = {s \in Held : ~(s.node = n /\ s.epoch = call.epoch)}
                \cup {[node |-> n, epoch |-> call.epoch, layers |-> r]}
  <2> HIDE DEF r
  <2> QED
    BY <1>2, <1>3, <1>4, HeldAfterWrite
<1>6. policy' = policy /\ call.epoch = policy.epoch + 1
  BY <1>2 DEF Prepare, IInv, ServingConsistent
<1> QED
  BY <1>5, <1>6 DEF Abstract!Load, Abstract!Stage

\* retire_epoch releases a stage of a superseded epoch.
LEMMA RetireMaps ==
  ASSUME IInv, NEW n \in Nodes, Retire(n)
  PROVE  Abstract!Release(n, drain.epoch) /\ drain.epoch \in 0..policy.epoch
<1>1. drain.epoch < policy.epoch /\ drain.epoch \in Epochs /\ policy.epoch \in Nat
  BY MaxEpochAssumption DEF Retire, IInv, TypeOK, ServingConsistent, Epochs
<1>2. \A m \in Nodes, f \in Epochs :
        assigned'[m][f] = IF m = n /\ f = drain.epoch THEN NoRange ELSE assigned[m][f]
  BY <1>1 DEF Retire, IInv, TypeOK
<1>3. Held' = {s \in Held : ~(s.node = n /\ s.epoch = drain.epoch)}
  BY <1>1, <1>2, HeldAfterWrite
<1>4. policy' = policy
  BY DEF Retire
<1>5. drain.epoch \in 0..policy.epoch
  BY <1>1 DEF Epochs
<1> QED
  BY <1>1, <1>3, <1>4, <1>5 DEF Abstract!Release

\* The commit is the switch: the stages of the plan are all resident.
LEMMA CommitMaps ==
  ASSUME IInv, Commit
  PROVE  Abstract!Switch(call.plan) /\ call.plan \in CompletePlans
<1>1. call.phase # "idle"
  BY DEF Commit
<1>2. call.epoch \in Epochs /\ call.epoch = current.epoch + 1
  BY <1>1, CallEpochFacts
<1>3. call.plan \in CompletePlans
  BY <1>1 DEF IInv, TypeOK, CallConsistent, CompletePlans
<1>4. Abstract!StagesOf(call.epoch, call.plan) \subseteq Held
  <2> SUFFICES ASSUME NEW n \in Nodes, call.plan[n] # NoRange
               PROVE  [node |-> n, epoch |-> call.epoch, layers |-> call.plan[n]] \in Held
    BY DEF Abstract!StagesOf, Abstract!Stage
  <2>1. assigned[n][call.epoch] = call.plan[n]
    BY DEF Commit, IInv, ActivationNeverRefused, Members
  <2> QED
    BY <1>2, <2>1, HeldMembers DEF HeldIsAssigned
<1>5. Held' = Held
  BY HeldUnchanged DEF Commit
<1>6. policy' = [epoch |-> call.epoch, plan |-> call.plan] /\ call.epoch = policy.epoch + 1
  BY <1>2 DEF Commit, IInv, ServingConsistent
<1> QED
  BY <1>3, <1>4, <1>5, <1>6 DEF Abstract!Switch

\* Every other step leaves the policy and the runtimes' stages as they are.
LEMMA StepMaps == IInv /\ [Next]_vars => [Abstract!Next]_<<policy, Held>>
<1> SUFFICES ASSUME IInv, [Next]_vars PROVE [Abstract!Next]_<<policy, Held>>
  OBVIOUS
<1>1. ASSUME NEW n \in Nodes, Prepare(n) PROVE Abstract!Next
  <2>1. call.plan[n] \in Ranges
    BY <1>1 DEF IInv, TypeOK, Plans, Prepare, Members
  <2> QED
    BY <1>1, <2>1, PrepareMaps DEF Abstract!Next
<1>2. ASSUME NEW n \in Nodes, Retire(n) PROVE Abstract!Next
  BY <1>2, RetireMaps DEF Abstract!Next
<1>3. CASE Commit
  BY <1>3, CommitMaps DEF Abstract!Next
<1>4. ASSUME UNCHANGED <<policy, assigned>> PROVE UNCHANGED <<policy, Held>>
  BY <1>4, HeldUnchanged
<1>5. CASE \/ \E p \in CompletePlans : StartApply(p)
           \/ UpdateLedger \/ CopyReusableKV \/ \E n \in Nodes : Activate(n)
  BY <1>4, <1>5 DEF StartApply, UpdateLedger, CopyReusableKV, Activate
<1>6. CASE PrepareRefused \/ LedgerRefused \/ CallFails
  BY <1>4, <1>6 DEF PrepareRefused, LedgerRefused, CallFails, Abandon
<1>7. CASE (\E e \in Epochs : StartDrain(e)) \/ EndDrain \/ UNCHANGED vars
  BY <1>4, <1>7 DEF StartDrain, EndDrain, vars
<1>8. CASE \E n \in Nodes : NodeLeaves(n) \/ NodeReturns(n) \/ AttachRuntime(n)
  BY <1>4, <1>8 DEF NodeLeaves, NodeReturns, AttachRuntime
<1> QED
  BY <1>1, <1>2, <1>3, <1>5, <1>6, <1>7, <1>8 DEF Next

\* The coordinator implements the blue-green switch: traffic moves from one
\* complete plan to the next in one step, with every stage of the next plan
\* resident, and nothing of the plan in force is ever released or changed.
THEOREM Refinement == Spec => ImplementsBlueGreen
<1>1. Spec => Abstract!Init /\ [][Abstract!Next]_<<policy, Held>>
  BY InitMaps, StepMaps, Inductive, PTL DEF Spec
<1> QED
  BY <1>1 DEF ImplementsBlueGreen, Abstract!Spec
=============================================================================
