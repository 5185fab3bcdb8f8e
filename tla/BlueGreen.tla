------------------------------ MODULE BlueGreen ------------------------------
(***************************************************************************)
(* What the reconfiguration of the layered pipeline promises to its entry, *)
(* whatever the order of its steps: traffic moves in one step from a       *)
(* complete plan to the next one, and only when every stage of the next    *)
(* plan is resident; until an epoch is superseded none of its stages is    *)
(* released or changed.                                                    *)
(***************************************************************************)
EXTENDS Naturals

CONSTANTS
  Nodes,
  Ranges,    \* layer ranges a stage may hold
  NoRange,   \* the "range" of a node that is not in a plan
  Complete   \* the plans that give every layer to exactly one node

VARIABLES
  serving,   \* epoch and plan that new requests are bound to
  held       \* stage copies resident on the nodes

Stage(n, e, r) == [node |-> n, epoch |-> e, layers |-> r]
StagesOf(e, p) == {Stage(n, e, p[n]) : n \in {m \in Nodes : p[m] # NoRange}}

Init ==
  /\ serving = [epoch |-> 0, plan |-> [n \in Nodes |-> NoRange]]
  /\ held = {}

\* A node loads (or loads anew) its stage of the epoch to come.
Load(n, r) ==
  LET e == serving.epoch + 1 IN
  /\ held' = {s \in held : ~(s.node = n /\ s.epoch = e)} \cup {Stage(n, e, r)}
  /\ UNCHANGED serving

\* A node releases its stage of an epoch that no longer serves.
Release(n, e) ==
  /\ e < serving.epoch
  /\ held' = {s \in held : ~(s.node = n /\ s.epoch = e)}
  /\ UNCHANGED serving

Switch(p) ==
  LET e == serving.epoch + 1 IN
  /\ StagesOf(e, p) \subseteq held
  /\ serving' = [epoch |-> e, plan |-> p]
  /\ UNCHANGED held

Next ==
  \/ \E n \in Nodes, r \in Ranges : Load(n, r)
  \/ \E n \in Nodes, e \in 0..serving.epoch : Release(n, e)
  \/ \E p \in Complete : Switch(p)

Spec == Init /\ [][Next]_<<serving, held>>
=============================================================================
