------------------------------- MODULE Routing -------------------------------
(***************************************************************************)
(* The placement policies that send a request to one node, as functions of  *)
(* what they read: the nodes (numbered in the order of the node manager's   *)
(* list), their load in twentieths, their flops, and the catalog of the KV  *)
(* store, whose blocks 1..n are those of the prompt, in order.              *)
(***************************************************************************)
EXTENDS Integers, FiniteSets, FiniteSetsExt

CONSTANTS
  NumNodes,
  NumBlocks,     \* blocks of the prompt
  BlockSize,     \* BLOCK_SIZE_TOKENS
  PromptLen      \* tokens, the last block may be short

ASSUME RoutingAssumption ==
  /\ NumNodes \in Nat \ {0} /\ NumBlocks \in Nat /\ BlockSize \in Nat \ {0}
  /\ PromptLen \in (BlockSize * (NumBlocks - 1) + 1)..(BlockSize * NumBlocks)

Nodes == 1..NumNodes
Blocks == 1..NumBlocks
Elsewhere == 0              \* a location of no node: cloud:cpu
Locations == Nodes \cup {Elsewhere}
Overloaded == 20
TooLoadedForDefault == 18
TooLoadedForE2 == 19

\* min(nodes, key): the first of the cheapest.
Cheapest(S, cost) == Min({n \in S : \A m \in S : cost[n] <= cost[m]})

DefaultTarget(S, load) ==
  LET light == {n \in S : load[n] < TooLoadedForDefault} IN
  Cheapest(IF light # {} THEN light ELSE S, load)

\* load / (flops / average): the average is the same for all, and no flops counts as
\* next to none.
CapabilityTarget(S, load, flops) ==
  LET weight == [n \in S |-> IF flops[n] = 0 THEN 1 ELSE 1000 * flops[n]]
      lighter(n, m) == load[n] * weight[m] <= load[m] * weight[n]
  IN Min({n \in S : \A m \in S : lighter(n, m)})

\* lookup: the blocks of the prompt that are somewhere, counted from the first one on.
HitBlocks(index) == Cardinality({b \in Blocks : \A c \in 1..b : index[c] # {}})

\* E2Placement's own lookup, in tokens.  The hit that the scheduler passes along is a
\* number of blocks, and is weighed as if it were one of tokens.
Matched(index, hit) == Max({BlockSize * HitBlocks(index), hit})
Worthwhile(matched) == matched > (IF PromptLen > matched THEN PromptLen - matched ELSE 0)

\* Any holder of one of the blocks counts, also one that lacks those before it.
HitHolders(index, matched) == UNION {index[b] : b \in 1..(matched \div BlockSize)}

\* The price of making room on a node is that of the first of its blocks in the index,
\* relative to the dearest.
ExploreTarget(S, load, index, value) ==
  LET first(n) == Min({b \in Blocks : n \in index[b]})
      listed == UNION {index[b] : b \in Blocks}
      price == [n \in Locations |-> IF n \in listed THEN value[first(n)] ELSE 0]
      dearest == Max({price[n] : n \in listed} \cup {0})
      cost == [n \in S |-> IF dearest = 0 THEN load[n]
                           ELSE load[n] * dearest + Overloaded * price[n]]
  IN Cheapest(S, cost)

E2Target(S, load, index, value, matched) ==
  LET holders == {n \in S \cap HitHolders(index, matched) : load[n] < TooLoadedForE2} IN
  IF Worthwhile(matched) /\ holders # {} THEN Cheapest(holders, load)
  ELSE ExploreTarget(S, load, index, value)
=============================================================================
