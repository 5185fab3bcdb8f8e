-------------------------- MODULE MCElasticPipeline --------------------------
EXTENDS ElasticPipeline, TLC

\* Nodes are numbered in the order of their registration.  Each node alive gets
\* one layer, the last one also the layers that are left.
PlanTable ==
  [S \in (SUBSET Nodes) \ {{}} |-> [n \in Nodes |->
     LET before == Cardinality({m \in S : m < n}) IN
     IF n \notin S THEN NoRange
     ELSE <<before, IF before + 1 = Cardinality(S) THEN NumLayers ELSE before + 1>>]]
=============================================================================
