------------------------- MODULE MCPipelineReconfig -------------------------
EXTENDS PipelineReconfig, TLC

NodeSymmetry == Permutations(Nodes)
=============================================================================
