-------------------------- MODULE MCPipelineServing --------------------------
EXTENDS PipelineServing, TLC

NodeSymmetry == Permutations(Nodes)
=============================================================================
