--------------------------- MODULE MCPipelineRun ---------------------------
(* Instances of PipelineRun for TLC: the keys are model values.              *)
EXTENDS PipelineRun

CONSTANTS k1, k2
=============================================================================
