----------------------------- MODULE MCPipeline -----------------------------
(* Instances of the processing pipeline for TLC. *)
EXTENDS PipelineProperties, TLC

Symmetry == Permutations(Workers) \cup Permutations(Requests)
===========================================================================
