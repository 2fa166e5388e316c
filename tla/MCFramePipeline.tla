--------------------------- MODULE MCFramePipeline ---------------------------
(* FramePipeline and its refinement on small instances; the configurations *)
(* give the constants their values.                                        *)
EXTENDS FramePipelineRefinement
=============================================================================
