------------------------- MODULE MCVisualizerBuffer -------------------------
(* The run of VisualizerBuffer by itself, with one particle. *)
EXTENDS VisualizerBuffer
=============================================================================
