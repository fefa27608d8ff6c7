------------------------- MODULE MCVisualizerServer -------------------------
(* Symmetry for the runs of VisualizerServer that have no temporal property. *)
EXTENDS VisualizerServer, TLC

VisualizerSymmetry == Permutations(Visualizers)
=============================================================================
