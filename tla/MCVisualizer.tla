---------------------------- MODULE MCVisualizer ----------------------------
(* The run of Visualizer.  Two particles are 8 floats, so a slot is filled *)
(* by up to 8 reads; one subdivision makes 16 triangles of each sphere.    *)
EXTENDS Visualizer
=============================================================================
