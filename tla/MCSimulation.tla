---------------------------- MODULE MCSimulation ----------------------------
(* An instance of Simulation for TLC. *)
EXTENDS Simulation
=============================================================================
