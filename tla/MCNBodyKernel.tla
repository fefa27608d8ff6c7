--------------------------- MODULE MCNBodyKernel ---------------------------
(* Instances of NBodyKernel for TLC.  A block that is done stops. *)
EXTENDS NBodyKernel
=============================================================================
