--------------------------- MODULE MCNBodyDomain ---------------------------
(* An instance of NBodyDomain for TLC.  The run stops after MaxIter steps. *)
EXTENDS NBodyDomain
=============================================================================
