------------------------ MODULE MCMultiDomainBuffer ------------------------
(* Model values and symmetry for the runs of MultiDomainBuffer. *)
EXTENDS MultiDomainBuffer, TLC

DomainSymmetry == Permutations(Domains)
=============================================================================
