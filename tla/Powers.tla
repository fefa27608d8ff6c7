------------------------------- MODULE Powers -------------------------------
(***************************************************************************)
(* Powers, by their recursive equation, which is what the number of        *)
(* triangles in particles.h and the exponents of floats are about.         *)
(***************************************************************************)
EXTENDS Integers

Power(b, n) ==
    LET power[k \in Nat] == IF k = 0 THEN 1 ELSE b * power[k - 1]
    IN  power[n]
=============================================================================
