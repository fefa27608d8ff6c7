----------------------------- MODULE WorldSetup -----------------------------
(***************************************************************************)
(* The arithmetic of MultiNBodyWorld.cpp: the number of bodies that        *)
(* loadInput takes for the one it is given, the rank that init gives to    *)
(* each domain, and the single-precision time that run adds up.  Numbers   *)
(* of the time are in units of the smallest one that matters, which is     *)
(* exact up to 2^Precision of them; a float has 24 bits.  With a single    *)
(* bit ties would be between odd numbers.                                  *)
(***************************************************************************)
EXTENDS Powers

CONSTANT Precision

ASSUME PrecisionAssumption == Precision \in Nat \ {0, 1}

(* Division in C truncates toward zero. *)
CDiv(a, b) == IF a >= 0 THEN a \div b ELSE -((-a) \div b)

(* Mutant of RoundBodies: the 31 is missing, which rounds down. *)
RoundBodiesDown(val) == 32 * CDiv(val, 32)

RoundBodies(val) == 32 * CDiv(val + 31, 32)

(* Mutant of Owner: the quotient for the remainder. *)
OwnerQuotient(di, n_proc) == di \div n_proc

(* dom_rank, the rank that activates a domain *)
Owner(di, n_proc) == di % n_proc

(* The distance between two floats at x *)
Ulp(x) ==
    IF x < Power(2, Precision) THEN 1
    ELSE Power(2, CHOOSE e \in 1 .. x : /\ Power(2, Precision - 1 + e) <= x
                                        /\ x < Power(2, Precision + e))

(* Mutant of RoundMagnitude: what does not fit is cut off. *)
RoundMagnitudeCut(x) == Ulp(x) * (x \div Ulp(x))

(* The float nearest to x, of two the even one *)
RoundMagnitude(x) ==
    LET u == Ulp(x)
        below == x \div u
        up == 2 * (x % u) > u \/ (2 * (x % u) = u /\ below % 2 = 1)
    IN  u * IF up THEN below + 1 ELSE below

RoundFloat(x) == IF x >= 0 THEN RoundMagnitude(x) ELSE -RoundMagnitude(-x)

(* time += dt *)
TimeAfter(time, dt) == RoundFloat(time + dt)
=============================================================================
