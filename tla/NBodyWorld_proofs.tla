-------------------------- MODULE NBodyWorld_proofs --------------------------
(***************************************************************************)
(* Proofs about NBodyWorld, for any number of processes, domains and       *)
(* arguments.                                                              *)
(***************************************************************************)
EXTENDS NBodyWorld, Powers_proofs, SequenceTheorems, TLAPS

(* A division with its remainder *)
LEMMA DivMod ==
    ASSUME NEW a \in Nat, NEW b \in Nat \ {0}
    PROVE  /\ a \div b \in Nat /\ a % b \in 0 .. b - 1
           /\ a = b * (a \div b) + (a % b)
BY SMT

(* np rounded up to a multiple of 32 *)
LEMMA RoundBodiesUp ==
    ASSUME NEW val \in Int
    PROVE  /\ RoundBodies(val) \in Int /\ RoundBodies(val) % 32 = 0
           /\ val > 0 => RoundBodies(val) \in val .. val + 31
<1>1. CDiv(val + 31, 32) \in Int
    BY SMT DEF CDiv
<1>2. val > 0 => CDiv(val + 31, 32) = (val + 31) \div 32
    BY SMT DEF CDiv
<1> HIDE DEF CDiv
<1>3. \A q \in Int : 32 * q \in Int /\ (32 * q) % 32 = 0
    BY SMT
<1>4. val > 0 => 32 * ((val + 31) \div 32) \in val .. val + 31
    BY SMT
<1> QED BY <1>1, <1>2, <1>3, <1>4 DEF RoundBodies

-----------------------------------------------------------------------------
(* The addition of floats *)

LEMMA DivUnique ==
    ASSUME NEW b \in Nat \ {0}, NEW q \in Nat, NEW r \in 0 .. b - 1
    PROVE  (b * q + r) \div b = q /\ (b * q + r) % b = r
<1> DEFINE a == b * q + r
           d == a \div b
<1>1. a \in Nat /\ b * q \in Nat
    BY SMT
<1>2. d \in Nat /\ a % b \in 0 .. b - 1 /\ a = b * d + (a % b)
    BY <1>1, DivMod
<1> HIDE DEF d
<1>3. ~(d < q)
    <2> SUFFICES ASSUME d < q PROVE FALSE
        OBVIOUS
    <2>1. PICK k \in Nat : q = d + 1 + k
        <3>1. q - d - 1 \in Nat /\ q = d + 1 + (q - d - 1)
            BY <1>2, SMT
        <3> QED BY <3>1
    <2>2. b * q = b * d + b + b * k /\ b * k \in Nat /\ b * d \in Nat
        BY <1>2, <2>1, SMT
    <2> QED BY <1>1, <1>2, <2>2, SMT
<1>4. ~(q < d)
    <2> SUFFICES ASSUME q < d PROVE FALSE
        OBVIOUS
    <2>1. PICK k \in Nat : d = q + 1 + k
        <3>1. d - q - 1 \in Nat /\ d = q + 1 + (d - q - 1)
            BY <1>2, SMT
        <3> QED BY <3>1
    <2>2. b * d = b * q + b + b * k /\ b * k \in Nat
        BY <1>2, <2>1, SMT
    <2> QED BY <1>1, <1>2, <2>2, SMT
<1>5. d = q
    BY <1>2, <1>3, <1>4, SMT
<1> QED BY <1>1, <1>2, <1>5, SMT DEF d

(* e is the exponent of the distance between floats at x. *)
Exponent(x, e) ==
    /\ x < Power(2, Precision + e)
    /\ e > 0 => Power(2, Precision + e - 1) <= x

LEMMA ExponentExists == ASSUME NEW x \in Nat PROVE \E e \in Nat : Exponent(x, e)
<1>1. CASE x < Power(2, Precision)
    <2>1. Precision + 0 = Precision
        BY PrecisionAssumption
    <2> QED BY <1>1, <2>1 DEF Exponent
<1>2. CASE ~(x < Power(2, Precision))
    <2>1. Power(2, Precision) \in Nat /\ Precision \in Nat /\ Precision < Power(2, Precision)
        BY PowerAbove, PrecisionAssumption
    <2>2. x \in Nat \ {0} /\ Power(2, Precision) <= x
        BY <1>2, <2>1, SMT
    <2>3. PICK k \in Nat : Power(2, k) <= x /\ x < Power(2, k + 1)
        BY <2>2, BetweenPowers
    <2>4. k + 1 \in Nat /\ Power(2, k) \in Nat /\ Power(2, k + 1) \in Nat
        <3>1. k + 1 \in Nat
            BY SMT
        <3> QED BY <3>1, PowerEquation
    <2>5. Power(2, Precision) < Power(2, k + 1)
        BY <2>1, <2>2, <2>3, <2>4, SMT
    <2>6. Precision < k + 1
        BY <2>1, <2>5, PowerGrows
    <2>7. /\ k - Precision + 1 \in Nat
          /\ Precision + (k - Precision + 1) = k + 1 /\ Precision + (k - Precision + 1) - 1 = k
        BY <2>1, <2>6, SMT
    <2> QED BY <2>3, <2>7, Zenon DEF Exponent
<1> QED BY <1>1, <1>2

LEMMA UlpOfExponent == ASSUME NEW x \in Nat, NEW e \in Nat, Exponent(x, e) PROVE Ulp(x) = Power(2, e)
<1>1. Precision \in Nat \ {0}
    BY PrecisionAssumption
<1>2. CASE e = 0
    <2>1. Precision + 0 = Precision
        BY <1>1
    <2> QED BY <1>2, <2>1, PowerEquation DEF Exponent, Ulp
<1>3. CASE e # 0
    <2>1. /\ e > 0 /\ Precision + e - 1 = Precision - 1 + e
          /\ Precision - 1 + e \in Nat /\ Precision <= Precision - 1 + e /\ e <= Precision - 1 + e
        BY <1>1, <1>3, SMT
    <2>2. Power(2, Precision - 1 + e) <= x /\ x < Power(2, Precision + e)
        BY <2>1 DEF Exponent
    <2>3. Power(2, Precision) <= Power(2, Precision - 1 + e) /\ Power(2, e) <= Power(2, Precision - 1 + e)
        BY <1>1, <2>1, PowerGrows
    <2>4. /\ Power(2, Precision) \in Nat /\ Power(2, e) \in Nat /\ e < Power(2, e)
          /\ Power(2, Precision - 1 + e) \in Nat
        BY <1>1, <2>1, PowerAbove
    <2>5. ~(x < Power(2, Precision)) /\ e \in 1 .. x
        BY <1>3, <2>2, <2>3, <2>4, SMT
    <2>6. ASSUME NEW d \in 1 .. x, Power(2, Precision - 1 + d) <= x, x < Power(2, Precision + d)
          PROVE  d = e
        <3>1. /\ d \in Nat /\ Precision - 1 + d \in Nat /\ Precision + d \in Nat /\ Precision + e \in Nat
            BY <1>1, SMT
        <3>2. /\ Power(2, Precision - 1 + d) \in Nat /\ Power(2, Precision + d) \in Nat
              /\ Power(2, Precision + e) \in Nat
            BY <3>1, PowerEquation
        <3>3. /\ Power(2, Precision - 1 + d) < Power(2, Precision + e)
              /\ Power(2, Precision - 1 + e) < Power(2, Precision + d)
            BY <2>2, <2>4, <2>6, <3>2, SMT
        <3>4. Precision - 1 + d < Precision + e /\ Precision - 1 + e < Precision + d
            BY <2>1, <3>1, <3>3, PowerGrows
        <3> QED BY <1>1, <3>1, <3>4, SMT
    <2> DEFINE chosen == CHOOSE d \in 1 .. x : /\ Power(2, Precision - 1 + d) <= x
                                               /\ x < Power(2, Precision + d)
    <2>7. chosen = e
        BY <2>2, <2>5, <2>6, Zenon
    <2> HIDE DEF chosen
    <2>8. Ulp(x) = Power(2, chosen)
        BY <2>5 DEF Ulp, chosen
    <2> QED BY <2>7, <2>8
<1> QED BY <1>2, <1>3

(* Multiples of the distance at them are floats, ... *)
LEMMA RoundMultiple ==
    ASSUME NEW e \in Nat, NEW m \in Nat, Exponent(Power(2, e) * m, e)
    PROVE  RoundMagnitude(Power(2, e) * m) = Power(2, e) * m
<1> DEFINE u == Power(2, e)
           x == u * m
<1>1. u \in Nat \ {0}
    BY PowerAbove, SMT
<1> HIDE DEF u
<1>2. x \in Nat /\ x = u * m + 0 /\ 0 \in 0 .. u - 1
    BY <1>1, SMT
<1>3. x \div u = m /\ x % u = 0
    BY <1>1, <1>2, DivUnique
<1>4. Ulp(x) = u
    BY <1>2, UlpOfExponent DEF u
<1> HIDE DEF x
<1>5. RoundMagnitude(x) = u * m
    BY <1>1, <1>3, <1>4, SMT DEF RoundMagnitude
<1> QED BY <1>5 DEF x, u

(* ... and every number is rounded to one of the two next to it. *)
LEMMA RoundNext ==
    ASSUME NEW x \in Nat, NEW e \in Nat, Exponent(x, e)
    PROVE  \E m \in Nat : /\ m \in {x \div Power(2, e), x \div Power(2, e) + 1}
                          /\ m = x \div Power(2, e) + 1 => x % Power(2, e) # 0
                          /\ RoundMagnitude(x) = Power(2, e) * m
<1> DEFINE u == Power(2, e)
<1>1. u \in Nat \ {0} /\ Ulp(x) = u
    BY PowerAbove, UlpOfExponent, SMT
<1> HIDE DEF u
<1>2. x \div u \in Nat /\ x % u \in 0 .. u - 1
    BY <1>1, DivMod
<1> DEFINE up == 2 * (x % u) > u \/ (2 * (x % u) = u /\ (x \div u) % 2 = 1)
<1>3. RoundMagnitude(x) = u * IF up THEN x \div u + 1 ELSE x \div u
    BY <1>1 DEF RoundMagnitude
<1>4. up => x % u # 0
    BY <1>1, <1>2, SMT
<1> HIDE DEF up
<1>5. x \div u # x \div u + 1 /\ x \div u + 1 \in Nat
    BY <1>2, SMT
<1>6. CASE up
    BY <1>3, <1>4, <1>5, <1>6 DEF u
<1>7. CASE ~up
    BY <1>2, <1>3, <1>5, <1>7 DEF u
<1> QED BY <1>6, <1>7

LEMMA MultGrows ==
    ASSUME NEW u \in Nat \ {0}, NEW a \in Nat, NEW b \in Nat
    PROVE  u * a \in Nat /\ (a < b <=> u * a < u * b) /\ (a <= b <=> u * a <= u * b)
<1>1. ASSUME NEW c \in Nat, NEW d \in Nat, c < d PROVE u * c < u * d
    <2>1. PICK k \in Nat : d = c + 1 + k
        <3>1. d - c - 1 \in Nat /\ d = c + 1 + (d - c - 1)
            BY <1>1, SMT
        <3> QED BY <3>1
    <2>2. u * d = u * c + u + u * k /\ u * k \in Nat /\ u * c \in Nat
        BY <2>1, SMT
    <2> QED BY <2>2, SMT
<1>2. u * a \in Nat /\ u * b \in Nat
    BY SMT
<1>3. (a < b => u * a < u * b) /\ (b < a => u * b < u * a)
    BY <1>1
<1> QED BY <1>2, <1>3, SMT

(* The quotient at x has Precision bits, or less where the distance is 1. *)
LEMMA Mantissa ==
    ASSUME NEW x \in Nat, NEW e \in Nat, Exponent(x, e)
    PROVE  /\ x \div Power(2, e) \in Nat /\ x \div Power(2, e) < Power(2, Precision)
           /\ e > 0 => Power(2, Precision - 1) <= x \div Power(2, e)
<1> DEFINE u == Power(2, e)
           b == x \div u
<1>1. /\ u \in Nat \ {0} /\ Power(2, Precision) \in Nat /\ Power(2, Precision - 1) \in Nat
      /\ Power(2, Precision + e) = u * Power(2, Precision)
      /\ Power(2, Precision + e - 1) = u * Power(2, Precision - 1)
    <2>1. /\ Precision \in Nat /\ Precision - 1 \in Nat
          /\ Precision + e = e + Precision /\ Precision + e - 1 = e + (Precision - 1)
        BY PrecisionAssumption, SMT
    <2>2. /\ Power(2, e + Precision) = u * Power(2, Precision)
          /\ Power(2, e + (Precision - 1)) = u * Power(2, Precision - 1)
        BY <2>1, PowerSum
    <2>3. u \in Nat /\ e < u
        BY PowerAbove
    <2> QED BY <2>1, <2>2, <2>3, PowerEquation, SMT
<1>2. b \in Nat /\ x % u \in 0 .. u - 1 /\ x = u * b + (x % u)
    BY <1>1, DivMod
<1> HIDE DEF b
<1>3. x < u * Power(2, Precision)
    BY <1>1 DEF Exponent
<1>4. e > 0 => u * Power(2, Precision - 1) <= x
    BY <1>1 DEF Exponent
<1> HIDE DEF u
<1>5. u * b \in Nat /\ u * b <= x /\ x < u * (b + 1)
    BY <1>1, <1>2, SMT
<1>6. b < Power(2, Precision)
    <2>1. u * b < u * Power(2, Precision)
        BY <1>1, <1>3, <1>5, SMT
    <2> QED BY <1>1, <1>2, <2>1, MultGrows
<1>7. ASSUME e > 0 PROVE Power(2, Precision - 1) <= b
    <2>1. u * Power(2, Precision - 1) \in Nat /\ u * (b + 1) \in Nat /\ b + 1 \in Nat
        BY <1>1, <1>2, SMT
    <2>2. u * Power(2, Precision - 1) < u * (b + 1)
        BY <1>4, <1>5, <1>7, <2>1, SMT
    <2>3. Power(2, Precision - 1) < b + 1
        BY <1>1, <2>1, <2>2, MultGrows
    <2> QED BY <1>1, <1>2, <2>3, SMT
<1> QED BY <1>2, <1>6, <1>7 DEF b, u

(* What is rounded is a float. *)
LEMMA RoundTwice ==
    ASSUME NEW x \in Nat
    PROVE  RoundMagnitude(x) \in Nat /\ RoundMagnitude(RoundMagnitude(x)) = RoundMagnitude(x)
<1>1. PICK e \in Nat : Exponent(x, e)
    BY ExponentExists
<1> DEFINE u == Power(2, e)
           b == x \div u
           most == Power(2, Precision)
<1>2. PICK m \in Nat : m \in {b, b + 1} /\ RoundMagnitude(x) = u * m
    BY <1>1, RoundNext
<1>3. b \in Nat /\ b < most /\ (e > 0 => Power(2, Precision - 1) <= b)
    BY <1>1, Mantissa
<1> HIDE DEF b
<1>4. /\ u \in Nat \ {0} /\ most \in Nat /\ Precision \in Nat /\ Precision - 1 \in Nat
      /\ Power(2, Precision - 1) \in Nat /\ Power(2, Precision + e) \in Nat
    <2>1. /\ u \in Nat /\ e < u
          /\ Precision \in Nat /\ Precision - 1 \in Nat /\ Precision + e \in Nat
        BY PowerAbove, PrecisionAssumption, SMT
    <2>2. most \in Nat /\ Power(2, Precision - 1) \in Nat /\ Power(2, Precision + e) \in Nat
        BY <2>1, PowerEquation
    <2> QED BY <2>1, <2>2, SMT
<1>5. u * m \in Nat
    BY <1>4, MultGrows
<1>6. /\ Power(2, Precision + e) = u * most
      /\ e > 0 => Power(2, Precision + e - 1) = u * Power(2, Precision - 1)
    <2>1. Precision + e = e + Precision /\ Precision + e - 1 = e + (Precision - 1)
        BY <1>4, SMT
    <2> QED BY <1>4, <2>1, PowerSum
<1>7. CASE m < most
    <2>1. u * m < u * most
        BY <1>4, <1>7, MultGrows
    <2>2. ASSUME e > 0 PROVE u * Power(2, Precision - 1) <= u * m
        <3>1. Power(2, Precision - 1) <= m
            BY <1>2, <1>3, <1>4, <2>2, SMT
        <3> QED BY <1>4, <3>1, MultGrows
    <2>3. Exponent(u * m, e)
        BY <1>6, <2>1, <2>2 DEF Exponent
    <2>4. RoundMagnitude(u * m) = u * m
        BY <2>3, RoundMultiple
    <2> QED BY <1>2, <1>5, <2>4
<1>8. CASE ~(m < most)
    <2>1. m = most
        BY <1>2, <1>3, <1>4, <1>8, SMT
    <2>2. u * m = Power(2, Precision + e)
        BY <1>6, <2>1
    <2>3. /\ Precision + (e + 1) - 1 = Precision + e /\ Precision + (e + 1) = (Precision + e) + 1
          /\ Precision + e = (e + 1) + (Precision - 1) /\ Precision + e \in Nat /\ e + 1 \in Nat
          /\ (Precision + e) < (Precision + e) + 1
        BY <1>4, SMT
    <2>4. u * m = Power(2, e + 1) * Power(2, Precision - 1)
        <3>1. Power(2, (e + 1) + (Precision - 1)) = Power(2, e + 1) * Power(2, Precision - 1)
            BY <1>4, <2>3, PowerSum
        <3> QED BY <2>2, <2>3, <3>1
    <2>5. Power(2, Precision + e) < Power(2, (Precision + e) + 1)
        BY <2>3, PowerGrows
    <2>6. Exponent(u * m, e + 1)
        <3>1. Power(2, Precision + e) <= Power(2, Precision + e)
            BY <1>4, SMT
        <3> QED BY <2>2, <2>3, <2>5, <3>1 DEF Exponent
    <2>7. RoundMagnitude(u * m) = u * m
        BY <1>4, <2>3, <2>4, <2>6, RoundMultiple
    <2> QED BY <1>2, <1>5, <2>7
<1> QED BY <1>7, <1>8

(* The last float from which a step of 2^e leads to another one: a step    *)
(* from there rounds back.                                                 *)
LEMMA RoundBack ==
    ASSUME NEW e \in Nat, NEW r \in 0 .. Power(2, e)
    PROVE  RoundMagnitude(Power(2, Precision + e) + r) = Power(2, Precision + e)
<1> DEFINE half == Power(2, e)
           u == Power(2, e + 1)
           q == Power(2, Precision - 1)
           x == Power(2, Precision + e) + r
<1>1. /\ Precision \in Nat /\ Precision - 1 \in Nat /\ Precision - 2 \in Nat /\ e + 1 \in Nat
      /\ Precision - 1 = (Precision - 2) + 1 /\ Precision + e \in Nat
      /\ Precision + e = (e + 1) + (Precision - 1) /\ Precision + (e + 1) - 1 = Precision + e
      /\ Precision + (e + 1) = (Precision + e) + 1 /\ e < Precision + e
    BY PrecisionAssumption, SMT
<1>2. /\ half \in Nat \ {0} /\ u = 2 * half /\ u \in Nat \ {0} /\ q \in Nat
      /\ q = 2 * Power(2, Precision - 2) /\ Power(2, Precision - 2) \in Nat
    <2>1. half \in Nat /\ e < half
        BY PowerAbove
    <2>2. u = 2 * half /\ q \in Nat /\ q = 2 * Power(2, Precision - 2) /\ Power(2, Precision - 2) \in Nat
        BY <1>1, PowerEquation
    <2> QED BY <2>1, <2>2, SMT
<1>3. Power(2, Precision + e) = u * q /\ u * q \in Nat /\ Power(2, Precision + (e + 1)) = 2 * (u * q)
    <2>1. Power(2, (e + 1) + (Precision - 1)) = u * q
        BY <1>1, PowerSum
    <2>2. Power(2, (Precision + e) + 1) = 2 * Power(2, Precision + e)
        BY <1>1, PowerEquation
    <2>3. u * q \in Nat
        BY <1>2, SMT
    <2> QED BY <1>1, <2>1, <2>2, <2>3
<1>4. half < u * q
    BY <1>1, <1>3, PowerGrows
<1>5. r \in Nat /\ r <= half
    BY <1>2
<1> HIDE DEF half, u, q
<1>6. x = u * q + r /\ x \in Nat /\ x < 2 * (u * q) /\ u * q <= x /\ r \in 0 .. u - 1
    BY <1>2, <1>3, <1>4, <1>5, SMT
<1>7. x \div u = q /\ x % u = r
    <2>1. (u * q + r) \div u = q /\ (u * q + r) % u = r
        BY <1>2, <1>6, DivUnique
    <2> HIDE DEF x
    <2> QED BY <1>6, <2>1
<1>8. Ulp(x) = u
    <2>1. Exponent(x, e + 1)
        BY <1>1, <1>3, <1>6 DEF Exponent
    <2> QED BY <1>1, <1>6, <2>1, UlpOfExponent DEF u
<1> HIDE DEF x
<1>9. q % 2 # 1
    BY <1>2, SMT
<1>10. ~(2 * (x % u) > u)
    BY <1>2, <1>5, <1>7, SMT
<1>11. RoundMagnitude(x) = u * q
    BY <1>7, <1>8, <1>9, <1>10, Zenon DEF RoundMagnitude
<1> QED BY <1>3, <1>11 DEF x

(* A step of at most 2^e never leads beyond it. *)
LEMMA RoundBelow ==
    ASSUME NEW x \in Nat, NEW e \in Nat, x <= Power(2, Precision + e) + Power(2, e)
    PROVE  RoundMagnitude(x) \in 0 .. Power(2, Precision + e)
<1> DEFINE bound == Power(2, Precision + e)
<1>1. bound \in Nat /\ Power(2, e) \in Nat /\ Precision \in Nat /\ Precision + e \in Nat
    BY PrecisionAssumption, PowerEquation, SMT
<1>2. CASE bound <= x
    <2>1. x - bound \in 0 .. Power(2, e) /\ x = bound + (x - bound)
        BY <1>1, <1>2, SMT
    <2>2. RoundMagnitude(x) = bound
        BY <2>1, RoundBack
    <2> QED BY <1>1, <2>2, SMT
<1>3. CASE ~(bound <= x)
    <2>1. PICK k \in Nat : Exponent(x, k)
        BY ExponentExists
    <2>2. k <= e
        <3> SUFFICES ASSUME k > e PROVE FALSE
            BY SMT
        <3>1. Precision + k - 1 \in Nat /\ k > 0 /\ Precision + e <= Precision + k - 1
            BY <1>1, SMT
        <3>2. bound <= Power(2, Precision + k - 1) /\ Power(2, Precision + k - 1) \in Nat
            BY <1>1, <3>1, PowerGrows, PowerEquation
        <3>3. Power(2, Precision + k - 1) <= x
            BY <2>1, <3>1 DEF Exponent
        <3> QED BY <1>1, <1>3, <3>2, <3>3, SMT
    <2> DEFINE u == Power(2, k)
    <2>3. PICK m \in Nat : m \in {x \div u, x \div u + 1} /\ RoundMagnitude(x) = u * m
        BY <2>1, RoundNext
    <2>4. x \div u \in Nat /\ x \div u < Power(2, Precision)
        BY <2>1, Mantissa
    <2>5. m <= Power(2, Precision) /\ Power(2, Precision) \in Nat /\ u \in Nat \ {0}
        <3>1. Power(2, Precision) \in Nat /\ u \in Nat /\ k < u
            BY <1>1, PowerAbove
        <3> QED BY <2>3, <2>4, <3>1, SMT
    <2>6. u * m <= u * Power(2, Precision) /\ u * m \in Nat
        BY <2>5, MultGrows
    <2>7. u * Power(2, Precision) = Power(2, k + Precision)
        BY <1>1, PowerSum
    <2>8. Power(2, k + Precision) <= bound /\ Power(2, k + Precision) \in Nat
        <3>1. k + Precision \in Nat /\ k + Precision <= Precision + e
            BY <1>1, <2>2, SMT
        <3> QED BY <1>1, <3>1, PowerGrows, PowerEquation
    <2> HIDE DEF u
    <2> QED BY <1>1, <2>3, <2>6, <2>7, <2>8, SMT
<1> QED BY <1>2, <1>3

(* From a float below it, a step of more than half of 2^e leads on. *)
LEMMA RoundOn ==
    ASSUME NEW t \in Nat, RoundMagnitude(t) = t, NEW e \in Nat, t < Power(2, Precision + e),
           NEW d \in Nat \ {0}, e > 0 => Power(2, e - 1) < d
    PROVE  RoundMagnitude(t + d) > t
<1>1. PICK k \in Nat : Exponent(t, k)
    BY ExponentExists
<1> DEFINE u == Power(2, k)
<1>2. /\ u \in Nat \ {0} /\ Precision \in Nat \ {0} /\ Precision - 1 \in Nat /\ Precision + e \in Nat
      /\ Precision + k \in Nat
    <2>1. u \in Nat /\ k < u
        BY PowerAbove
    <2> QED BY <2>1, PrecisionAssumption, SMT
<1>3. k <= e
    <2> SUFFICES ASSUME k > e PROVE FALSE
        BY SMT
    <2>1. Precision + k - 1 \in Nat /\ k > 0 /\ Precision + e <= Precision + k - 1
        BY <1>2, SMT
    <2>2. /\ Power(2, Precision + e) <= Power(2, Precision + k - 1)
          /\ Power(2, Precision + e) \in Nat /\ Power(2, Precision + k - 1) \in Nat
        BY <1>2, <2>1, PowerGrows, PowerEquation
    <2>3. Power(2, Precision + k - 1) <= t
        BY <1>1, <2>1 DEF Exponent
    <2> QED BY <2>2, <2>3, SMT
<1>4. PICK m \in Nat : t = u * m
    BY <1>1, RoundNext
<1>5. k > 0 => u < 2 * d
    <2> SUFFICES ASSUME k > 0 PROVE u < 2 * d
        OBVIOUS
    <2>1. k - 1 \in Nat /\ e - 1 \in Nat /\ k - 1 <= e - 1 /\ e > 0 /\ (k - 1) + 1 = k
        BY <1>3, SMT
    <2>2. Power(2, k - 1) <= Power(2, e - 1) /\ Power(2, k - 1) \in Nat /\ Power(2, e - 1) \in Nat
        BY <2>1, PowerGrows, PowerEquation
    <2>3. u = 2 * Power(2, k - 1)
        BY <2>1, PowerEquation
    <2> HIDE DEF u
    <2> QED BY <2>1, <2>2, <2>3, SMT
<1>6. PICK j \in Nat : Exponent(t + d, j)
    <2>1. t + d \in Nat
        BY SMT
    <2> QED BY <2>1, ExponentExists
<1> DEFINE w == Power(2, j)
           b == (t + d) \div w
           n == RoundMagnitude(t + d)
<1>7. PICK q \in Nat : q \in {b, b + 1} /\ n = w * q
    <2>1. t + d \in Nat
        BY SMT
    <2> QED BY <1>6, <2>1, RoundNext
<1>8. w \in Nat \ {0} /\ b \in Nat /\ w * b <= n /\ w * b \in Nat /\ n \in Nat
    <2>1. w \in Nat /\ j < w
        BY PowerAbove
    <2>2. t + d \in Nat /\ w \in Nat \ {0}
        BY <2>1, SMT
    <2>3. b \in Nat
        BY <2>2, DivMod
    <2> HIDE DEF w, b
    <2>4. b <= q
        BY <1>7, <2>3, SMT
    <2>5. w * b <= w * q /\ w * b \in Nat /\ w * q \in Nat
        BY <2>2, <2>3, <2>4, MultGrows
    <2> QED BY <1>7, <2>2, <2>3, <2>5
<1>9. CASE j > k
    <2>1. /\ Precision + j - 1 = j + (Precision - 1) /\ Precision + j - 1 \in Nat /\ j > 0
          /\ Precision + k <= Precision + j - 1
        BY <1>2, <1>9, SMT
    <2>2. Power(2, Precision + k) <= Power(2, Precision + j - 1)
        BY <1>2, <2>1, PowerGrows
    <2>3. Power(2, Precision + j - 1) = w * Power(2, Precision - 1) /\ Power(2, Precision - 1) \in Nat
        <3>1. Power(2, j + (Precision - 1)) = w * Power(2, Precision - 1)
            BY <1>2, PowerSum
        <3> QED BY <1>2, <2>1, <3>1, PowerEquation
    <2>4. Power(2, Precision - 1) <= b
        <3>1. t + d \in Nat
            BY SMT
        <3> QED BY <1>6, <2>1, <3>1, Mantissa
    <2> HIDE DEF w, b, n
    <2>5. w * Power(2, Precision - 1) <= w * b
        BY <1>8, <2>3, <2>4, MultGrows
    <2>6. t < Power(2, Precision + k) /\ Power(2, Precision + k) \in Nat /\ w * Power(2, Precision - 1) \in Nat
        BY <1>1, <1>2, <1>8, <2>3, PowerEquation, MultGrows DEF Exponent
    <2> QED BY <1>8, <2>2, <2>3, <2>5, <2>6, SMT DEF n
<1>10. CASE j = k
    <2>1. w = u
        BY <1>10
    <2> HIDE DEF w
    <2>2. u * (m + 1) = t + u /\ u * (m + 1) \in Nat /\ m + 1 \in Nat
        <3> HIDE DEF u
        <3> QED BY <1>2, <1>4, SMT
    <2>3. CASE u <= d
        <3>1. (t + d) % u \in 0 .. u - 1 /\ t + d = u * b + ((t + d) % u)
            <4>1. t + d \in Nat
                BY SMT
            <4> QED BY <1>2, <2>1, <4>1, DivMod
        <3> HIDE DEF b, u
        <3>2. u * (b + 1) = u * b + u /\ b + 1 \in Nat /\ u * (b + 1) \in Nat
            BY <1>2, <1>8, <2>1, SMT
        <3>3. u * (m + 1) < u * (b + 1)
            BY <1>2, <1>8, <2>1, <2>2, <2>3, <3>1, <3>2, SMT
        <3>4. m + 1 < b + 1
            BY <1>2, <2>2, <3>2, <3>3, MultGrows
        <3>5. m + 1 <= b
            BY <1>8, <3>4, SMT
        <3>6. u * (m + 1) <= u * b
            BY <1>2, <1>8, <2>2, <3>5, MultGrows
        <3> HIDE DEF n
        <3> QED BY <1>2, <1>8, <2>1, <2>2, <3>6, SMT DEF n
    <2>4. CASE ~(u <= d)
        <3>1. k > 0 /\ d \in 0 .. u - 1
            <4>1. k = 0 => u = 1
                BY PowerEquation
            <4> HIDE DEF u
            <4> QED BY <1>2, <2>4, <4>1, SMT
        <3>2. (t + d) \div u = m /\ (t + d) % u = d
            <4>1. (u * m + d) \div u = m /\ (u * m + d) % u = d
                BY <1>2, <3>1, DivUnique
            <4> QED BY <1>4, <4>1
        <3>3. Ulp(t + d) = u
            <4>1. t + d \in Nat
                BY SMT
            <4> QED BY <1>6, <1>10, <4>1, UlpOfExponent
        <3>4. 2 * ((t + d) % u) > u
            <4> HIDE DEF u
            <4> QED BY <1>2, <1>5, <3>1, <3>2, SMT
        <3>5. n = u * (m + 1)
            BY <3>2, <3>3, <3>4, Zenon DEF RoundMagnitude
        <3> HIDE DEF n, u
        <3> QED BY <1>2, <2>2, <3>5, SMT DEF n
    <2> QED BY <2>3, <2>4
<1>11. ~(j < k)
    <2> SUFFICES ASSUME j < k PROVE FALSE
        OBVIOUS
    <2>1. Precision + j \in Nat /\ Precision + k - 1 \in Nat /\ k > 0 /\ Precision + j <= Precision + k - 1
        BY <1>2, SMT
    <2>2. /\ Power(2, Precision + j) <= Power(2, Precision + k - 1)
          /\ Power(2, Precision + j) \in Nat /\ Power(2, Precision + k - 1) \in Nat
        BY <2>1, PowerGrows, PowerEquation
    <2>3. Power(2, Precision + k - 1) <= t /\ t + d < Power(2, Precision + j)
        BY <1>1, <1>6, <2>1 DEF Exponent
    <2> QED BY <2>2, <2>3, SMT
<1>12. j > k \/ j = k
    BY <1>11, SMT
<1> QED BY <1>9, <1>10, <1>12

LEMMA RoundZero == RoundMagnitude(0) = 0 /\ RoundFloat(0) = 0
<1>1. Precision + 0 \in Nat
    BY PrecisionAssumption
<1>2. Power(2, Precision + 0) \in Nat /\ Precision + 0 < Power(2, Precision + 0) /\ Power(2, 0) \in Nat
    BY <1>1, PowerAbove
<1>3. Power(2, 0) * 0 = 0 /\ 0 < Power(2, Precision + 0)
    BY <1>1, <1>2, SMT
<1>4. Exponent(0, 0)
    BY <1>3, SMT DEF Exponent
<1>5. RoundMagnitude(0) = 0
    BY <1>3, <1>4, RoundMultiple
<1> QED BY <1>5, SMT DEF RoundFloat

(* One step of the time, forwards or backwards *)
LEMMA TimeAfterInt ==
    ASSUME NEW x \in Int, NEW dt \in Int
    PROVE  /\ TimeAfter(x, dt) \in Int /\ RoundFloat(TimeAfter(x, dt)) = TimeAfter(x, dt)
           /\ x + dt >= 0 => TimeAfter(x, dt) = RoundMagnitude(x + dt)
           /\ x + dt <= 0 => TimeAfter(x, dt) <= 0
<1> DEFINE y == x + dt
<1>1. y \in Int /\ TimeAfter(x, dt) = RoundFloat(y)
    BY SMT DEF TimeAfter
<1> HIDE DEF y
<1>2. CASE y >= 0
    <2>1. y \in Nat /\ RoundFloat(y) = RoundMagnitude(y)
        BY <1>1, <1>2, SMT DEF RoundFloat
    <2>2. RoundMagnitude(y) \in Nat /\ RoundMagnitude(RoundMagnitude(y)) = RoundMagnitude(y)
        BY <2>1, RoundTwice
    <2>3. RoundFloat(RoundMagnitude(y)) = RoundMagnitude(y)
        BY <2>2, SMT DEF RoundFloat
    <2>4. y <= 0 => RoundMagnitude(y) = 0
        BY <2>1, RoundZero, SMT
    <2> QED BY <1>1, <2>1, <2>2, <2>3, <2>4, SMT DEF y
<1>3. CASE ~(y >= 0)
    <2>1. -y \in Nat /\ RoundFloat(y) = -RoundMagnitude(-y)
        BY <1>1, <1>3, SMT DEF RoundFloat
    <2> DEFINE z == RoundMagnitude(-y)
    <2>2. z \in Nat /\ RoundMagnitude(z) = z
        BY <2>1, RoundTwice
    <2> HIDE DEF z
    <2>3. RoundFloat(-z) = -z
        <3>1. CASE z <= 0
            <4>1. -z = z /\ z = 0
                BY <2>2, <3>1, SMT
            <4> QED BY <4>1, RoundZero
        <3>2. CASE z > 0
            <4>1. ~(-z >= 0) /\ -(-z) = z
                BY <2>2, <3>2, SMT
            <4> QED BY <2>2, <4>1 DEF RoundFloat
        <3> QED BY <2>2, <3>1, <3>2, SMT
    <2>4. -z \in Int /\ -z <= 0 /\ RoundFloat(y) = -z
        BY <2>1, <2>2, SMT DEF z
    <2> QED BY <1>1, <1>3, <2>3, <2>4 DEF y
<1> QED BY <1>2, <1>3
-----------------------------------------------------------------------------
(* What loadInput has read of the first n arguments *)

GivenBy(name, n) == {a \in 1 .. n : args[a].name = name}

(* The last one is there: the set is finite, and grows by its greatest element. *)
HasLast(name, n) == GivenBy(name, n) = {} \/ \E a \in GivenBy(name, n) : \A b \in GivenBy(name, n) : b <= a

Given(name, field, n, default) ==
    LET a == LastGiven(name, n) IN IF a = 0 THEN default ELSE args[a][field]

SettingsOf(s, n) ==
    /\ s.nDoms = Given("nd", "val", n, Defaults.nDoms)
    /\ s.dt = Given("dt", "fval", n, Defaults.dt)
    /\ s.tlim = Given("tl", "fval", n, Defaults.tlim)
    /\ LET a == LastGiven("np", n) IN
       IF a = 0 THEN s.numBodies = Defaults.numBodies
       ELSE /\ s.numBodies % 32 = 0
            /\ args[a].val > 0 => s.numBodies \in args[a].val .. args[a].val + 31

Read ==
    \A r \in AllRanks :
        /\ \A name : HasLast(name, ai[r] - 1)
        /\ WellFormed => SettingsOf(settings[r], ai[r] - 1)

(* The ranks that are past init have read all arguments. *)
Placed ==
    \A r \in AllRanks : SetUp(r) => ai[r] = Len(args) + 1

(* How far the other ranks are when one has begun, and when it has ended *)
Begun ==
    \A r \in AllRanks : \A q \in Ranks :
        /\ pc[r] \in {"run", "done"} => pc[q] # "load"
        /\ time[r] # 0 => pc[r] \notin {"load", "ready"} /\ pc[q] # "load"
        /\ (pc[r] = "exited" /\ time[r] # 0) => pc[q] \notin {"load", "ready", "run"}

(* A time that may come of adding dt to 0 again and again, while it is     *)
(* below the limit                                                         *)
TimeOf(t, s) ==
    /\ RoundFloat(t) = t
    /\ t # 0 => s.tlim > 0
    /\ s.dt <= 0 => t <= 0
    /\ s.dt > 0 => \A e \in Nat : Power(2, e) >= s.dt => t \in 0 .. Power(2, Precision + e)

Timed ==
    \A r \in AllRanks :
        /\ TimeOf(time[r], settings[r])
        /\ (pc[r] \in {"done", "exited"} /\ time[r] # 0) => settings[r].tlim <= time[r]

WorldInv == TypeOK /\ Read /\ Placed /\ Begun /\ Timed

LEMMA TimeOfStart == ASSUME NEW s \in Settings PROVE TimeOf(0, s)
<1>1. s.dt \in Int
    BY DEF Settings
<1>2. ASSUME NEW e \in Nat PROVE 0 \in 0 .. Power(2, Precision + e)
    <2>1. Precision + e \in Nat
        BY PrecisionAssumption
    <2>2. Power(2, Precision + e) \in Nat
        BY <2>1, PowerEquation
    <2> QED BY <2>2, SMT
<1> QED BY <1>1, <1>2, RoundZero, SMT DEF TimeOf

LEMMA TimeOfStep ==
    ASSUME NEW s \in Settings, NEW t \in Int, TimeOf(t, s), t < s.tlim
    PROVE  TimeAfter(t, s.dt) \in Int /\ TimeOf(TimeAfter(t, s.dt), s)
<1> DEFINE next == TimeAfter(t, s.dt)
<1>1. s.dt \in Int /\ s.tlim \in Int
    BY DEF Settings
<1>2. /\ next \in Int /\ RoundFloat(next) = next
      /\ t + s.dt >= 0 => next = RoundMagnitude(t + s.dt)
      /\ t + s.dt <= 0 => next <= 0
    BY <1>1, TimeAfterInt
<1> HIDE DEF next
<1>3. s.tlim > 0
    BY <1>1, SMT DEF TimeOf
<1>4. s.dt <= 0 => next <= 0
    BY <1>1, <1>2, SMT DEF TimeOf
<1>5. ASSUME s.dt > 0, NEW e \in Nat, Power(2, e) >= s.dt PROVE next \in 0 .. Power(2, Precision + e)
    <2>1. Precision + e \in Nat
        BY PrecisionAssumption
    <2>2. Power(2, e) \in Nat /\ Power(2, Precision + e) \in Nat
        BY <2>1, PowerEquation
    <2>3. t \in 0 .. Power(2, Precision + e)
        BY <1>5 DEF TimeOf
    <2>4. t + s.dt \in Nat /\ t + s.dt >= 0 /\ t + s.dt <= Power(2, Precision + e) + Power(2, e)
        BY <1>1, <1>5, <2>2, <2>3, SMT
    <2> QED BY <1>2, <2>4, RoundBelow
<1> QED BY <1>2, <1>3, <1>4, <1>5 DEF TimeOf, next

LEMMA LastGivenNext ==
    ASSUME NEW name, NEW n \in Nat, HasLast(name, n)
    PROVE  /\ HasLast(name, n + 1)
           /\ LastGiven(name, n + 1) = IF args[n + 1].name = name THEN n + 1 ELSE LastGiven(name, n)
           /\ LastGiven(name, n) \in 0 .. n
           /\ LastGiven(name, n) # 0 => LastGiven(name, n) \in GivenBy(name, n)
<1> DEFINE old == GivenBy(name, n)
           new == GivenBy(name, n + 1)
<1>1. new = old \cup (IF args[n + 1].name = name THEN {n + 1} ELSE {})
    BY SMT DEF GivenBy
<1>2. \A a \in old : a \in Nat /\ a <= n /\ a >= 1
    BY SMT DEF GivenBy
<1>3. /\ LastGiven(name, n) = IF old = {} THEN 0 ELSE CHOOSE a \in old : \A b \in old : b <= a
      /\ LastGiven(name, n + 1) = IF new = {} THEN 0 ELSE CHOOSE a \in new : \A b \in new : b <= a
    BY DEF LastGiven, GivenBy
<1>4. old = {} \/ \E a \in old : \A b \in old : b <= a
    BY DEF HasLast
<1>5. LastGiven(name, n) = 0 <=> old = {}
    <2>1. 0 \notin old
        BY <1>2, SMT
    <2>2. old # {} => (CHOOSE a \in old : \A b \in old : b <= a) \in old
        BY <1>4, Zenon
    <2> HIDE DEF old
    <2> QED BY <1>3, <2>1, <2>2, Zenon
<1> HIDE DEF old, new
<1>6. CASE args[n + 1].name = name
    <2>1. n + 1 \in new /\ \A b \in new : b <= n + 1 /\ b \in Nat
        BY <1>1, <1>2, <1>6, SMT
    <2>2. \A a \in new : (\A b \in new : b <= a) => a = n + 1
        BY <2>1, SMT
    <2>3. LastGiven(name, n + 1) = n + 1
        BY <1>3, <2>1, <2>2, Zenon
    <2> QED BY <1>2, <1>3, <1>4, <1>6, <2>1, <2>3 DEF HasLast, new, old
<1>7. CASE args[n + 1].name # name
    <2>1. new = old
        BY <1>1, <1>7
    <2> QED BY <1>2, <1>3, <1>4, <1>7, <2>1 DEF HasLast, new, old
<1> QED BY <1>6, <1>7

LEMMA ScanFields ==
    ASSUME NEW old \in Variables, NEW arg \in Scans, NEW at, at = Scan(old, arg)
    PROVE  /\ at \in Variables
           /\ at.name = IF arg.name = NoMatch THEN old.name ELSE arg.name
           /\ at.val = IF arg.val = NoMatch THEN old.val ELSE arg.val
           /\ at.fval = IF arg.fval = NoMatch THEN old.fval ELSE arg.fval
<1>1. DOMAIN arg = {"name", "val", "fval"}
    BY DEF Scans
<1>2. /\ DOMAIN at = {"name", "val", "fval"}
      /\ at.name = IF arg.name = NoMatch THEN old.name ELSE arg.name
      /\ at.val = IF arg.val = NoMatch THEN old.val ELSE arg.val
      /\ at.fval = IF arg.fval = NoMatch THEN old.fval ELSE arg.fval
    BY <1>1 DEF Scan
<1>3. at = [name |-> at.name, val |-> at.val, fval |-> at.fval]
    BY <1>1, <1>2 DEF Scan
<1>4. at.name \in STRING /\ at.val \in Int /\ at.fval \in Int
    BY <1>2 DEF Scans, Variables
<1> QED BY <1>2, <1>3, <1>4 DEF Variables

LEMMA AssignFields ==
    ASSUME NEW s \in Settings, NEW at \in Variables, NEW t, t = Assign(s, at)
    PROVE  /\ t \in Settings
           /\ t.numBodies = IF at.name = "np" THEN RoundBodies(at.val) ELSE s.numBodies
           /\ t.nDoms = IF at.name = "nd" THEN at.val ELSE s.nDoms
           /\ t.dt = IF at.name = "dt" THEN at.fval ELSE s.dt
           /\ t.tlim = IF at.name = "tl" THEN at.fval ELSE s.tlim
<1>1. RoundBodies(at.val) \in Int /\ at.val \in Int /\ at.fval \in Int
    BY RoundBodiesUp DEF Variables
<1> QED BY <1>1 DEF Assign, Settings

(* One more argument *)
LEMMA SettingsOfNext ==
    ASSUME NEW s \in Settings, NEW n \in Nat, NEW arg, arg = args[n + 1], arg \in Scans,
           NEW at \in Variables, NEW t, t = Assign(s, at),
           at.name = arg.name,
           at.name \in {"np", "nd"} => at.val = arg.val,
           at.name \in {"dt", "tl"} => at.fval = arg.fval,
           \A name : HasLast(name, n), SettingsOf(s, n)
    PROVE  SettingsOf(t, n + 1)
<1>1. \A name : LastGiven(name, n + 1) = IF arg.name = name THEN n + 1 ELSE LastGiven(name, n)
    BY LastGivenNext
<1>2. n + 1 # 0
    BY SMT
<1>3. \A name, field, default :
          Given(name, field, n + 1, default) =
              IF arg.name = name THEN arg[field] ELSE Given(name, field, n, default)
    BY <1>1, <1>2, Zenon DEF Given
<1>4. /\ t.nDoms = Given("nd", "val", n + 1, Defaults.nDoms)
      /\ t.dt = Given("dt", "fval", n + 1, Defaults.dt)
      /\ t.tlim = Given("tl", "fval", n + 1, Defaults.tlim)
    BY <1>3, AssignFields DEF SettingsOf
<1>5. CASE arg.name = "np"
    <2>1. LastGiven("np", n + 1) = n + 1 /\ t.numBodies = RoundBodies(arg.val) /\ arg.val \in Int
        BY <1>1, <1>5, AssignFields DEF Variables
    <2>2. /\ t.numBodies % 32 = 0
          /\ arg.val > 0 => t.numBodies \in arg.val .. arg.val + 31
        BY <2>1, RoundBodiesUp
    <2> QED BY <1>2, <1>4, <2>1, <2>2 DEF SettingsOf
<1>6. CASE arg.name # "np"
    <2>1. LastGiven("np", n + 1) = LastGiven("np", n) /\ t.numBodies = s.numBodies
        BY <1>1, <1>6, AssignFields
    <2> QED BY <1>4, <2>1 DEF SettingsOf
<1> QED BY <1>5, <1>6

-----------------------------------------------------------------------------
LEMMA RanksInAll == ASSUME TypeOK PROVE Ranks \subseteq AllRanks /\ Ranks # {}
<1>1. n_proc \in 1 .. MaxProcs /\ MaxProcs \in Nat
    BY WorldAssumption DEF TypeOK
<1> QED BY <1>1, SMT DEF Ranks, AllRanks

LEMMA WorldInvInit == Init => WorldInv
<1> SUFFICES ASSUME Init PROVE WorldInv
    OBVIOUS
<1> USE DEF Init
<1>1. args \in Seq(Scans) /\ Len(args) \in Nat
    BY WorldAssumption, LenProperties
<1>2. TypeOK
    <2>1. 1 \in 1 .. Len(args) + 1
        BY <1>1, SMT
    <2> QED BY <2>1, WorldAssumption, SMT DEF TypeOK
<1>3. \A name : GivenBy(name, 0) = {}
    BY SMT DEF GivenBy
<1>4. Read
    <2> SUFFICES ASSUME NEW r \in AllRanks
                 PROVE  (\A name : HasLast(name, 0)) /\ SettingsOf(Defaults, 0)
        BY SMT DEF Read
    <2>1. \A name : HasLast(name, 0) /\ LastGiven(name, 0) = 0
        BY <1>3, Zenon DEF HasLast, LastGiven, GivenBy
    <2> QED BY <2>1 DEF SettingsOf, Given
<1>5. Placed /\ Begun
    BY SMT DEF Placed, SetUp, Begun
<1>6. Timed
    BY WorldAssumption, TimeOfStart DEF Timed
<1> QED BY <1>2, <1>4, <1>5, <1>6 DEF WorldInv

(* A step after loadInput changes nothing that has been read. *)
LEMMA ReadSame ==
    ASSUME UNCHANGED args
    PROVE  /\ WellFormed' = WellFormed /\ \A name, n : HasLast(name, n)' = HasLast(name, n)
           /\ \A s, n : SettingsOf(s, n)' = SettingsOf(s, n)
<1>1. \A name, n : GivenBy(name, n)' = GivenBy(name, n)
    BY DEF GivenBy
<1>2. ASSUME NEW name, NEW n PROVE LastGiven(name, n)' = LastGiven(name, n)
    <2>1. ASSUME NEW G, NEW H, G = H
          PROVE  (IF G = {} THEN 0 ELSE CHOOSE a \in G : \A b \in G : b <= a)
                     = (IF H = {} THEN 0 ELSE CHOOSE a \in H : \A b \in H : b <= a)
        BY <2>1
    <2> QED BY <1>1, <2>1 DEF LastGiven, GivenBy
<1>3. WellFormed' = WellFormed
    BY DEF WellFormed
<1>4. \A name, n : HasLast(name, n)' = HasLast(name, n)
    BY <1>1, Zenon DEF HasLast
<1>5. \A s, n : SettingsOf(s, n)' = SettingsOf(s, n)
    BY <1>2, Zenon DEF SettingsOf, Given
<1> QED BY <1>3, <1>4, <1>5

LEMMA ReadKept == ASSUME Read, UNCHANGED <<job, setup>> PROVE Read'
BY ReadSame DEF Read, job, setup

LEMMA TimedKept ==
    ASSUME Timed, UNCHANGED <<settings, time>>,
           \A r \in AllRanks : (pc'[r] \in {"done", "exited"} /\ time[r] # 0) =>
               pc[r] \in {"done", "exited"} \/ settings[r].tlim <= time[r]
    PROVE  Timed'
BY DEF Timed, TimeOf

LEMMA LoadArgKeeps == ASSUME WorldInv, NEW r \in Ranks, LoadArg(r) PROVE WorldInv'
<1> USE DEF WorldInv, job
<1> DEFINE arg == args[ai[r]]
<1>1. /\ r \in AllRanks /\ args \in Seq(Scans) /\ ai[r] \in Nat \ {0} /\ ai[r] - 1 \in Nat
      /\ Len(args) \in Nat /\ ai[r] \in 1 .. Len(args) /\ pc[r] = "load" /\ UNCHANGED <<job, time, listener, visualizer>>
    <2>1. r \in AllRanks /\ args \in Seq(Scans) /\ ai[r] \in 1 .. Len(args) + 1
        BY RanksInAll, WorldAssumption DEF TypeOK
    <2>2. Len(args) \in Nat
        BY <2>1, LenProperties
    <2>3. ai[r] <= Len(args) /\ pc[r] = "load" /\ UNCHANGED <<job, time, listener, visualizer>>
        BY DEF LoadArg
    <2> QED BY <2>1, <2>2, <2>3, SMT
<1>2. arg \in Scans
    BY <1>1, ElementOfSeq
<1>3. CASE Goto(r, "exited") /\ UNCHANGED setup
    <2>1. pc' = [pc EXCEPT ![r] = "exited"] /\ UNCHANGED <<ai, scanned, settings>>
        BY <1>3 DEF Goto, setup
    <2>2. TypeOK'
        BY <1>1, <2>1 DEF TypeOK, AllRanks
    <2>3. Read'
        BY <1>1, <1>3, ReadKept
    <2>4. Placed'
        BY <1>1, <2>1, SMT DEF Placed, SetUp, TypeOK
    <2>5. Begun'
        BY <1>1, <2>1, SMT DEF Begun, TypeOK, Ranks
    <2>6. Timed'
        <3>1. \A q \in AllRanks : q # r => pc'[q] = pc[q]
            BY <2>1 DEF TypeOK
        <3>2. time[r] = 0
            BY <1>1 DEF Begun
        <3> QED BY <1>1, <2>1, <3>1, <3>2, TimedKept
    <2> QED BY <2>2, <2>3, <2>4, <2>5, <2>6
<1>4. CASE /\ scanned' = [scanned EXCEPT ![r] = Scan(@, args[ai[r]])]
           /\ settings' = [settings EXCEPT ![r] = Assign(@, scanned'[r])]
           /\ ai' = [ai EXCEPT ![r] = @ + 1]
           /\ UNCHANGED pc
    <2> DEFINE at == scanned'[r]
               t == settings'[r]
    <2>1. scanned[r] \in Variables /\ settings[r] \in Settings
        BY <1>1 DEF TypeOK
    <2>2. at = Scan(scanned[r], arg) /\ t = Assign(settings[r], at) /\ ai'[r] = ai[r] + 1
        BY <1>1, <1>4 DEF TypeOK
    <2>3. /\ at \in Variables
          /\ at.name = IF arg.name = NoMatch THEN scanned[r].name ELSE arg.name
          /\ at.val = IF arg.val = NoMatch THEN scanned[r].val ELSE arg.val
          /\ at.fval = IF arg.fval = NoMatch THEN scanned[r].fval ELSE arg.fval
        BY <1>2, <2>1, <2>2, ScanFields
    <2>4. t \in Settings
        BY <2>1, <2>2, <2>3, AssignFields
    <2>5. \A q \in AllRanks : q # r => ai'[q] = ai[q] /\ settings'[q] = settings[q]
        BY <1>4 DEF TypeOK
    <2>6. TypeOK'
        <3>1. ai[r] + 1 \in 1 .. Len(args) + 1
            BY <1>1, SMT
        <3>2. ai' \in [AllRanks -> 1 .. Len(args) + 1]
            BY <1>1, <1>4, <3>1 DEF TypeOK
        <3>3. scanned' \in [AllRanks -> Variables] /\ settings' \in [AllRanks -> Settings]
            BY <1>1, <1>4, <2>3, <2>4, Zenon DEF TypeOK
        <3> QED BY <1>1, <1>4, <3>2, <3>3 DEF TypeOK
    <2>7. Read'
        <3>1. \A name : HasLast(name, ai[r] - 1) /\ HasLast(name, ai[r])
            <4>1. ai[r] - 1 + 1 = ai[r] /\ \A name : HasLast(name, ai[r] - 1)
                BY <1>1, SMT DEF Read
            <4> QED BY <1>1, <4>1, LastGivenNext
        <3>2. WellFormed => SettingsOf(t, ai[r])
            <4> SUFFICES ASSUME WellFormed PROVE SettingsOf(t, ai[r])
                OBVIOUS
            <4>1. /\ arg.name # NoMatch
                  /\ arg.name \in {"np", "nd"} => arg.val # NoMatch
                  /\ arg.name \in {"dt", "tl"} => arg.fval # NoMatch
                BY <1>1 DEF WellFormed
            <4>2. at.name = arg.name
                BY <2>3, <4>1
            <4>3. at.name \in {"np", "nd"} => at.val = arg.val
                BY <2>3, <4>1, <4>2
            <4>4. at.name \in {"dt", "tl"} => at.fval = arg.fval
                BY <2>3, <4>1, <4>2
            <4>5. ai[r] - 1 + 1 = ai[r]
                BY <1>1, SMT
            <4>6. SettingsOf(settings[r], ai[r] - 1)
                BY <1>1 DEF Read
            <4> HIDE DEF arg, at, t
            <4>7. arg = args[ai[r] - 1 + 1]
                BY <4>5 DEF arg
            <4> QED BY <1>1, <1>2, <2>1, <2>2, <2>3, <3>1, <4>2, <4>3, <4>4, <4>5, <4>6, <4>7, SettingsOfNext
        <3>3. ASSUME NEW q \in AllRanks
              PROVE  /\ \A name : HasLast(name, ai'[q] - 1)
                     /\ WellFormed => SettingsOf(settings'[q], ai'[q] - 1)
            <4>1. CASE q = r
                <5>1. ai'[q] - 1 = ai[r]
                    BY <1>1, <2>2, <4>1, SMT
                <5> QED BY <3>1, <3>2, <4>1, <5>1
            <4>2. CASE q # r
                BY <2>5, <4>2 DEF Read
            <4> QED BY <4>1, <4>2
        <3> QED BY <1>1, <3>3, ReadSame DEF Read, job
    <2>8. Placed'
        BY <1>1, <1>4, <2>5, SMT DEF Placed, SetUp
    <2>9. Begun'
        BY <1>1, <1>4, SMT DEF Begun, Ranks
    <2>10. Timed'
        <3>1. time[r] = 0 /\ pc[r] = "load"
            BY <1>1 DEF Begun
        <3>2. TimeOf(0, t)
            BY <2>4, TimeOfStart
        <3>3. ASSUME NEW q \in AllRanks
              PROVE  /\ TimeOf(time[q], settings'[q])
                     /\ (pc[q] \in {"done", "exited"} /\ time[q] # 0) => settings'[q].tlim <= time[q]
            <4>1. CASE q = r
                BY <3>1, <3>2, <4>1
            <4>2. CASE q # r
                BY <2>5, <4>2 DEF Timed
            <4> QED BY <4>1, <4>2
        <3> QED BY <1>1, <1>4, <3>3 DEF Timed, TimeOf
    <2> QED BY <2>6, <2>7, <2>8, <2>9, <2>10
<1> QED BY <1>3, <1>4 DEF LoadArg

LEMMA InitWorldKeeps == ASSUME WorldInv, NEW r \in Ranks, InitWorld(r) PROVE WorldInv'
<1> USE DEF WorldInv, job, setup
<1>1. /\ r \in AllRanks /\ pc[r] = "load" /\ ai[r] = Len(args) + 1
      /\ UNCHANGED <<job, setup, time, listener, visualizer>>
      /\ \E at \in {"aborted", "ready"} : pc' = [pc EXCEPT ![r] = at]
    <2>1. r \in AllRanks /\ ai[r] \in 1 .. Len(args) + 1 /\ Len(args) \in Nat
        BY RanksInAll, WorldAssumption, LenProperties DEF TypeOK
    <2>2. /\ ai[r] > Len(args) /\ pc[r] = "load"
          /\ UNCHANGED <<job, setup, time, listener, visualizer>>
        BY DEF InitWorld
    <2>3. \E at \in {"aborted", "ready"} : pc' = [pc EXCEPT ![r] = at]
        BY DEF InitWorld, Goto
    <2>4. ai[r] = Len(args) + 1
        BY ONLY <2>1, <2>2, SMT
    <2> QED BY <2>1, <2>2, <2>3, <2>4, Zenon
<1>2. Read'
    BY <1>1, ReadKept
<1>3. Timed'
    <2>1. \A q \in AllRanks : pc'[q] \in {"done", "exited"} => pc[q] \in {"done", "exited"}
        BY <1>1 DEF TypeOK
    <2> QED BY <1>1, <2>1, TimedKept
<1>4. TypeOK'
    <2>1. pc' \in [AllRanks -> {"load", "ready", "run", "done", "exited", "aborted"}]
        BY <1>1 DEF TypeOK
    <2> QED BY <1>1, <2>1 DEF TypeOK
<1>5. Placed'
    <2>1. \A q \in AllRanks : SetUp(q)' => q = r \/ SetUp(q)
        BY <1>1 DEF SetUp, TypeOK
    <2> QED BY <1>1, <2>1 DEF Placed
<1>6. Begun'
    BY <1>1, SMT DEF Begun, Ranks, TypeOK
<1> QED BY <1>2, <1>3, <1>4, <1>5, <1>6

(* A rank goes on to run, is done, or has ended *)
LEMMA GotoKeeps ==
    ASSUME WorldInv, NEW r \in Ranks, Start(r) \/ RunEnds(r) \/ Exit(r) \/ Killed(r)
    PROVE  WorldInv'
<1> USE DEF WorldInv, job, setup
<1>1. /\ r \in AllRanks /\ UNCHANGED <<job, setup, time, listener, visualizer>>
      /\ \/ /\ pc[r] = "ready" /\ \A q \in Ranks : pc[q] \notin {"load", "aborted"}
            /\ pc' = [pc EXCEPT ![r] = "run"]
         \/ pc[r] = "run" /\ ~Goes(r) /\ pc' = [pc EXCEPT ![r] = "done"]
         \/ /\ pc[r] = "done" /\ \A q \in Ranks : pc[q] \in {"done", "exited"}
            /\ pc' = [pc EXCEPT ![r] = "exited"]
         \/ (\E q \in Ranks : pc[q] = "aborted") /\ pc' = [pc EXCEPT ![r] = "aborted"]
    BY RanksInAll DEF Start, RunEnds, Exit, Killed, Goto
<1>2. TypeOK'
    <2>1. pc' \in [AllRanks -> {"load", "ready", "run", "done", "exited", "aborted"}]
        BY <1>1 DEF TypeOK
    <2> QED BY <1>1, <2>1 DEF TypeOK
<1>3. Read'
    BY <1>1, ReadKept
<1>4. Placed'
    <2>1. \A q \in AllRanks : SetUp(q)' => SetUp(q)
        BY <1>1, SMT DEF SetUp, TypeOK
    <2> QED BY <1>1, <2>1 DEF Placed
<1>5. Begun'
    <2> SUFFICES ASSUME NEW p \in AllRanks, NEW q \in Ranks
                 PROVE  /\ pc'[p] \in {"run", "done"} => pc'[q] # "load"
                        /\ time[p] # 0 => pc'[p] \notin {"load", "ready"} /\ pc'[q] # "load"
                        /\ (pc'[p] = "exited" /\ time[p] # 0) => pc'[q] \notin {"load", "ready", "run"}
        BY <1>1 DEF Begun, Ranks
    <2>1. /\ q \in AllRanks /\ \A o \in AllRanks : pc'[o] = IF o = r THEN pc'[r] ELSE pc[o]
          /\ pc'[r] # "load"
        BY <1>1, RanksInAll DEF TypeOK
    <2>2. /\ pc[p] \in {"run", "done"} => pc[q] # "load"
          /\ time[p] # 0 => pc[p] \notin {"load", "ready"} /\ pc[q] # "load"
          /\ (pc[p] = "exited" /\ time[p] # 0) => pc[q] \notin {"load", "ready", "run"}
        BY DEF Begun
    <2>3. CASE /\ pc[r] = "ready" /\ \A o \in Ranks : pc[o] \notin {"load", "aborted"}
               /\ pc'[r] = "run"
        <3>1. \A o \in AllRanks : time[o] # 0 /\ pc[o] = "exited" => pc[r] # "ready"
            BY DEF Begun
        <3> QED BY <2>1, <2>2, <2>3, <3>1
    <2>4. CASE pc[r] = "run" /\ pc'[r] = "done"
        BY <2>1, <2>2, <2>4 DEF Begun
    <2>5. CASE /\ pc[r] = "done" /\ \A o \in Ranks : pc[o] \in {"done", "exited"}
               /\ pc'[r] = "exited"
        BY <2>1, <2>2, <2>5
    <2>6. CASE pc'[r] = "aborted"
        BY <2>1, <2>2, <2>6
    <2> QED BY <1>1, <2>3, <2>4, <2>5, <2>6 DEF TypeOK
<1>6. Timed'
    <2>1. ~Goes(r) => settings[r].tlim <= time[r]
        BY <1>1, SMT DEF Goes, TypeOK, Settings
    <2>2. \A q \in AllRanks : pc'[q] \in {"done", "exited"} =>
              pc[q] \in {"done", "exited"} \/ settings[q].tlim <= time[q]
        BY <1>1, <2>1 DEF TypeOK
    <2> QED BY <1>1, <2>2, TimedKept
<1> QED BY <1>2, <1>3, <1>4, <1>5, <1>6

LEMMA StepWorldKeeps == ASSUME WorldInv, NEW r \in Ranks, StepWorld(r) PROVE WorldInv'
<1> USE DEF WorldInv, job, setup
<1>1. /\ r \in AllRanks /\ pc[r] = "run" /\ UNCHANGED <<job, pc, setup, listener, visualizer>>
      /\ Goes(r) /\ time' = [time EXCEPT ![r] = TimeAfter(time[r], settings[r].dt)]
    BY RanksInAll DEF StepWorld, TypeOK
<1>2. Placed'
    BY <1>1 DEF Placed, SetUp
<1>3. /\ settings[r] \in Settings /\ time[r] \in Int /\ TimeOf(time[r], settings[r])
      /\ time[r] < settings[r].tlim
    BY <1>1 DEF TypeOK, Timed, Goes
<1>4. /\ TimeAfter(time[r], settings[r].dt) \in Int
      /\ TimeOf(TimeAfter(time[r], settings[r].dt), settings[r])
    BY <1>3, TimeOfStep
<1>5. TypeOK'
    <2>1. time' \in [AllRanks -> Int]
        BY <1>1, <1>4 DEF TypeOK
    <2> QED BY <1>1, <2>1 DEF TypeOK
<1>6. Timed'
    <2>1. ASSUME NEW q \in AllRanks
          PROVE  /\ TimeOf(time'[q], settings[q])
                 /\ (pc[q] \in {"done", "exited"} /\ time'[q] # 0) => settings[q].tlim <= time'[q]
        <3>1. CASE q = r
            <4>1. time'[q] = TimeAfter(time[r], settings[r].dt) /\ pc[q] = "run"
                BY <1>1, <3>1 DEF TypeOK
            <4> QED BY <1>4, <3>1, <4>1
        <3>2. CASE q # r
            BY <1>1, <3>2 DEF Timed, TypeOK
        <3> QED BY <3>1, <3>2
    <2> QED BY <1>1, <2>1 DEF Timed, TimeOf
<1>7. Read'
    BY <1>1, ReadKept
<1>8. Begun'
    BY <1>1, SMT DEF Begun, Ranks, TypeOK
<1> QED BY <1>2, <1>5, <1>6, <1>7, <1>8

LEMMA ThreadKeeps ==
    ASSUME WorldInv, NEW r \in Ranks, Listen(r) \/ Register(r) \/ Stall(r) \/ ReadOn(r)
    PROVE  WorldInv'
<1> USE DEF WorldInv, job, setup
<1>1. /\ r \in AllRanks /\ UNCHANGED <<job, setup, time>>
      /\ listener' \in [AllRanks -> {"start", "listening"}]
      /\ visualizer' \in [AllRanks -> {"none", "reads", "stuck"}]
    <2>1. r \in AllRanks /\ UNCHANGED <<job, setup, time>>
        BY RanksInAll DEF Listen, Register, Stall, ReadOn, Visualize
    <2>2. UNCHANGED listener \/ listener' = [listener EXCEPT ![r] = "listening"]
        BY DEF Listen, Register, Stall, ReadOn, Visualize
    <2>3. UNCHANGED visualizer \/ \E to \in {"none", "reads", "stuck"} :
              visualizer' = [visualizer EXCEPT ![r] = to]
        BY DEF Listen, Register, Stall, ReadOn, Visualize
    <2>4. listener' \in [AllRanks -> {"start", "listening"}]
        BY <2>1, <2>2 DEF TypeOK
    <2>5. visualizer' \in [AllRanks -> {"none", "reads", "stuck"}]
        BY <2>1, <2>3 DEF TypeOK
    <2> QED BY <2>1, <2>4, <2>5
<1>2. UNCHANGED pc \/ (Alive(r) /\ pc' = [pc EXCEPT ![r] = "aborted"])
    BY DEF Listen, Register, Stall, ReadOn, Visualize, Goto
<1>3. TypeOK'
    <2>1. pc' \in [AllRanks -> {"load", "ready", "run", "done", "exited", "aborted"}]
        BY <1>1, <1>2 DEF TypeOK
    <2> QED BY <1>1, <2>1 DEF TypeOK
<1>4. Read'
    BY <1>1, ReadKept
<1>5. Placed'
    <2>1. \A q \in AllRanks : SetUp(q)' => SetUp(q)
        BY <1>1, <1>2, SMT DEF SetUp, TypeOK
    <2> QED BY <1>1, <2>1 DEF Placed
<1>6. Begun'
    <2>1. CASE UNCHANGED pc
        BY <1>1, <2>1 DEF Begun, Ranks
    <2>2. CASE pc' = [pc EXCEPT ![r] = "aborted"]
        <3>1. \A o \in AllRanks : pc'[o] = pc[o] \/ pc'[o] = "aborted"
            BY <1>1, <2>2 DEF TypeOK
        <3> QED BY <1>1, <3>1, RanksInAll DEF Begun, Ranks
    <2> QED BY <1>2, <2>1, <2>2
<1>7. Timed'
    <2>1. \A q \in AllRanks : pc'[q] = pc[q] \/ pc'[q] = "aborted"
        BY <1>1, <1>2 DEF TypeOK
    <2> QED BY <1>1, <2>1, TimedKept
<1> QED BY <1>3, <1>4, <1>5, <1>6, <1>7
-----------------------------------------------------------------------------
LEMMA WorldInvNext == WorldInv /\ [Next]_vars => WorldInv'
<1> SUFFICES ASSUME WorldInv, [Next]_vars PROVE WorldInv'
    OBVIOUS
<1>1. ASSUME NEW r \in Ranks, Main(r) PROVE WorldInv'
    BY <1>1, LoadArgKeeps, InitWorldKeeps, GotoKeeps, StepWorldKeeps DEF Main
<1>2. ASSUME NEW r \in Ranks, Listen(r) \/ Register(r) \/ Stall(r) \/ ReadOn(r) PROVE WorldInv'
    BY <1>2, ThreadKeeps
<1>3. CASE UNCHANGED vars
    <2>1. UNCHANGED <<job, setup>> /\ UNCHANGED <<n_proc, host, args, pc, ai, scanned, settings,
                                                  time, listener, visualizer>>
        BY <1>3 DEF vars, job, setup
    <2>2. Read'
        BY <2>1, ReadKept DEF WorldInv
    <2>3. TypeOK' /\ Placed' /\ Begun'
        BY <2>1 DEF WorldInv, TypeOK, Placed, SetUp, Begun, Ranks
    <2>4. Timed'
        BY <2>1, TimedKept DEF WorldInv
    <2> QED BY <2>2, <2>3, <2>4 DEF WorldInv
<1> QED BY <1>1, <1>2, <1>3 DEF Next

LEMMA Invariant == Spec => []WorldInv
BY WorldInvInit, WorldInvNext, PTL DEF Spec

(* Every variable keeps its type, whatever of the arguments sscanf reads:  *)
(* the settings stay numbers, and so does the time.                        *)
THEOREM TypeCorrect == Spec => []TypeOK
BY Invariant, PTL DEF WorldInv

(* For any command line with well-formed arguments, each setting is that   *)
(* of the last argument that gives it, or the default.                     *)
THEOREM SettingsGivenSafe == Spec => []SettingsGiven
<1>1. WorldInv => SettingsGiven
    BY RanksInAll DEF WorldInv, Read, SettingsOf, Given, SettingsGiven
<1> QED BY <1>1, Invariant, PTL

(* Each domain is active in exactly one rank, for any number of domains    *)
(* and ranks.                                                              *)
THEOREM OneOwnerSafe == Spec => []OneOwner
<1>1. WorldInv => OneOwner
    <2> SUFFICES ASSUME WorldInv, WellFormed, \A q \in Ranks : SetUp(q),
                        NEW r \in Ranks, NEW di \in Doms(r)
                 PROVE  \E q \in Ranks : \A o \in Ranks : di \in Active(o) <=> o = q
        BY DEF OneOwner
    <2>1. \A q \in Ranks : settings[q].nDoms = Given("nd", "val", Len(args) + 1 - 1, Defaults.nDoms)
        BY RanksInAll DEF WorldInv, Read, SettingsOf, Placed
    <2>2. \A q \in Ranks : Doms(q) = Doms(r)
        BY <2>1 DEF Doms
    <2>3. di % n_proc \in Ranks
        <3>1. n_proc \in Nat \ {0}
            BY WorldAssumption, SMT DEF WorldInv, TypeOK
        <3>2. r \in AllRanks /\ settings[r].nDoms \in Int
            BY RanksInAll DEF WorldInv, TypeOK, Settings
        <3>3. di \in Nat
            BY <3>2, SMT DEF Doms
        <3> QED BY <3>1, <3>3, DivMod DEF Ranks
    <2> QED BY <2>2, <2>3, Zenon DEF Active, Owner
<1> QED BY <1>1, Invariant, PTL

(* The barriers keep the runs of the ranks together.                       *)
THEOREM RunTogetherSafe == Spec => []RunTogether
<1>1. WorldInv => RunTogether
    BY RanksInAll, SMT DEF WorldInv, Begun, RunTogether
<1> QED BY <1>1, Invariant, PTL

(* The time is a float throughout, and a run that steps at all comes to    *)
(* its end only if the limit is in reach.                                  *)
EndsOnlyInReach ==
    \A r \in Ranks :
        /\ RoundFloat(time[r]) = time[r]
        /\ (pc[r] \in {"done", "exited"} /\ time[r] # 0) => LimitInReach(settings[r])

(* The time is always a float, and it only comes to a limit that is not    *)
(* beyond 2^Precision times the power of two above dt: with a larger one   *)
(* the run goes on for ever, for any numbers given and any precision.      *)
THEOREM EndsOnlyInReachSafe == Spec => []EndsOnlyInReach
<1>1. WorldInv => EndsOnlyInReach
    <2> SUFFICES ASSUME WorldInv, NEW r \in Ranks
                 PROVE  /\ RoundFloat(time[r]) = time[r]
                        /\ (pc[r] \in {"done", "exited"} /\ time[r] # 0) => LimitInReach(settings[r])
        BY DEF EndsOnlyInReach
    <2> DEFINE s == settings[r]
    <2>1. /\ s.dt \in Int /\ s.tlim \in Int /\ time[r] \in Int /\ TimeOf(time[r], s)
          /\ (pc[r] \in {"done", "exited"} /\ time[r] # 0) => s.tlim <= time[r]
        BY RanksInAll DEF WorldInv, TypeOK, Settings, Timed
    <2> HIDE DEF s
    <2>2. ASSUME s.tlim <= time[r], time[r] # 0 PROVE LimitInReach(s)
        <3>1. s.dt > 0
            BY <2>1, <2>2, SMT DEF TimeOf
        <3>2. PICK e \in 0 .. s.dt : Power(2, e) >= s.dt /\ \A f \in 0 .. e - 1 : Power(2, f) < s.dt
            <4>1. s.dt \in Nat \ {0}
                BY <2>1, <3>1, SMT
            <4> QED BY <4>1, LeastPower
        <3>3. e \in Nat /\ Precision + e \in Nat
            BY <2>1, <3>1, <3>2, PrecisionAssumption, SMT
        <3>4. time[r] \in 0 .. Power(2, Precision + e) /\ Power(2, Precision + e) \in Nat
            BY <2>1, <3>1, <3>2, <3>3, PowerEquation DEF TimeOf
        <3>5. s.tlim <= Power(2, Precision + e)
            BY <2>1, <2>2, <3>4, SMT
        <3> QED BY <3>1, <3>2, <3>5 DEF LimitInReach
    <2>3. RoundFloat(time[r]) = time[r]
        BY <2>1 DEF TimeOf
    <2> QED BY <2>1, <2>2, <2>3 DEF s
<1> QED BY <1>1, Invariant, PTL

(* While the limit is in reach no step is lost to the rounding, for any    *)
(* numbers given and any precision: together with EndsOnlyInReachSafe,     *)
(* the run can come to its end exactly if the limit is in reach.           *)
THEOREM StepsForwardSafe == Spec => []StepsForward
<1>1. WorldInv => StepsForward
    <2> SUFFICES ASSUME WorldInv, NEW r \in Ranks, Goes(r), LimitInReach(settings[r])
                 PROVE  TimeAfter(time[r], settings[r].dt) > time[r]
        BY DEF StepsForward
    <2> DEFINE s == settings[r]
               t == time[r]
    <2>1. s.dt \in Int /\ s.tlim \in Int /\ t \in Int /\ TimeOf(t, s) /\ t < s.tlim
        BY RanksInAll DEF WorldInv, TypeOK, Settings, Timed, Goes
    <2>2. PICK e \in 0 .. s.dt :
              /\ Power(2, e) >= s.dt /\ s.dt > 0 /\ \A f \in 0 .. e - 1 : Power(2, f) < s.dt
              /\ s.tlim <= Power(2, Precision + e)
        BY DEF LimitInReach
    <2> HIDE DEF s, t
    <2>3. e \in Nat /\ s.dt \in Nat \ {0} /\ Precision + e \in Nat /\ (e > 0 => e - 1 \in 0 .. e - 1)
        BY <2>1, <2>2, PrecisionAssumption, SMT
    <2>4. t \in 0 .. Power(2, Precision + e) /\ Power(2, Precision + e) \in Nat
        BY <2>1, <2>2, <2>3, PowerEquation DEF TimeOf
    <2>5. t \in Nat /\ t < Power(2, Precision + e) /\ t + s.dt >= 0
        BY <2>1, <2>2, <2>3, <2>4, SMT
    <2>6. RoundMagnitude(t) = t
        BY <2>1, <2>5, SMT DEF TimeOf, RoundFloat
    <2>7. e > 0 => Power(2, e - 1) < s.dt
        BY <2>2, <2>3
    <2>8. RoundMagnitude(t + s.dt) > t
        BY <2>3, <2>5, <2>6, <2>7, RoundOn
    <2>9. TimeAfter(t, s.dt) = RoundMagnitude(t + s.dt)
        BY <2>1, <2>5, TimeAfterInt
    <2> QED BY <2>8, <2>9 DEF s, t
<1> QED BY <1>1, Invariant, PTL
=============================================================================
