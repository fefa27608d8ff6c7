--------------------------- MODULE Powers_proofs ---------------------------
(***************************************************************************)
(* Powers of a natural number.  That the recursive function of Power has   *)
(* the values its equation says is proved here from the well-foundedness   *)
(* of the order of the naturals, with sets in the place of predicates.     *)
(***************************************************************************)
EXTENDS Powers, WellFoundedInduction, TLAPS

(* The least number of a set of naturals *)
LEMMA LeastNatural ==
    ASSUME NEW T \in SUBSET Nat, T # {}
    PROVE  \E n \in T : \A m \in T : n <= m
<1> DEFINE less == OpToRel(<, Nat)
<1>1. IsWellFoundedOn(less, Nat)
    BY NatLessThanWellFounded
<1>2. \A m, n \in Nat : m < n => <<m, n>> \in less
    BY SMT DEF OpToRel
<1> HIDE DEF less
<1>3. PICK n \in T : \A m \in T : <<m, n>> \notin less
    BY <1>1, WFMin, Zenon
<1>4. \A m \in T : ~(m < n)
    BY <1>2, <1>3
<1>5. \A m \in T : n <= m
    BY <1>4, SMT
<1> QED BY <1>5

(* Induction over the naturals *)
LEMMA Induction ==
    ASSUME NEW S, 0 \in S, \A n \in Nat : n \in S => n + 1 \in S
    PROVE  Nat \subseteq S
<1> SUFFICES ASSUME Nat \ S # {} PROVE FALSE
    OBVIOUS
<1>1. PICK n \in Nat \ S : \A m \in Nat \ S : n <= m
    BY LeastNatural
<1>2. n - 1 \in Nat /\ n - 1 \notin S
    BY <1>1, SMT
<1> QED BY <1>1, <1>2, SMT
-----------------------------------------------------------------------------
(* The first n powers of b *)
FirstPowers(b, n) == {h \in [0 .. n -> Nat] : h[0] = 1 /\ \A k \in 1 .. n : h[k] = b * h[k - 1]}

LEMMA FirstPowersExist == ASSUME NEW b \in Nat PROVE \A n \in Nat : FirstPowers(b, n) # {}
<1> DEFINE S == {n \in Nat : FirstPowers(b, n) # {}}
<1>1. 0 \in S
    <2>1. [k \in 0 .. 0 |-> 1] \in FirstPowers(b, 0)
        BY SMT DEF FirstPowers
    <2> QED BY <2>1
<1>2. ASSUME NEW n \in Nat, n \in S PROVE n + 1 \in S
    <2>1. PICK h \in FirstPowers(b, n) : TRUE
        BY <1>2
    <2> DEFINE g == [k \in 0 .. n + 1 |-> IF k <= n THEN h[k] ELSE b * h[n]]
    <2>2. h \in [0 .. n -> Nat] /\ h[0] = 1 /\ \A k \in 1 .. n : h[k] = b * h[k - 1]
        BY <2>1 DEF FirstPowers
    <2>3. h[n] \in Nat
        BY <2>2, SMT
    <2>4. b * h[n] \in Nat
        BY <2>3, SMT
    <2>5. g \in [0 .. n + 1 -> Nat] /\ g[0] = 1
        BY <2>2, <2>4, SMT
    <2>6. ASSUME NEW k \in 1 .. n + 1 PROVE g[k] = b * g[k - 1]
        <3>1. CASE k <= n
            <4>1. k \in 1 .. n /\ k \in 0 .. n + 1 /\ k - 1 \in 0 .. n + 1 /\ k - 1 <= n
                BY <3>1, SMT
            <4>2. g[k] = h[k] /\ g[k - 1] = h[k - 1]
                BY <3>1, <4>1
            <4> HIDE DEF g
            <4> QED BY <2>2, <4>1, <4>2
        <3>2. CASE k = n + 1
            <4>1. ~(k <= n) /\ k \in 0 .. n + 1 /\ k - 1 = n /\ n \in 0 .. n + 1 /\ n <= n
                BY <3>2, SMT
            <4>2. g[k] = b * h[n] /\ g[n] = h[n]
                BY <4>1
            <4> HIDE DEF g
            <4> QED BY <4>1, <4>2
        <3>3. k <= n \/ k = n + 1
            BY SMT
        <3> QED BY <3>1, <3>2, <3>3
    <2> HIDE DEF g
    <2>7. g \in FirstPowers(b, n + 1)
        BY <2>5, <2>6 DEF FirstPowers
    <2> QED BY <2>7
<1> HIDE DEF S
<1>3. Nat \subseteq S
    BY <1>1, <1>2, Induction
<1> QED BY <1>3 DEF S

LEMMA FirstPowersAgree ==
    ASSUME NEW b \in Nat, NEW n \in Nat, NEW h \in FirstPowers(b, n), NEW g \in FirstPowers(b, n + 1)
    PROVE  h[n] = g[n]
<1> DEFINE S == {k \in Nat : k <= n => h[k] = g[k]}
<1>1. /\ h[0] = 1 /\ \A k \in 1 .. n : h[k] = b * h[k - 1]
      /\ g[0] = 1 /\ \A k \in 1 .. n + 1 : g[k] = b * g[k - 1]
    BY DEF FirstPowers
<1>2. 0 \in S
    BY <1>1
<1>3. ASSUME NEW k \in Nat, k \in S PROVE k + 1 \in S
    <2> SUFFICES ASSUME k + 1 <= n PROVE h[k + 1] = g[k + 1]
        OBVIOUS
    <2>1. k <= n /\ k + 1 \in 1 .. n /\ k + 1 \in 1 .. n + 1 /\ (k + 1) - 1 = k
        BY SMT
    <2>2. h[k] = g[k]
        BY <1>3, <2>1
    <2> QED BY <1>1, <2>1, <2>2
<1> HIDE DEF S
<1>4. Nat \subseteq S
    BY <1>2, <1>3, Induction
<1>5. n \in S /\ n <= n
    BY <1>4, SMT
<1> QED BY <1>5 DEF S

(***************************************************************************)
(* The power is what its recursive definition says.                        *)
(***************************************************************************)
LEMMA PowerEquation ==
    ASSUME NEW b \in Nat
    PROVE  /\ Power(b, 0) = 1
           /\ \A n \in Nat : Power(b, n + 1) = b * Power(b, n)
           /\ \A n \in Nat : Power(b, n) \in Nat
<1> DEFINE first(n) == CHOOSE h : h \in FirstPowers(b, n)
           G == [n \in Nat |-> first(n)[n]]
           IsPower(f) == f = [k \in Nat |-> IF k = 0 THEN 1 ELSE b * f[k - 1]]
<1>1. \A n \in Nat : first(n) \in FirstPowers(b, n)
    BY FirstPowersExist
<1> HIDE DEF first
<1>2. G[0] = 1
    BY <1>1 DEF FirstPowers
<1>3. ASSUME NEW n \in Nat PROVE G[n + 1] = b * G[n] /\ G[n] \in Nat
    <2>1. n + 1 \in Nat /\ n + 1 \in 1 .. n + 1 /\ (n + 1) - 1 = n /\ n \in 0 .. n
        BY SMT
    <2>2. first(n + 1)[n + 1] = b * first(n + 1)[n]
        BY <1>1, <2>1 DEF FirstPowers
    <2>3. first(n)[n] = first(n + 1)[n]
        BY <1>1, <2>1, FirstPowersAgree
    <2>4. first(n)[n] \in Nat
        BY <1>1, <2>1 DEF FirstPowers
    <2> QED BY <2>1, <2>2, <2>3, <2>4
<1>4. IsPower(G)
    <2>1. DOMAIN G = Nat /\ G = [k \in Nat |-> G[k]]
        OBVIOUS
    <2> HIDE DEF G
    <2>2. ASSUME NEW k \in Nat PROVE G[k] = IF k = 0 THEN 1 ELSE b * G[k - 1]
        <3>1. CASE k = 0
            BY <1>2, <3>1
        <3>2. CASE k # 0
            <4>1. k - 1 \in Nat /\ (k - 1) + 1 = k
                BY <3>2, SMT
            <4> QED BY <1>3, <3>2, <4>1
        <3> QED BY <3>1, <3>2
    <2> QED BY <2>1, <2>2
<1> DEFINE f == CHOOSE power : power = [k \in Nat |-> IF k = 0 THEN 1 ELSE b * power[k - 1]]
<1>5. IsPower(f)
    BY <1>4
<1>6. \A n : Power(b, n) = f[n]
    BY DEF Power
<1> HIDE DEF f
<1>7. f[0] = 1 /\ \A n \in Nat : f[n + 1] = b * f[n]
    <2>1. f = [k \in Nat |-> IF k = 0 THEN 1 ELSE b * f[k - 1]]
        BY <1>5
    <2>2. \A n \in Nat : n + 1 \in Nat /\ n + 1 # 0 /\ (n + 1) - 1 = n
        BY SMT
    <2>3. \A k \in Nat : f[k] = IF k = 0 THEN 1 ELSE b * f[k - 1]
        BY <2>1
    <2> HIDE DEF IsPower
    <2> QED BY <2>2, <2>3
<1>8. \A n \in Nat : f[n] \in Nat
    <2> DEFINE S == {n \in Nat : f[n] \in Nat}
    <2>1. 0 \in S
        BY <1>7
    <2>2. ASSUME NEW n \in Nat, n \in S PROVE n + 1 \in S
        <3>1. f[n] \in Nat /\ f[n + 1] = b * f[n]
            BY <1>7, <2>2
        <3>2. b * f[n] \in Nat
            BY <3>1, SMT
        <3> QED BY <3>1, <3>2
    <2> HIDE DEF S
    <2>3. Nat \subseteq S
        BY <2>1, <2>2, Induction
    <2> QED BY <2>3 DEF S
<1> QED BY <1>6, <1>7, <1>8
-----------------------------------------------------------------------------
(* The powers of two grow, by the sum of two exponents.                    *)
LEMMA PowerSum ==
    ASSUME NEW b \in Nat, NEW m \in Nat
    PROVE  \A n \in Nat : Power(b, m + n) = Power(b, m) * Power(b, n)
<1> DEFINE S == {n \in Nat : Power(b, m + n) = Power(b, m) * Power(b, n)}
<1>1. 0 \in S
    <2>1. m + 0 = m /\ Power(b, m) * 1 = Power(b, m)
        BY PowerEquation, SMT
    <2> QED BY <2>1, PowerEquation
<1>2. ASSUME NEW n \in Nat, n \in S PROVE n + 1 \in S
    <2>1. m + (n + 1) = (m + n) + 1 /\ m + n \in Nat
        BY SMT
    <2>2. Power(b, m + (n + 1)) = b * (Power(b, m) * Power(b, n))
        BY <1>2, <2>1, PowerEquation
    <2>3. Power(b, m) \in Nat /\ Power(b, n) \in Nat /\ Power(b, n + 1) = b * Power(b, n)
        BY PowerEquation
    <2>4. b * (Power(b, m) * Power(b, n)) = Power(b, m) * (b * Power(b, n))
        BY <2>3, SMT
    <2>5. Power(b, m + (n + 1)) = Power(b, m) * Power(b, n + 1)
        BY <2>2, <2>3, <2>4
    <2> QED BY <2>5
<1> HIDE DEF S
<1>3. Nat \subseteq S
    BY <1>1, <1>2, Induction
<1> QED BY <1>3 DEF S

LEMMA PowerAbove == ASSUME NEW n \in Nat PROVE Power(2, n) \in Nat /\ n < Power(2, n)
<1> DEFINE S == {k \in Nat : k < Power(2, k)}
<1>1. \A k \in Nat : Power(2, k) \in Nat /\ Power(2, k + 1) = 2 * Power(2, k)
    BY PowerEquation
<1>2. 0 \in S
    BY PowerEquation, SMT
<1>3. ASSUME NEW k \in Nat, k \in S PROVE k + 1 \in S
    BY <1>1, <1>3, SMT
<1> HIDE DEF S
<1>4. Nat \subseteq S
    BY <1>2, <1>3, Induction
<1> QED BY <1>1, <1>4 DEF S

LEMMA PowerGrows ==
    ASSUME NEW m \in Nat, NEW n \in Nat
    PROVE  /\ m < n <=> Power(2, m) < Power(2, n)
           /\ m <= n <=> Power(2, m) <= Power(2, n)
<1>1. ASSUME NEW j \in Nat, NEW k \in Nat, j < k PROVE Power(2, j) < Power(2, k)
    <2>1. k - j \in Nat \ {0} /\ j + (k - j) = k
        BY <1>1, SMT
    <2>2. Power(2, k) = Power(2, j) * Power(2, k - j)
        BY <2>1, PowerSum
    <2>3. Power(2, j) \in Nat \ {0} /\ Power(2, k - j) \in Nat /\ Power(2, k - j) >= 2
        BY <2>1, PowerAbove, SMT
    <2>4. \A x \in Nat \ {0} : \A y \in Nat : y >= 2 => x < x * y
        BY SMT
    <2> QED BY <2>2, <2>3, <2>4
<1>2. Power(2, m) \in Nat /\ Power(2, n) \in Nat
    BY PowerEquation
<1>3. m < n => Power(2, m) < Power(2, n)
    BY <1>1
<1>4. n < m => Power(2, n) < Power(2, m)
    BY <1>1
<1>5. m < n \/ n < m \/ m = n
    BY SMT
<1> QED BY <1>2, <1>3, <1>4, <1>5, SMT

(* Every positive number is between two powers, ...                        *)
LEMMA BetweenPowers ==
    ASSUME NEW x \in Nat \ {0}
    PROVE  \E k \in Nat : Power(2, k) <= x /\ x < Power(2, k + 1)
<1> DEFINE T == {n \in Nat : x < Power(2, n)}
<1>1. x \in T
    BY PowerAbove
<1>2. PICK n \in T : \A m \in T : n <= m
    BY <1>1, LeastNatural
<1>3. n \in Nat /\ n # 0 /\ x < Power(2, n)
    BY <1>2, PowerEquation, SMT
<1>4. n - 1 \in Nat /\ n - 1 + 1 = n /\ n - 1 \notin T
    BY <1>2, <1>3, SMT
<1>5. Power(2, n - 1) <= x
    BY <1>4, PowerEquation, SMT
<1> QED BY <1>3, <1>4, <1>5

(* ... and there is a least power that is not below it.                    *)
LEMMA LeastPower ==
    ASSUME NEW x \in Nat \ {0}
    PROVE  \E e \in 0 .. x : Power(2, e) >= x /\ \A f \in 0 .. e - 1 : Power(2, f) < x
<1> DEFINE T == {n \in Nat : Power(2, n) >= x}
<1>1. x \in T
    BY PowerAbove, SMT
<1>2. PICK e \in T : \A m \in T : e <= m
    BY <1>1, LeastNatural
<1>3. e \in 0 .. x
    BY <1>1, <1>2, SMT
<1>4. ASSUME NEW f \in 0 .. e - 1 PROVE Power(2, f) < x
    <2>1. f \in Nat /\ f \notin T
        BY <1>2, SMT
    <2>2. Power(2, f) \in Nat
        BY <2>1, PowerEquation
    <2> QED BY <2>1, <2>2, SMT
<1> QED BY <1>2, <1>3, <1>4
=============================================================================
