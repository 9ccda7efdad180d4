------------------------- MODULE MeasurementProofs --------------------------
(***************************************************************************)
(* Lemmas and theorems about the measurements, for any base, cap,          *)
(* resolution, number of attempts and samples: what the waits of Waits.tla *)
(* add up to, and what the counting functions of Measurement.tla return.   *)
(* Both are recursive functions, sums over sets or choices of a least one; *)
(* so induction over numbers and over finite sets is stated first, over a  *)
(* set and not an operator, and that functions which satisfy recursive     *)
(* equations exist.                                                        *)
(***************************************************************************)
EXTENDS Measurement, FiniteSetTheorems, SequenceTheorems, WellFoundedInduction, TLAPS

-----------------------------------------------------------------------------
(* Induction and recursion.                                                *)

\* A set of naturals that is not empty has a least member.
LEMMA LeastNat ==
  ASSUME NEW T \in SUBSET Nat, T # {}
  PROVE  \E x \in T : \A y \in T : x <= y
<1>1. PICK x \in T : \A y \in T : ~ (<<y, x>> \in OpToRel(<, Nat))
  BY WFMin, NatLessThanWellFounded
<1>2. \A y \in T : ~(y < x)
  BY <1>1 DEF OpToRel
<1> QED
  BY <1>2

\* A set that holds 0 and the successor of each of its naturals holds them all.
LEMMA Induct ==
  ASSUME NEW S, 0 \in S, \A n \in Nat : n \in S => n + 1 \in S
  PROVE  Nat \subseteq S
<1> SUFFICES ASSUME Nat \ S # {} PROVE FALSE
  OBVIOUS
<1>1. PICK x \in Nat \ S : \A y \in Nat \ S : x <= y
  BY LeastNat
<1>2. x # 0 /\ x - 1 \in Nat
  BY <1>1
<1>3. x - 1 \in S
  BY <1>1, <1>2
<1> QED
  BY <1>1, <1>2, <1>3

\* g begins with x0 and takes n steps of h.
StepsTo(g, n, X, x0, h) ==
  /\ g \in [0 .. n -> X] /\ g[0] = x0
  /\ \A i \in 0 .. n - 1 : g[i + 1] = h[i][g[i]]

\* What recursion takes, and what it gives.
Stepper(X, x0, h)  == x0 \in X /\ h \in [Nat -> [X -> X]]
Recurses(X, x0, h) == \E f \in [Nat -> X] : f[0] = x0 /\ \A n \in Nat : f[n + 1] = h[n][f[n]]

\* However many steps are asked for, they can be taken.
LEMMA StepsExist ==
  ASSUME NEW X, NEW x0 \in X, NEW h \in [Nat -> [X -> X]]
  PROVE  \A n \in Nat : \E g : StepsTo(g, n, X, x0, h)
<1> DEFINE S == {n \in Nat : \E g : StepsTo(g, n, X, x0, h)}
<1>1. 0 \in S
  <2> DEFINE g == [i \in 0 .. 0 |-> x0]
  <2>1. StepsTo(g, 0, X, x0, h)
    BY DEF StepsTo
  <2> QED
    BY <2>1
<1>2. ASSUME NEW n \in Nat, n \in S PROVE n + 1 \in S
  <2>1. PICK g : StepsTo(g, n, X, x0, h)
    BY <1>2
  <2> DEFINE y == h[n][g[n]]
             e == [i \in 0 .. n + 1 |-> IF i = n + 1 THEN y ELSE g[i]]
  <2>2. g[n] \in X /\ y \in X
    <3>1. n \in 0 .. n /\ g \in [0 .. n -> X]
      BY <2>1 DEF StepsTo
    <3>2. g[n] \in X
      BY <3>1
    <3>3. h[n] \in [X -> X]
      OBVIOUS
    <3> QED
      BY <3>2, <3>3
  <2>3. \A i \in 0 .. n : i \in 0 .. n + 1 /\ e[i] = g[i]
    OBVIOUS
  <2>4. e[n + 1] = y
    OBVIOUS
  <2>5. e \in [0 .. n + 1 -> X]
    <3> SUFFICES ASSUME NEW i \in 0 .. n + 1 PROVE e[i] \in X
      OBVIOUS
    <3>1. CASE i = n + 1
      BY <2>2, <3>1
    <3>2. CASE i # n + 1
      <4>1. i \in 0 .. n
        BY <3>2
      <4> QED
        BY <2>1, <2>3, <4>1 DEF StepsTo
    <3> QED
      BY <3>1, <3>2
  <2> HIDE DEF e
  <2>6. ASSUME NEW i \in 0 .. n PROVE e[i + 1] = h[i][e[i]]
    <3>1. CASE i = n
      BY <2>3, <2>4, <3>1
    <3>2. CASE i # n
      <4>1. i \in 0 .. n - 1 /\ i + 1 \in 0 .. n
        BY <3>2
      <4> QED
        BY <2>1, <2>3, <4>1 DEF StepsTo
    <3> QED
      BY <3>1, <3>2
  <2>7. StepsTo(e, n + 1, X, x0, h)
    <3>1. (n + 1) - 1 = n /\ 0 \in 0 .. n
      OBVIOUS
    <3>2. e[0] = x0
      BY <2>1, <2>3, <3>1 DEF StepsTo
    <3> QED
      BY <2>5, <2>6, <3>1, <3>2 DEF StepsTo
  <2> QED
    BY <2>7
<1> HIDE DEF S
<1>3. Nat \subseteq S
  BY <1>1, <1>2, Induct
<1> USE DEF S
<1> QED
  BY <1>3

\* Two runs of steps agree as far as both go.
LEMMA StepsAgree ==
  ASSUME NEW X, NEW x0, NEW h, NEW m \in Nat
  PROVE  \A n, k \in Nat : \A g, e : m <= n /\ m <= k /\ StepsTo(g, n, X, x0, h) /\ StepsTo(e, k, X, x0, h)
            => g[m] = e[m]
<1> DEFINE One(i) == \A n, k \in Nat : \A g, e :
              i <= n /\ i <= k /\ StepsTo(g, n, X, x0, h) /\ StepsTo(e, k, X, x0, h) => g[i] = e[i]
           S == {i \in Nat : One(i)}
<1>1. 0 \in S
  BY DEF StepsTo
<1>2. ASSUME NEW i \in Nat, i \in S PROVE i + 1 \in S
  <2> SUFFICES ASSUME NEW n \in Nat, NEW k \in Nat, NEW g, NEW e, i + 1 <= n, i + 1 <= k,
                      StepsTo(g, n, X, x0, h), StepsTo(e, k, X, x0, h)
               PROVE  g[i + 1] = e[i + 1]
    OBVIOUS
  <2>1. i <= n /\ i <= k /\ i \in 0 .. n - 1 /\ i \in 0 .. k - 1
    OBVIOUS
  <2>2. g[i] = e[i]
    BY <1>2, <2>1
  <2> QED
    BY <2>1, <2>2 DEF StepsTo
<1> HIDE DEF S
<1>3. Nat \subseteq S
  BY <1>1, <1>2, Induct
<1> QED
  BY <1>3 DEF S

\* Recursion over Nat for a step given as a function.
LEMMA Recursion ==
  ASSUME NEW X, NEW x0, NEW h, Stepper(X, x0, h)
  PROVE  Recurses(X, x0, h)
<1>0. x0 \in X /\ h \in [Nat -> [X -> X]]
  BY DEF Stepper
<1> DEFINE G(n) == CHOOSE g : StepsTo(g, n, X, x0, h)
           f == [n \in Nat |-> G(n)[n]]
<1>1. \A n \in Nat : StepsTo(G(n), n, X, x0, h)
  BY <1>0, StepsExist
<1>2. \A n \in Nat : f[n] = G(n)[n]
  OBVIOUS
<1> HIDE DEF G
<1>3. f \in [Nat -> X]
  <2> SUFFICES ASSUME NEW n \in Nat PROVE G(n)[n] \in X
    OBVIOUS
  <2>1. n \in 0 .. n
    OBVIOUS
  <2> QED
    BY <1>1, <2>1 DEF StepsTo
<1> HIDE DEF f
<1>4. f[0] = x0
  BY <1>1, <1>2 DEF StepsTo
<1>5. ASSUME NEW n \in Nat PROVE f[n + 1] = h[n][f[n]]
  <2>1. n + 1 \in Nat /\ n \in 0 .. (n + 1) - 1 /\ n <= n /\ n <= n + 1
    OBVIOUS
  <2>2. G(n + 1)[n + 1] = h[n][G(n + 1)[n]]
    BY <1>1, <2>1 DEF StepsTo
  <2>3. G(n + 1)[n] = G(n)[n]
    BY <1>1, <2>1, StepsAgree
  <2> QED
    BY <1>2, <2>1, <2>2, <2>3
<1> QED
  BY <1>3, <1>4, <1>5 DEF Recurses

\* The same for a function of naturals, in the form the definitions have.
LEMMA NatRecursion ==
  ASSUME NEW x0 \in Nat, NEW h \in [Nat -> [Nat -> Nat]]
  PROVE  \E f \in [Nat -> Nat] : \A n \in Nat : f[n] = IF n = 0 THEN x0 ELSE h[n - 1][f[n - 1]]
<1>1. Stepper(Nat, x0, h)
  BY DEF Stepper
<1>2. Recurses(Nat, x0, h)
  BY <1>1, Recursion
<1>3. PICK f \in [Nat -> Nat] : f[0] = x0 /\ \A n \in Nat : f[n + 1] = h[n][f[n]]
  BY <1>2 DEF Recurses
<1>4. ASSUME NEW n \in Nat PROVE f[n] = IF n = 0 THEN x0 ELSE h[n - 1][f[n - 1]]
  <2>1. n # 0 => n - 1 \in Nat /\ (n - 1) + 1 = n
    OBVIOUS
  <2> QED
    BY <1>3, <2>1
<1> QED
  BY <1>4

-----------------------------------------------------------------------------
(* The recursive functions of Waits.                                       *)

\* Powers of two.
LEMMA Pow2Facts ==
  /\ Pow2[0] = 1
  /\ \A n \in Nat : Pow2[n] \in Nat \ {0} /\ Pow2[n + 1] = 2 * Pow2[n]
<1> DEFINE Rec(p) == p = [n \in Nat |-> IF n = 0 THEN 1 ELSE 2 * p[n - 1]]
           h == [n \in Nat |-> [x \in Nat |-> 2 * x]]
           S == {n \in Nat : Pow2[n] \in Nat \ {0}}
<1>1. \E p : Rec(p)
  <2>1. h \in [Nat -> [Nat -> Nat]]
    OBVIOUS
  <2> HIDE DEF h
  <2>2. \A x \in Nat : \E p \in [Nat -> Nat] :
          \A n \in Nat : p[n] = IF n = 0 THEN x ELSE h[n - 1][p[n - 1]]
    BY <2>1, NatRecursion
  <2>3. PICK p \in [Nat -> Nat] : \A n \in Nat : p[n] = IF n = 0 THEN 1 ELSE h[n - 1][p[n - 1]]
    BY <2>2
  <2>4. \A n \in Nat : n # 0 => n - 1 \in Nat /\ p[n - 1] \in Nat
    BY <2>3
  <2>5. ASSUME NEW n \in Nat PROVE p[n] = IF n = 0 THEN 1 ELSE 2 * p[n - 1]
    BY <2>3, <2>4 DEF h
  <2>6. p = [n \in Nat |-> IF n = 0 THEN 1 ELSE 2 * p[n - 1]]
    BY <2>3, <2>5
  <2> QED
    BY <2>6
<1>2. Pow2 = CHOOSE p : Rec(p)
  BY DEF Pow2
<1> HIDE DEF Rec, S
<1>3. Rec(Pow2)
  BY <1>1, <1>2
<1>4. \A n \in Nat : Pow2[n] = IF n = 0 THEN 1 ELSE 2 * Pow2[n - 1]
  BY <1>3 DEF Rec
<1>5. Pow2[0] = 1 /\ \A n \in Nat : Pow2[n + 1] = 2 * Pow2[n]
  <2>1. \A n \in Nat : n + 1 \in Nat /\ n + 1 # 0 /\ (n + 1) - 1 = n
    OBVIOUS
  <2> QED
    BY <1>4, <2>1
<1>6. 0 \in S /\ \A n \in Nat : n \in S => n + 1 \in S
  BY <1>5 DEF S
<1>7. Nat \subseteq S
  BY <1>6, Induct
<1> QED
  BY <1>5, <1>7 DEF S

\* p[n] is the sum of g over 1 .. n.
IsSum(p, g) == p = [n \in Nat |-> IF n = 0 THEN 0 ELSE p[n - 1] + g[n]]

\* There is such a sum of every function of naturals.
LEMMA SumExists ==
  ASSUME NEW g \in [Nat -> Nat]
  PROVE  \E p : IsSum(p, g)
<1> DEFINE h == [n \in Nat |-> [x \in Nat |-> x + g[n + 1]]]
<1>1. h \in [Nat -> [Nat -> Nat]]
  OBVIOUS
<1> HIDE DEF h
<1>2. PICK p \in [Nat -> Nat] : \A n \in Nat : p[n] = IF n = 0 THEN 0 ELSE h[n - 1][p[n - 1]]
  BY <1>1, NatRecursion
<1>3. ASSUME NEW n \in Nat PROVE p[n] = IF n = 0 THEN 0 ELSE p[n - 1] + g[n]
  <2>1. CASE n = 0
    BY <1>2, <2>1
  <2>2. CASE n # 0
    <3>1. n - 1 \in Nat /\ (n - 1) + 1 = n
      BY <2>2
    <3>2. p[n - 1] \in Nat
      BY <1>2, <3>1
    <3>3. h[n - 1][p[n - 1]] = p[n - 1] + g[n]
      BY <3>1, <3>2 DEF h
    <3> QED
      BY <1>2, <2>2, <3>3
  <2> QED
    BY <2>1, <2>2
<1> QED
  BY <1>2, <1>3 DEF IsSum

\* What is one is a function of naturals, and grows by the terms.
LEMMA SumTerms ==
  ASSUME NEW g \in [Nat -> Nat], NEW p, IsSum(p, g)
  PROVE  /\ p \in [Nat -> Nat] /\ p[0] = 0
         /\ \A n \in Nat : p[n + 1] = p[n] + g[n + 1]
<1> DEFINE S == {n \in Nat : p[n] \in Nat}
<1>1. \A n \in Nat : p[n] = IF n = 0 THEN 0 ELSE p[n - 1] + g[n]
  BY DEF IsSum
<1>2. p[0] = 0
  BY <1>1
<1>3. ASSUME NEW n \in Nat PROVE p[n + 1] = p[n] + g[n + 1]
  <2>1. n + 1 \in Nat /\ n + 1 # 0 /\ (n + 1) - 1 = n
    OBVIOUS
  <2> QED
    BY <1>1, <2>1
<1>4. 0 \in S /\ \A n \in Nat : n \in S => n + 1 \in S
  BY <1>2, <1>3
<1> HIDE DEF S
<1>5. Nat \subseteq S
  BY <1>4, Induct
<1>6. \A n \in Nat : p[n] \in Nat
  BY <1>5 DEF S
<1>7. p \in [Nat -> Nat]
  BY <1>6 DEF IsSum
<1> QED
  BY <1>2, <1>3, <1>7

\* The capped exponential is a natural between the base and the cap.
LEMMA ExpFacts ==
  ASSUME NEW n \in Nat \ {0}
  PROVE  /\ Exp(n) \in Nat \ {0} /\ Base <= Exp(n) /\ Exp(n) <= Cap
         /\ ReplicaExp(n) = Exp(n)
<1>1. n - 1 \in Nat
  OBVIOUS
<1> DEFINE x == Pow2[n - 1]
<1>2. x \in Nat \ {0}
  BY <1>1, Pow2Facts
<1> HIDE DEF x
<1>3. Base * x \in Nat /\ Base <= Base * x
  BY <1>2, WaitsAssumption
<1> USE DEF x
<1> QED
  BY <1>3, WaitsAssumption DEF Exp, ReplicaExp, LesserOf

\* The sum of the capped exponential.
LEMMA ExpSumFacts ==
  /\ ExpSum \in [Nat -> Nat] /\ ExpSum[0] = 0
  /\ \A n \in Nat : ExpSum[n + 1] = ExpSum[n] + Exp(n + 1)
<1> DEFINE Rec(p) == p = [n \in Nat |-> IF n = 0 THEN 0 ELSE p[n - 1] + ReplicaExp(n)]
           g == [n \in Nat |-> IF n = 0 THEN 0 ELSE ReplicaExp(n)]
<1>1. g \in [Nat -> Nat]
  BY ExpFacts
<1>2. \A n \in Nat : n # 0 => g[n] = ReplicaExp(n)
  OBVIOUS
<1>3. \A n \in Nat : g[n + 1] = Exp(n + 1)
  BY ExpFacts
<1> HIDE DEF g
<1>4. ASSUME NEW p PROVE Rec(p) <=> IsSum(p, g)
  BY <1>2 DEF IsSum
<1>5. ExpSum = CHOOSE p : Rec(p)
  BY DEF ExpSum
<1>6. \E p : IsSum(p, g)
  BY <1>1, SumExists
<1> HIDE DEF Rec
<1>7. IsSum(ExpSum, g)
  BY <1>4, <1>5, <1>6
<1> QED
  BY <1>1, <1>3, <1>7, SumTerms

\* The sum of its halves.
LEMMA FloorSumFacts ==
  /\ FloorSum \in [Nat -> Nat] /\ FloorSum[0] = 0
  /\ \A n \in Nat : FloorSum[n + 1] = FloorSum[n] + Exp(n + 1) \div 2
<1> DEFINE Rec(p) == p = [n \in Nat |-> IF n = 0 THEN 0 ELSE p[n - 1] + ReplicaExp(n) \div 2]
           g == [n \in Nat |-> IF n = 0 THEN 0 ELSE ReplicaExp(n) \div 2]
<1>1. g \in [Nat -> Nat]
  BY ExpFacts
<1>2. \A n \in Nat : n # 0 => g[n] = ReplicaExp(n) \div 2
  OBVIOUS
<1>3. \A n \in Nat : g[n + 1] = Exp(n + 1) \div 2
  BY ExpFacts
<1> HIDE DEF g
<1>4. ASSUME NEW p PROVE Rec(p) <=> IsSum(p, g)
  BY <1>2 DEF IsSum
<1>5. FloorSum = CHOOSE p : Rec(p)
  BY DEF FloorSum
<1>6. \E p : IsSum(p, g)
  BY <1>1, SumExists
<1> HIDE DEF Rec
<1>7. IsSum(FloorSum, g)
  BY <1>4, <1>5, <1>6
<1> QED
  BY <1>1, <1>3, <1>7, SumTerms

-----------------------------------------------------------------------------
(* What one wait can be.                                                   *)

\* A product of naturals is one, and grows with its factors.
LEMMA Product ==
  ASSUME NEW a \in Nat, NEW b \in Nat, NEW c \in Nat, a <= b
  PROVE  /\ a * c \in Nat /\ b * c \in Nat /\ a * c <= b * c
<1>1. PICK d \in Nat : b = a + d
  <2>1. b - a \in Nat /\ b = a + (b - a)
    OBVIOUS
  <2> QED
    BY <2>1
<1>2. b * c = a * c + d * c
  BY <1>1
<1>3. a * c \in Nat /\ d * c \in Nat
  BY SMT
<1> QED
  BY <1>2, <1>3

\* A quotient lies where multiples of the divisor put it.
LEMMA Quotient ==
  ASSUME NEW a \in Nat, NEW d \in Nat \ {0}, NEW q \in Nat
  PROVE  /\ a \div d \in Nat
         /\ q * d <= a => q <= a \div d
         /\ a < q * d => a \div d < q
<1> DEFINE m == a \div d
<1>1. m \in Nat /\ m * d <= a /\ a < (m + 1) * d
  OBVIOUS
<1> HIDE DEF m
<1>2. ASSUME q * d <= a, q > m PROVE FALSE
  <2>1. (m + 1) * d <= q * d
    BY <1>1, <1>2, Product
  <2> QED
    BY <1>1, <1>2, <2>1
<1>3. ASSUME a < q * d, q <= m PROVE FALSE
  <2>1. q * d <= m * d
    BY <1>1, <1>3, Product
  <2> QED
    BY <1>1, <1>3, <2>1
<1>4. m \in Nat /\ (q * d <= a => q <= m) /\ (a < q * d => m < q)
  BY <1>1, <1>2, <1>3
<1> QED
  BY <1>4 DEF m

\* A proper fraction of a natural is a natural, and less than the whole.
LEMMA Fraction ==
  ASSUME NEW g \in Nat \ {0}, NEW u \in 0 .. g - 1, NEW x \in Nat
  PROVE  /\ (u * x) \div g \in Nat /\ (u * x) \div g <= x
         /\ x # 0 => (u * x) \div g < x
<1>1. u \in Nat /\ u * x \in Nat /\ x * g \in Nat
  OBVIOUS
<1>2. CASE x = 0
  <2>1. u * x = 0
    BY <1>2
  <2>2. u * x < 1 * g /\ 1 \in Nat
    BY <2>1
  <2>3. (u * x) \div g \in Nat /\ (u * x) \div g < 1
    BY <1>1, <2>2, Quotient
  <2> QED
    BY <1>2, <2>3
<1>3. CASE x # 0
  <2>1. u * x < x * g
    <3>1. (u + 1) * x <= g * x
      BY Product
    <3>2. (u + 1) * x = u * x + x /\ g * x = x * g
      OBVIOUS
    <3> QED
      BY <1>1, <1>3, <3>1, <3>2
  <2>2. (u * x) \div g \in Nat /\ (u * x) \div g < x
    BY <1>1, <2>1, Quotient
  <2> QED
    BY <2>2
<1> QED
  BY <1>2, <1>3

\* Equal jitter keeps half of the wait and stays under the whole.
LEMMA HalfToWhole ==
  ASSUME NEW e \in Nat \ {0}, NEW u \in 0 .. Grid - 1
  PROVE  /\ EqualJitter(e, u) \in Nat
         /\ e \div 2 <= EqualJitter(e, u) /\ EqualJitter(e, u) < e
<1> DEFINE f == e \div 2
           d == 2 * Grid
           a == e * Grid + u * e
<1>1. f \in Nat /\ 2 * f <= e
  OBVIOUS
<1>2. d \in Nat \ {0} /\ u * e \in Nat /\ e * Grid \in Nat /\ Grid \in Nat
  BY WaitsAssumption
<1>3. f * d <= e * Grid
  <2>1. (2 * f) * Grid <= e * Grid
    BY <1>1, WaitsAssumption, Product
  <2>2. (2 * f) * Grid = f * d
    BY <1>1, WaitsAssumption
  <2> QED
    BY <2>1, <2>2
<1>4. u * e < e * Grid
  <2>1. (u + 1) * e <= Grid * e
    BY WaitsAssumption, Product
  <2>2. (u + 1) * e = u * e + e /\ Grid * e = e * Grid
    BY WaitsAssumption
  <2> QED
    BY <1>2, <2>1, <2>2
<1>5. e * d = e * Grid + e * Grid
  BY WaitsAssumption
<1>6. a \in Nat /\ f * d <= a /\ a < e * d
  <2>1. f * d \in Nat
    BY <1>1, <1>2
  <2> HIDE DEF f, d
  <2> QED
    BY <1>2, <1>3, <1>4, <1>5, <2>1
<1> HIDE DEF a, d, f
<1>7. a \div d \in Nat /\ f <= a \div d /\ a \div d < e
  BY <1>1, <1>2, <1>6, Quotient
<1> QED
  BY <1>7 DEF a, d, f, EqualJitter

\* The floor of a wait, in the units of the memory.
Floor == Base * Grid

\* A draw keeps between the base and three times the wait before.
LEMMA DrawBounds ==
  ASSUME NEW u \in 0 .. Grid - 1, NEW p \in Nat, Floor <= p
  PROVE  /\ Draw(u, p) \in Nat /\ Floor <= Draw(u, p) /\ Draw(u, p) <= 3 * p
         /\ Draw(u, p) <= Cap * Grid
         /\ ReplicaDraw(u, p) = Draw(u, p)
<1> DEFINE x == 3 * p - Floor
           q == (u * x) \div Grid
<1>1. Floor \in Nat /\ Cap * Grid \in Nat /\ Floor <= Cap * Grid
  BY WaitsAssumption, Product DEF Floor
<1>2. x \in Nat
  BY <1>1
<1>3. q \in Nat /\ q <= x
  BY <1>2, Fraction, WaitsAssumption
<1>4. GreaterOf(0, 3 * p - Base * Grid) = x /\ GreaterOf(0, p * 3 - Base * Grid) = x
  BY <1>1, <1>2 DEF GreaterOf, Floor
<1>5. Draw(u, p) = LesserOf(Cap * Grid, Floor + q) /\ ReplicaDraw(u, p) = Draw(u, p)
  BY <1>4 DEF Draw, ReplicaDraw, Floor
<1>6. Floor + q <= 3 * p
  BY <1>1, <1>3
<1> HIDE DEF q, x, Floor
<1> QED
  BY <1>1, <1>3, <1>5, <1>6 DEF LesserOf

\* Every strategy's wait, whatever is drawn, and that both switches name the same.
LEMMA WaitBounds ==
  ASSUME NEW s \in Strategies, NEW n \in Nat \ {0}, NEW u \in 0 .. Grid - 1,
         NEW p \in Nat, Floor <= p
  PROVE  /\ ComputeBackoff(s, n, u, p) \in Nat
         /\ s = "none"         => ComputeBackoff(s, n, u, p) = 0
         /\ s = "fixed"        => ComputeBackoff(s, n, u, p) = Base
         /\ s = "exp"          => ComputeBackoff(s, n, u, p) = Exp(n)
         /\ s = "equal_jitter" => /\ Exp(n) \div 2 <= ComputeBackoff(s, n, u, p)
                                  /\ ComputeBackoff(s, n, u, p) <= Exp(n) - 1
         /\ s = "full_jitter"  => ComputeBackoff(s, n, u, p) <= Exp(n) - 1
         /\ s = "decorrelated" => /\ Base <= ComputeBackoff(s, n, u, p)
                                  /\ ComputeBackoff(s, n, u, p) <= Cap
         /\ ReplicaWait(s, n, u, p) = ComputeBackoff(s, n, u, p)
<1> DEFINE w == ComputeBackoff(s, n, u, p)
<1>1. Exp(n) \in Nat \ {0} /\ ReplicaExp(n) = Exp(n)
  BY ExpFacts
<1>2. ReplicaDraw(u, p) = Draw(u, p)
  BY DrawBounds
<1>3. ReplicaWait(s, n, u, p) = w
  BY <1>1, <1>2 DEF ComputeBackoff, ReplicaWait, EqualJitter, FullJitter
<1>4. CASE s \in {"none", "fixed", "exp"}
  BY <1>1, <1>3, <1>4, WaitsAssumption DEF ComputeBackoff
<1>5. CASE s = "equal_jitter"
  <2>1. w = EqualJitter(Exp(n), u)
    BY <1>5 DEF ComputeBackoff
  <2>2. EqualJitter(Exp(n), u) \in Nat /\ Exp(n) \div 2 <= EqualJitter(Exp(n), u)
        /\ EqualJitter(Exp(n), u) < Exp(n)
    BY <1>1, HalfToWhole
  <2> HIDE DEF w
  <2>3. w \in Nat /\ Exp(n) \div 2 <= w /\ w <= Exp(n) - 1
    BY <1>1, <2>1, <2>2
  <2> QED
    BY <1>3, <1>5, <2>3 DEF w
<1>6. CASE s = "full_jitter"
  <2>1. w = (u * Exp(n)) \div Grid
    BY <1>6 DEF ComputeBackoff, FullJitter
  <2>2. (u * Exp(n)) \div Grid \in Nat /\ (u * Exp(n)) \div Grid < Exp(n)
    BY <1>1, WaitsAssumption, Fraction
  <2> HIDE DEF w
  <2>3. w \in Nat /\ w <= Exp(n) - 1
    BY <1>1, <2>1, <2>2
  <2> QED
    BY <1>3, <1>6, <2>3 DEF w
<1>7. CASE s = "decorrelated"
  <2>1. w = Draw(u, p) \div Grid
    BY <1>7 DEF ComputeBackoff
  <2>2. Draw(u, p) \in Nat /\ Base * Grid <= Draw(u, p) /\ Draw(u, p) <= Cap * Grid
    BY DrawBounds DEF Floor
  <2>3. Draw(u, p) < (Cap + 1) * Grid
    <3>1. (Cap + 1) * Grid = Cap * Grid + Grid /\ Cap * Grid \in Nat
      BY WaitsAssumption
    <3> QED
      BY <2>2, <3>1, WaitsAssumption
  <2>4. Draw(u, p) \div Grid \in Nat /\ Base <= Draw(u, p) \div Grid
        /\ Draw(u, p) \div Grid < Cap + 1
    <3>1. Grid \in Nat \ {0} /\ Base \in Nat /\ Cap + 1 \in Nat
      BY WaitsAssumption
    <3>2. PICK x \in Nat : x = Draw(u, p)
      BY <2>2
    <3>3. x \div Grid \in Nat /\ Base <= x \div Grid
      BY <2>2, <3>1, <3>2, Quotient
    <3>4. x \div Grid < Cap + 1
      BY <2>3, <3>1, <3>2, Quotient
    <3> QED
      BY <3>2, <3>3, <3>4
  <2> HIDE DEF w
  <2>5. w \in Nat /\ Base <= w /\ w <= Cap
    BY <2>1, <2>4, WaitsAssumption
  <2> QED
    BY <1>3, <1>7, <2>5 DEF w
<1> QED
  BY <1>4, <1>5, <1>6, <1>7 DEF Strategies

\* The reach of strategy s after m waits that add up to t.
Reach(s, t, m) ==
  /\ s = "none"         => t = 0
  /\ s = "fixed"        => t = m * Base
  /\ s = "exp"          => t = ExpSum[m]
  /\ s = "equal_jitter" => FloorSum[m] <= t /\ t <= ExpSum[m] - m
  /\ s = "full_jitter"  => t <= ExpSum[m] - m
  /\ s = "decorrelated" => m * Base <= t /\ t <= m * Cap

\* One more wait of the strategy keeps the sum in reach.
LEMMA ReachGrows ==
  ASSUME NEW s \in Strategies, NEW t \in Nat, NEW m \in Nat, Reach(s, t, m),
         NEW u \in 0 .. Grid - 1, NEW p \in Nat, Floor <= p
  PROVE  Reach(s, t + ComputeBackoff(s, m + 1, u, p), m + 1)
<1> DEFINE w == ComputeBackoff(s, m + 1, u, p)
<1>1. m + 1 \in Nat \ {0} /\ Base \in Nat /\ Cap \in Nat
  BY WaitsAssumption
<1>2. /\ ExpSum[m + 1] = ExpSum[m] + Exp(m + 1) /\ ExpSum[m] \in Nat
      /\ FloorSum[m + 1] = FloorSum[m] + Exp(m + 1) \div 2 /\ FloorSum[m] \in Nat
      /\ Exp(m + 1) \in Nat /\ Exp(m + 1) \div 2 \in Nat
  BY <1>1, ExpSumFacts, FloorSumFacts, ExpFacts, SMTT(30)
<1>3. (m + 1) * Base = m * Base + Base /\ (m + 1) * Cap = m * Cap + Cap
      /\ m * Base \in Nat /\ m * Cap \in Nat
  BY <1>1
<1>4. /\ w \in Nat
      /\ s = "none" => w = 0
      /\ s = "fixed" => w = Base
      /\ s = "exp" => w = Exp(m + 1)
      /\ s = "equal_jitter" => Exp(m + 1) \div 2 <= w /\ w <= Exp(m + 1) - 1
      /\ s = "full_jitter" => w <= Exp(m + 1) - 1
      /\ s = "decorrelated" => Base <= w /\ w <= Cap
  BY <1>1, WaitBounds
<1> HIDE DEF w
<1>5. Reach(s, t + w, m + 1)
  BY <1>1, <1>2, <1>3, <1>4 DEF Reach
<1> QED
  BY <1>5 DEF w

-----------------------------------------------------------------------------
(* Sums over a set.                                                        *)

Some(s) == CHOOSE x \in s : TRUE

\* f[s] is the sum of g over s, for every part s of S.
SumsOver(f, g, S) ==
  f = [s \in SUBSET S |-> IF s = {} THEN 0 ELSE g[Some(s)] + f[s \ {Some(s)}]]

\* A part that is not empty has a member to take out, and is smaller without it.
LEMMA TakeOne ==
  ASSUME NEW S, IsFiniteSet(S), NEW s \in SUBSET S, s # {}, NEW n \in Nat, Cardinality(s) <= n + 1
  PROVE  /\ Some(s) \in s /\ s \ {Some(s)} \in SUBSET S
         /\ Cardinality(s \ {Some(s)}) <= n
<1>1. Some(s) \in s
  BY DEF Some
<1>2. IsFiniteSet(s) /\ Cardinality(s) \in Nat
  BY FS_Subset, FS_CardinalityType
<1>3. Cardinality(s \ {Some(s)}) = Cardinality(s) - 1
  BY <1>1, <1>2, FS_RemoveElement
<1> QED
  BY <1>1, <1>2, <1>3

\* Induction over the parts of a finite set, by their size.
LEMMA PartInduction ==
  ASSUME NEW S, IsFiniteSet(S), NEW Q \in SUBSET (SUBSET S), {} \in Q,
         \A s \in SUBSET S : s # {} /\ s \ {Some(s)} \in Q => s \in Q
  PROVE  Q = SUBSET S
<1> DEFINE T == {n \in Nat : \A s \in SUBSET S : Cardinality(s) <= n => s \in Q}
<1>1. \A s \in SUBSET S : IsFiniteSet(s) /\ Cardinality(s) \in Nat
  BY FS_Subset, FS_CardinalityType
<1>2. 0 \in T
  <2>1. ASSUME NEW s \in SUBSET S, Cardinality(s) <= 0 PROVE s \in Q
    <3>1. Cardinality(s) = 0
      BY <1>1, <2>1
    <3>2. s = {}
      BY <1>1, <3>1, FS_EmptySet
    <3> QED
      BY <3>2
  <2> QED
    BY <2>1
<1>3. ASSUME NEW n \in Nat, n \in T PROVE n + 1 \in T
  <2>1. ASSUME NEW s \in SUBSET S, Cardinality(s) <= n + 1, s # {} PROVE s \in Q
    <3>1. s \ {Some(s)} \in SUBSET S /\ Cardinality(s \ {Some(s)}) <= n
      BY <2>1, TakeOne
    <3> QED
      BY <1>3, <2>1, <3>1
  <2> QED
    BY <2>1
<1> HIDE DEF T
<1>4. Nat \subseteq T
  BY <1>2, <1>3, Induct
<1>5. ASSUME NEW s \in SUBSET S PROVE s \in Q
  <2>1. Cardinality(s) \in T /\ Cardinality(s) <= Cardinality(s)
    BY <1>1, <1>4
  <2> QED
    BY <2>1 DEF T
<1> QED
  BY <1>5

\* There are such sums.
LEMMA SumsExist ==
  ASSUME NEW S, IsFiniteSet(S), NEW g, \A x \in S : g[x] \in Int
  PROVE  \E f : SumsOver(f, g, S)
<1> DEFINE X == [SUBSET S -> Int]
           Next1(e) == [s \in SUBSET S |-> IF s = {} THEN 0 ELSE g[Some(s)] + e[s \ {Some(s)}]]
           x0 == [s \in SUBSET S |-> 0]
           h == [n \in Nat |-> [e \in X |-> Next1(e)]]
<1>1. \A e \in X : Next1(e) \in X
  <2> SUFFICES ASSUME NEW e \in X, NEW s \in SUBSET S, s # {}
               PROVE  g[Some(s)] + e[s \ {Some(s)}] \in Int
    OBVIOUS
  <2>1. Some(s) \in S /\ s \ {Some(s)} \in SUBSET S
    BY DEF Some
  <2> QED
    BY <2>1
<1>a. x0 \in X
  OBVIOUS
<1> HIDE DEF Next1, X
<1>2. Stepper(X, x0, h)
  BY <1>1, <1>a DEF Stepper
<1>3. \A n \in Nat, e \in X : h[n][e] = Next1(e)
  OBVIOUS
<1> HIDE DEF x0, h
<1>4. Recurses(X, x0, h)
  BY <1>2, Recursion
<1>5. PICK F \in [Nat -> X] : F[0] = x0 /\ \A n \in Nat : F[n + 1] = h[n][F[n]]
  BY <1>4 DEF Recurses
<1>6. ASSUME NEW n \in Nat PROVE F[n] \in X /\ F[n + 1] = Next1(F[n])
  BY <1>3, <1>5
<1> DEFINE T == {n \in Nat : \A s \in SUBSET S : Cardinality(s) <= n => F[n + 1][s] = F[n][s]}
<1>7. 0 \in T
  <2>1. ASSUME NEW s \in SUBSET S, Cardinality(s) <= 0 PROVE F[0 + 1][s] = F[0][s]
    <3>1. IsFiniteSet(s) /\ Cardinality(s) \in Nat
      BY FS_Subset, FS_CardinalityType
    <3>2. s = {}
      BY <2>1, <3>1, FS_EmptySet
    <3>3. F[0 + 1] = Next1(F[0])
      BY <1>6
    <3> QED
      BY <1>5, <3>2, <3>3 DEF Next1, x0
  <2> QED
    BY <2>1
<1>8. ASSUME NEW n \in Nat, n \in T PROVE n + 1 \in T
  <2>1. ASSUME NEW s \in SUBSET S, Cardinality(s) <= n + 1 PROVE F[(n + 1) + 1][s] = F[n + 1][s]
    <3>1. n + 1 \in Nat /\ F[n + 1] = Next1(F[n]) /\ F[(n + 1) + 1] = Next1(F[n + 1])
      BY <1>6
    <3>2. CASE s = {}
      BY <3>1, <3>2 DEF Next1
    <3>3. CASE s # {}
      <4>1. s \ {Some(s)} \in SUBSET S /\ Cardinality(s \ {Some(s)}) <= n
        BY <2>1, <3>3, TakeOne
      <4>2. F[n + 1][s \ {Some(s)}] = F[n][s \ {Some(s)}]
        BY <1>8, <4>1
      <4> QED
        BY <3>1, <3>3, <4>2 DEF Next1
    <3> QED
      BY <3>2, <3>3
  <2> QED
    BY <2>1
<1> HIDE DEF T
<1>9. Nat \subseteq T
  BY <1>7, <1>8, Induct
<1> DEFINE N == Cardinality(S)
<1>10. N \in Nat /\ \A s \in SUBSET S : Cardinality(s) <= N
  BY FS_Subset, FS_CardinalityType
<1> HIDE DEF N
<1>11. F[N] = Next1(F[N])
  <2>1. F[N] \in X /\ F[N + 1] = Next1(F[N]) /\ F[N + 1] \in X /\ N \in T
    BY <1>6, <1>9, <1>10
  <2>2. \A s \in SUBSET S : F[N + 1][s] = F[N][s]
    BY <1>10, <2>1 DEF T
  <2> QED
    BY <2>1, <2>2 DEF X
<1> QED
  BY <1>11 DEF Next1, SumsOver

\* d is g but for one more at x.
OneMore(d, g, x, S) == d[x] = g[x] + 1 /\ \A y \in S : y # x => d[y] = g[y]

\* What is one assigns naturals; one more at one member is one more in the sum,
\* and nothing everywhere is nothing.
LEMMA SumsGrow ==
  ASSUME NEW S, IsFiniteSet(S), NEW g, \A x \in S : g[x] \in Nat, NEW f, SumsOver(f, g, S)
  PROVE  /\ \A s \in SUBSET S : f[s] \in Nat
         /\ (\A x \in S : g[x] = 0) => f[S] = 0
         /\ \A e, d : \A x \in S : SumsOver(e, d, S) /\ OneMore(d, g, x, S) => e[S] = f[S] + 1
<1>1. \A s \in SUBSET S : f[s] = IF s = {} THEN 0 ELSE g[Some(s)] + f[s \ {Some(s)}]
  BY DEF SumsOver
<1>2. \A s \in SUBSET S : s # {} => Some(s) \in s /\ Some(s) \in S /\ s \ {Some(s)} \in SUBSET S
  BY DEF Some
<1>3. \A s \in SUBSET S : f[s] \in Nat
  <2> DEFINE Q == {s \in SUBSET S : f[s] \in Nat}
  <2>1. {} \in Q
    <3>1. {} \in SUBSET S
      OBVIOUS
    <3>2. f[{}] = 0
      BY <1>1, <3>1
    <3> QED
      BY <3>1, <3>2
  <2>2. ASSUME NEW s \in SUBSET S, s # {}, s \ {Some(s)} \in Q PROVE s \in Q
    BY <1>1, <1>2, <2>2
  <2>3. Q \in SUBSET (SUBSET S)
    OBVIOUS
  <2> HIDE DEF Q
  <2>4. Q = SUBSET S
    BY <2>1, <2>2, <2>3, PartInduction
  <2> QED
    BY <2>4 DEF Q
<1>4. ASSUME \A x \in S : g[x] = 0 PROVE f[S] = 0
  <2> DEFINE Q == {s \in SUBSET S : f[s] = 0}
  <2>1. {} \in Q
    BY <1>1
  <2>2. ASSUME NEW s \in SUBSET S, s # {}, s \ {Some(s)} \in Q PROVE s \in Q
    BY <1>1, <1>2, <1>4, <2>2
  <2>3. Q \in SUBSET (SUBSET S)
    OBVIOUS
  <2> HIDE DEF Q
  <2>4. Q = SUBSET S
    BY <2>1, <2>2, <2>3, PartInduction
  <2>5. S \in Q
    BY <2>4
  <2> QED
    BY <2>5 DEF Q
<1>5. ASSUME NEW e, NEW d, NEW x \in S, SumsOver(e, d, S), OneMore(d, g, x, S)
      PROVE  e[S] = f[S] + 1
  <2> DEFINE Q == {s \in SUBSET S : e[s] = f[s] + IF x \in s THEN 1 ELSE 0}
  <2>0. d[x] = g[x] + 1 /\ \A y \in S : y # x => d[y] = g[y]
    BY <1>5 DEF OneMore
  <2>a. \A s \in SUBSET S : e[s] = IF s = {} THEN 0 ELSE d[Some(s)] + e[s \ {Some(s)}]
    BY <1>5 DEF SumsOver
  <2>1. {} \in Q
    BY <1>1, <2>a
  <2>2. ASSUME NEW s \in SUBSET S, s # {}, s \ {Some(s)} \in Q PROVE s \in Q
    <3>1. f[s \ {Some(s)}] \in Nat /\ g[Some(s)] \in Nat
      BY <1>2, <1>3, <2>2
    <3>2. e[s] = d[Some(s)] + e[s \ {Some(s)}] /\ f[s] = g[Some(s)] + f[s \ {Some(s)}]
      BY <1>1, <2>a, <2>2
    <3>3. e[s \ {Some(s)}] = f[s \ {Some(s)}] + IF x \in s \ {Some(s)} THEN 1 ELSE 0
      BY <2>2
    <3>4. CASE Some(s) = x
      BY <1>2, <2>0, <2>2, <3>1, <3>2, <3>3, <3>4
    <3>5. CASE Some(s) # x
      BY <1>2, <2>0, <2>2, <3>1, <3>2, <3>3, <3>5
    <3> QED
      BY <3>4, <3>5
  <2>3. Q \in SUBSET (SUBSET S)
    OBVIOUS
  <2> HIDE DEF Q
  <2>4. Q = SUBSET S
    BY <2>1, <2>2, <2>3, PartInduction
  <2>5. S \in Q
    BY <2>4
  <2> QED
    BY <2>5 DEF Q
<1> QED
  BY <1>3, <1>4, <1>5

\* The sum of g over S, as the module writes it.
Total(g, S) == MapThenSumSet(LAMBDA k : g[k], S)

\* The sum of nothing, and of one more.
LEMMA TotalFacts ==
  ASSUME NEW S, IsFiniteSet(S), NEW g, \A x \in S : g[x] \in Nat
  PROVE  /\ Total(g, S) \in Nat
         /\ (\A x \in S : g[x] = 0) => Total(g, S) = 0
         /\ \A d : \A x \in S : OneMore(d, g, x, S) => Total(d, S) = Total(g, S) + 1
<1> DEFINE It(d) == CHOOSE f : SumsOver(f, d, S)
<1>1. \A d : Total(d, S) = It(d)[S]
  BY DEF Total, MapThenSumSet, MapThenFoldSet, SumsOver, Some
<1>2. \A d : (\A x \in S : d[x] \in Nat) => SumsOver(It(d), d, S)
  BY SumsExist
<1> HIDE DEF It
<1>3. SumsOver(It(g), g, S)
  BY <1>2
<1>4. Total(g, S) \in Nat /\ ((\A x \in S : g[x] = 0) => Total(g, S) = 0)
  BY <1>1, <1>3, SumsGrow
<1>5. ASSUME NEW d, NEW x \in S, OneMore(d, g, x, S) PROVE Total(d, S) = Total(g, S) + 1
  <2>1. \A y \in S : d[y] \in Nat
    BY <1>5 DEF OneMore
  <2>2. SumsOver(It(d), d, S)
    BY <1>2, <2>1
  <2> QED
    BY <1>1, <1>3, <1>5, <2>2, SumsGrow
<1> QED
  BY <1>4, <1>5

-----------------------------------------------------------------------------
(* The worst window.                                                       *)

\* The greatest of a set of integers is the one nothing in the set exceeds.
LEMMA MaxIs ==
  ASSUME NEW S \in SUBSET Int, NEW m \in S, \A y \in S : y <= m
  PROVE  Max(S) = m
<1>1. \E x \in S : \A y \in S : x >= y
  OBVIOUS
<1>2. Max(S) \in S /\ \A y \in S : Max(S) >= y
  BY <1>1 DEF Max
<1>3. PICK x \in S : x = Max(S) /\ \A y \in S : x >= y
  BY <1>2
<1>4. x \in Int /\ m \in Int /\ x >= m /\ x <= m
  BY <1>3
<1> QED
  BY <1>3, <1>4

\* A set of integers with a bound has a greatest member.
LEMMA GreatestExists ==
  ASSUME NEW S \in SUBSET Int, S # {}, NEW b \in Int, \A y \in S : y <= b
  PROVE  \E m \in S : \A y \in S : y <= m
<1> DEFINE T == {b - y : y \in S}
<1>1. T \in SUBSET Nat /\ T # {}
  <2>1. \A y \in S : b - y \in Nat
    <3> SUFFICES ASSUME NEW y \in S PROVE b - y \in Nat
      OBVIOUS
    <3>1. y \in Int /\ y <= b
      OBVIOUS
    <3> QED
      BY <3>1
  <2>2. PICK y : y \in S
    OBVIOUS
  <2>3. b - y \in T
    BY <2>2
  <2> QED
    BY <2>1, <2>3
<1>2. PICK x \in T : \A y \in T : x <= y
  BY <1>1, LeastNat
<1>3. PICK m \in S : x = b - m
  BY <1>2
<1>4. ASSUME NEW y \in S PROVE y <= m
  <2>1. b - m <= b - y
    BY <1>2, <1>3
  <2> QED
    BY <2>1
<1> QED
  BY <1>4

\* The times of sorted attempts.
Ascending(s) == \A i, j \in DOMAIN s : i <= j => s[i] <= s[j]

\* The window that opens at the i-th attempt, as sliding_peak counts it.
FromEntry(s, i) == SearchLeft(s, s[i] + Window) - (i - 1)

\* Counting by positions and counting by times.
LEMMA Counts ==
  ASSUME NEW n \in Nat, NEW s \in [1 .. n -> Nat], Ascending(s), NEW t \in Int
  PROVE  /\ IsFiniteSet({j \in 1 .. n : s[j] < t})
         /\ SearchLeft(s, t) \in Nat /\ SearchLeft(s, t) <= n
         /\ InWindow(s, t) \in Nat /\ InWindow(s, t) <= n
<1> DEFINE I == 1 .. n
<1>1. IsFiniteSet(I) /\ Cardinality(I) = n /\ DOMAIN s = 1 .. n
  BY FS_Interval
<1>2. \A T \in SUBSET (1 .. n) : IsFiniteSet(T) /\ Cardinality(T) \in Nat /\ Cardinality(T) <= n
  <2> SUFFICES ASSUME NEW T \in SUBSET (1 .. n)
               PROVE  IsFiniteSet(T) /\ Cardinality(T) \in Nat /\ Cardinality(T) <= n
    OBVIOUS
  <2>1. T \in SUBSET I
    OBVIOUS
  <2> HIDE DEF I
  <2>2. IsFiniteSet(T) /\ Cardinality(T) <= Cardinality(I)
    BY <1>1, <2>1, FS_Subset
  <2> QED
    BY <1>1, <2>2, FS_CardinalityType
<1> QED
  BY <1>1, <1>2 DEF SearchLeft, InWindow

\* What sliding_peak counts from an attempt is in the window that opens at its time.
LEMMA EntryInWindow ==
  ASSUME NEW n \in Nat, NEW s \in [1 .. n -> Nat], Ascending(s), NEW i \in 1 .. n, Window \in Nat
  PROVE  FromEntry(s, i) <= InWindow(s, s[i])
<1> DEFINE L == {j \in 1 .. n : s[j] < s[i] + Window}
           W == {j \in 1 .. n : s[i] <= s[j] /\ s[j] < s[i] + Window}
<1>1. DOMAIN s = 1 .. n
  OBVIOUS
<1>2. IsFiniteSet(L) /\ IsFiniteSet(W) /\ IsFiniteSet(1 .. i - 1) /\ Cardinality(1 .. i - 1) = i - 1
  <2>1. L \in SUBSET (1 .. n) /\ W \in SUBSET (1 .. n) /\ IsFiniteSet(1 .. n)
    BY FS_Interval
  <2>2. Cardinality(1 .. i - 1) = i - 1 /\ IsFiniteSet(1 .. i - 1)
    <3>1. 1 \in Int /\ i - 1 \in Int /\ i - 1 >= 0
      OBVIOUS
    <3>2. IsFiniteSet(1 .. i - 1) /\ Cardinality(1 .. i - 1) = IF 1 > i - 1 THEN 0 ELSE (i - 1) - 1 + 1
      BY <3>1, FS_Interval
    <3> QED
      BY <3>1, <3>2
  <2> HIDE DEF L, W
  <2>3. IsFiniteSet(L) /\ IsFiniteSet(W)
    BY <2>1, FS_Subset
  <2> QED
    BY <2>2, <2>3
<1>3. L \in SUBSET ((1 .. i - 1) \cup W)
  <2>1. ASSUME NEW j \in L, j \notin 1 .. i - 1 PROVE s[i] <= s[j]
    BY <1>1, <2>1 DEF Ascending
  <2> QED
    BY <2>1
<1>4. SearchLeft(s, s[i] + Window) = Cardinality(L) /\ InWindow(s, s[i]) = Cardinality(W)
  BY <1>1 DEF SearchLeft, InWindow
<1> HIDE DEF L, W
<1>5. Cardinality(L) <= Cardinality((1 .. i - 1) \cup W) /\ IsFiniteSet((1 .. i - 1) \cup W)
  BY <1>2, <1>3, FS_Union, FS_Subset
<1>6. /\ Cardinality((1 .. i - 1) \cup W)
           = Cardinality(1 .. i - 1) + Cardinality(W) - Cardinality((1 .. i - 1) \cap W)
      /\ Cardinality((1 .. i - 1) \cap W) \in Nat /\ Cardinality(W) \in Nat /\ Cardinality(L) \in Nat
      /\ Cardinality((1 .. i - 1) \cup W) \in Nat
  BY <1>2, <1>5, FS_Union, FS_Intersection, FS_CardinalityType
<1> QED
  BY <1>2, <1>4, <1>5, <1>6 DEF FromEntry

\* Of any window, all is counted from the first attempt in it.
LEMMA WindowFromEntry ==
  ASSUME NEW n \in Nat, n # 0, NEW s \in [1 .. n -> Nat], Ascending(s), NEW t \in Int,
         Window \in Nat \ {0}
  PROVE  \E i \in 1 .. n : InWindow(s, t) <= FromEntry(s, i)
<1> DEFINE T == {j \in 1 .. n : t <= s[j]}
           W == {j \in 1 .. n : t <= s[j] /\ s[j] < t + Window}
<1>1. DOMAIN s = 1 .. n /\ IsFiniteSet(1 .. n)
  BY FS_Interval
<1>2. InWindow(s, t) = Cardinality(W)
  BY <1>1 DEF InWindow
<1>3. ASSUME NEW i \in 1 .. n, \A j \in W : i <= j /\ s[j] < s[i] + Window, \A j \in 1 .. i - 1 : j \in 1 .. n
      PROVE  Cardinality(W) <= FromEntry(s, i)
  <2> DEFINE L == {j \in 1 .. n : s[j] < s[i] + Window}
             B == 1 .. i - 1
  <2>1. B \in SUBSET L /\ W \in SUBSET (L \ B)
    <3>1. ASSUME NEW j \in B PROVE s[j] < s[i] + Window
      <4>1. j \in 1 .. n /\ s[j] <= s[i]
        BY <1>1, <1>3 DEF Ascending
      <4> QED
        BY <4>1
    <3>2. \A j \in W : j \notin B
      BY <1>3
    <3> QED
      BY <1>3, <3>1, <3>2
  <2>2. IsFiniteSet(L) /\ IsFiniteSet(B) /\ Cardinality(B) = i - 1
    <3>1. L \in SUBSET (1 .. n)
      OBVIOUS
    <3>2. 1 \in Int /\ i - 1 \in Int /\ i - 1 >= 0
      OBVIOUS
    <3>3. IsFiniteSet(B) /\ Cardinality(B) = IF 1 > i - 1 THEN 0 ELSE (i - 1) - 1 + 1
      BY <3>2, FS_Interval
    <3> HIDE DEF L, B
    <3>4. IsFiniteSet(L)
      BY <1>1, <3>1, FS_Subset
    <3> QED
      BY <3>2, <3>3, <3>4
  <2>3. SearchLeft(s, s[i] + Window) = Cardinality(L)
    BY <1>1 DEF SearchLeft
  <2> HIDE DEF L, B, W
  <2>4. IsFiniteSet(L \ B) /\ Cardinality(L \ B) = Cardinality(L) - Cardinality(B)
    <3>1. L \cap B = B
      BY <2>1
    <3>2. IsFiniteSet(L \ B) /\ Cardinality(L \ B) = Cardinality(L) - Cardinality(L \cap B)
      BY <2>2, FS_Difference
    <3> QED
      BY <3>1, <3>2
  <2>5. Cardinality(W) <= Cardinality(L \ B) /\ Cardinality(L) \in Nat
    BY <2>1, <2>2, <2>4, FS_Subset, FS_CardinalityType
  <2> QED
    BY <2>2, <2>3, <2>4, <2>5 DEF FromEntry
<1>4. CASE T = {}
  <2>1. \A j \in W : FALSE
    BY <1>4
  <2>2. 1 \in 1 .. n
    OBVIOUS
  <2> HIDE DEF W, T
  <2>3. Cardinality(W) <= FromEntry(s, 1)
    BY <1>3, <2>1, <2>2
  <2> QED
    BY <1>2, <2>2, <2>3
<1>5. CASE T # {}
  <2>1. T \in SUBSET Nat
    OBVIOUS
  <2>2. PICK i \in T : \A j \in T : i <= j
    BY <1>5, <2>1, LeastNat
  <2>3. i \in 1 .. n /\ t <= s[i]
    BY <2>2
  <2>4. \A j \in W : i <= j /\ s[j] < s[i] + Window
    BY <2>2, <2>3
  <2>5. \A j \in 1 .. i - 1 : j \in 1 .. n
    BY <2>3
  <2> HIDE DEF W, T
  <2>6. Cardinality(W) <= FromEntry(s, i)
    BY <1>3, <2>3, <2>4, <2>5
  <2> QED
    BY <1>2, <2>3, <2>6
<1> QED
  BY <1>4, <1>5

\* No window holds more than sliding_peak finds, and one that opens at an attempt
\* holds as much.
LEMMA PeakHolds ==
  ASSUME NEW n \in Nat, NEW s \in [1 .. n -> Nat], Ascending(s), Window \in Nat \ {0},
         n = 0 <=> s = <<>>
  PROVE  /\ SlidingPeak(s) \in Nat
         /\ \A t \in Int : InWindow(s, t) \in Nat /\ InWindow(s, t) <= SlidingPeak(s)
         /\ n = 0 => SlidingPeak(s) = 0
         /\ n # 0 => \E i \in 1 .. n : SlidingPeak(s) = InWindow(s, s[i])
<1> DEFINE A == {FromEntry(s, i) : i \in 1 .. n}
<1>1. DOMAIN s = 1 .. n
  OBVIOUS
<1>2. \A t \in Int : SearchLeft(s, t) \in Nat /\ SearchLeft(s, t) <= n /\ InWindow(s, t) \in Nat
  <2> SUFFICES ASSUME NEW t \in Int
               PROVE  SearchLeft(s, t) \in Nat /\ SearchLeft(s, t) <= n /\ InWindow(s, t) \in Nat
    OBVIOUS
  <2> QED
    BY Counts
<1>3. CASE n = 0
  <2>1. s = <<>> /\ SlidingPeak(s) = 0
    BY <1>3 DEF SlidingPeak
  <2>2. \A t \in Int : InWindow(s, t) = 0
    <3>1. \A t : {i \in DOMAIN s : t <= s[i] /\ s[i] < t + Window} = {}
      BY <1>1, <1>3
    <3> QED
      BY <3>1, FS_EmptySet DEF InWindow
  <2> QED
    BY <1>2, <1>3, <2>1, <2>2
<1>4. CASE n # 0
  <2>1. SlidingPeak(s) = Max(A)
    BY <1>1, <1>4 DEF SlidingPeak, FromEntry
  <2>2. \A i \in 1 .. n : FromEntry(s, i) \in Int /\ FromEntry(s, i) <= n
    <3> SUFFICES ASSUME NEW i \in 1 .. n PROVE FromEntry(s, i) \in Int /\ FromEntry(s, i) <= n
      OBVIOUS
    <3>1. s[i] + Window \in Int
      OBVIOUS
    <3>2. SearchLeft(s, s[i] + Window) \in Nat /\ SearchLeft(s, s[i] + Window) <= n
      BY <1>2, <3>1
    <3> QED
      BY <3>2 DEF FromEntry
  <2>3. A \in SUBSET Int /\ A # {} /\ \A y \in A : y <= n
    BY <1>4, <2>2
  <2>4. PICK m \in A : \A y \in A : y <= m
    <3>1. n \in Int
      OBVIOUS
    <3> HIDE DEF A
    <3> QED
      BY <2>3, <3>1, GreatestExists, Zenon
  <2>5. \A t \in Int : InWindow(s, t) <= m
    <3> SUFFICES ASSUME NEW t \in Int PROVE InWindow(s, t) <= m
      OBVIOUS
    <3>1. PICK i \in 1 .. n : InWindow(s, t) <= FromEntry(s, i)
      BY <1>4, WindowFromEntry
    <3>2. FromEntry(s, i) <= m
      BY <2>4
    <3>3. FromEntry(s, i) \in Int
      BY <2>2
    <3>4. m \in Int
      BY <2>3
    <3>5. InWindow(s, t) \in Int
      BY <1>2
    <3> QED
      BY <3>1, <3>2, <3>3, <3>4, <3>5
  <2>6. PICK i \in 1 .. n : m = FromEntry(s, i)
    BY <2>4
  <2>7. m <= InWindow(s, s[i]) /\ s[i] \in Int
    BY <2>6, EntryInWindow
  <2>8. m = InWindow(s, s[i]) /\ m \in Nat
    <3> DEFINE w == InWindow(s, s[i])
    <3>1. m \in Int /\ w \in Nat /\ w <= m /\ m <= w
      BY <1>2, <2>3, <2>5, <2>7
    <3> HIDE DEF w
    <3>2. m = w /\ m \in Nat
      BY <3>1
    <3> QED
      BY <3>2 DEF w
  <2> HIDE DEF A
  <2>9. Max(A) = m
    BY <2>3, <2>4, MaxIs
  <2> QED
    BY <1>2, <1>4, <2>1, <2>5, <2>8, <2>9
<1> QED
  BY <1>3, <1>4

\* Windows that open between a second before boot and one after now are all there
\* are to look at.
LEMMA PeakIsGreatest ==
  ASSUME NEW n \in Nat, NEW s \in [1 .. n -> Nat], Ascending(s), NEW z \in Nat,
         \A i \in 1 .. n : s[i] <= z, Window \in Nat \ {0}, n = 0 <=> s = <<>>
  PROVE  SlidingPeak(s) = Max({InWindow(s, t) : t \in -Window .. z + Window})
<1> DEFINE B == {InWindow(s, t) : t \in -Window .. z + Window}
           p == SlidingPeak(s)
<1>1. /\ p \in Nat /\ \A t \in Int : InWindow(s, t) \in Nat /\ InWindow(s, t) <= p
      /\ n = 0 => p = 0
      /\ n # 0 => \E i \in 1 .. n : p = InWindow(s, s[i])
  BY PeakHolds
<1>2. 0 \in -Window .. z + Window /\ \A i \in 1 .. n : s[i] \in -Window .. z + Window
  OBVIOUS
<1>3. B \in SUBSET Int /\ \A y \in B : y <= p
  <2>1. \A t \in -Window .. z + Window : t \in Int
    OBVIOUS
  <2> HIDE DEF p
  <2>2. \A t \in Int : InWindow(s, t) \in Nat /\ InWindow(s, t) <= p
    BY <1>1, Zenon
  <2>3. \A t \in -Window .. z + Window : InWindow(s, t) \in Nat /\ InWindow(s, t) <= p
    BY <2>1, <2>2, Zenon
  <2> QED
    BY <2>3
<1>4. p \in B
  <2>1. CASE n = 0
    <3>1. 0 \in Int /\ InWindow(s, 0) \in B
      BY <1>2
    <3>2. InWindow(s, 0) = p
      <4>1. InWindow(s, 0) \in Nat /\ InWindow(s, 0) <= p /\ p = 0
        BY <1>1, <2>1, <3>1
      <4> QED
        BY <4>1
    <3> QED
      BY <3>1, <3>2
  <2>2. CASE n # 0
    BY <1>1, <1>2, <2>2
  <2> QED
    BY <2>1, <2>2
<1> HIDE DEF B
<1>5. Max(B) = p
  <2>1. PICK m \in B : m = p
    BY <1>4
  <2> QED
    BY <1>3, <2>1, MaxIs
<1> QED
  BY <1>5 DEF B, p

-----------------------------------------------------------------------------
(* What the waits of a schedule add up to.                                 *)

\* A function that recurs over 0 .. m, in the form the definitions have.
RecursTo(X, x0, m, h) ==
  \E f \in [0 .. m -> X] : f = [n \in 0 .. m |-> IF n = 0 THEN x0 ELSE h[n][f[n - 1]]]

\* There is one.
LEMMA BoundedRecursion ==
  ASSUME NEW X, NEW x0, NEW m \in Nat, NEW h, Stepper(X, x0, h)
  PROVE  RecursTo(X, x0, m, h)
<1>0. x0 \in X /\ h \in [Nat -> [X -> X]]
  BY DEF Stepper
<1> DEFINE e == [n \in Nat |-> h[n + 1]]
<1>1. e \in [Nat -> [X -> X]]
  <2> SUFFICES ASSUME NEW n \in Nat PROVE h[n + 1] \in [X -> X]
    OBVIOUS
  <2>1. n + 1 \in Nat
    OBVIOUS
  <2> QED
    BY <1>0, <2>1
<1>2. \A n \in Nat : e[n] = h[n + 1]
  OBVIOUS
<1> HIDE DEF e
<1>3. PICK f : StepsTo(f, m, X, x0, e)
  BY <1>0, <1>1, StepsExist
<1>4. f \in [0 .. m -> X] /\ f[0] = x0 /\ \A i \in 0 .. m - 1 : f[i + 1] = e[i][f[i]]
  BY <1>3 DEF StepsTo
<1>5. ASSUME NEW n \in 0 .. m, n # 0 PROVE f[n] = h[n][f[n - 1]]
  <2>1. n - 1 \in 0 .. m - 1 /\ n - 1 \in Nat /\ (n - 1) + 1 = n
    BY <1>5
  <2> QED
    BY <1>2, <1>4, <2>1
<1> QED
  BY <1>4, <1>5 DEF RecursTo

\* The sum so far and the memory.
RunningSums == [sum : Nat, prev : {p \in Nat : Floor <= p}]

\* The wait for the least random number.
LEMMA LeastWait ==
  ASSUME NEW s \in Strategies, NEW n \in Nat, NEW p \in Nat, Floor <= p
  PROVE  GuaranteedSum(s, n + 2) = GuaranteedSum(s, n + 1) + ComputeBackoff(s, n + 1, 0, p)
<1>1. /\ n + 1 \in Nat \ {0} /\ (n + 2) - 1 = n + 1 /\ (n + 1) - 1 = n
      /\ Base \in Nat \ {0} /\ Grid \in Nat \ {0} /\ Cap \in Nat /\ Base <= Cap
  BY WaitsAssumption
<1>2. /\ ExpSum[n + 1] = ExpSum[n] + Exp(n + 1) /\ ExpSum[n] \in Nat
      /\ FloorSum[n + 1] = FloorSum[n] + Exp(n + 1) \div 2 /\ FloorSum[n] \in Nat
      /\ Exp(n + 1) \in Nat
  BY <1>1, ExpSumFacts, FloorSumFacts, ExpFacts
<1> DEFINE e == Exp(n + 1)
<1>3. CASE s = "none"
  BY <1>1, <1>3 DEF GuaranteedSum, ComputeBackoff
<1>4. CASE s = "fixed"
  <2>1. GuaranteedSum(s, n + 2) = (n + 1) * Base /\ GuaranteedSum(s, n + 1) = n * Base
    BY <1>1, <1>4 DEF GuaranteedSum
  <2>2. ComputeBackoff(s, n + 1, 0, p) = Base /\ (n + 1) * Base = n * Base + Base
    BY <1>1, <1>4 DEF ComputeBackoff
  <2> QED
    BY <2>1, <2>2
<1>5. CASE s = "exp"
  <2>1. GuaranteedSum(s, n + 2) = ExpSum[n + 1] /\ GuaranteedSum(s, n + 1) = ExpSum[n]
    BY <1>1, <1>5 DEF GuaranteedSum
  <2>2. ComputeBackoff(s, n + 1, 0, p) = Exp(n + 1)
    BY <1>5 DEF ComputeBackoff
  <2> QED
    BY <1>2, <2>1, <2>2
<1>6. CASE s = "equal_jitter"
  <2>1. GuaranteedSum(s, n + 2) = FloorSum[n + 1] /\ GuaranteedSum(s, n + 1) = FloorSum[n]
    BY <1>1, <1>6 DEF GuaranteedSum
  <2>2. ComputeBackoff(s, n + 1, 0, p) = (e * Grid + 0 * e) \div (2 * Grid)
    BY <1>6 DEF ComputeBackoff, EqualJitter
  <2>3. (e * Grid + 0 * e) \div (2 * Grid) = e \div 2
    <3> HIDE DEF e
    <3>0. e \in Nat
      BY <1>2 DEF e
    <3>1. e * Grid + 0 * e = e * Grid /\ e * Grid \in Nat /\ 2 * Grid \in Nat \ {0}
      BY <1>1, <3>0
    <3> DEFINE f == e \div 2
    <3>2. f \in Nat /\ 2 * f <= e /\ e < 2 * (f + 1)
      BY <3>0
    <3> HIDE DEF f
    <3>3. (2 * f) * Grid <= e * Grid
      BY <1>1, <3>0, <3>2, Product
    <3>4. e * Grid < (f + 1) * (2 * Grid)
      <4>1. (e + 1) * Grid <= (2 * (f + 1)) * Grid
        BY <1>1, <3>0, <3>2, Product
      <4>2. (e + 1) * Grid = e * Grid + Grid /\ (2 * (f + 1)) * Grid = (f + 1) * (2 * Grid)
        BY <1>1, <3>0, <3>2
      <4> DEFINE a == e * Grid
                 b == (f + 1) * (2 * Grid)
      <4>3. a \in Nat /\ b \in Nat /\ a + Grid <= b
        BY <1>1, <3>1, <3>2, <4>1, <4>2
      <4> HIDE DEF a, b
      <4>4. a < b
        BY <1>1, <4>3
      <4> QED
        BY <4>4 DEF a, b
    <3>5. f * (2 * Grid) <= e * Grid
      <4>1. f * (2 * Grid) = (2 * f) * Grid
        BY <1>1, <3>2
      <4> QED
        BY <3>3, <4>1
    <3> DEFINE x == e * Grid
               y == 2 * Grid
    <3>6. x \in Nat /\ y \in Nat \ {0} /\ f * y <= x /\ x < (f + 1) * y
      BY <3>1, <3>4, <3>5
    <3> HIDE DEF x, y
    <3>7. x \div y \in Nat /\ f <= x \div y
      BY <3>2, <3>6, Quotient
    <3>8. x \div y < f + 1
      BY <3>2, <3>6, Quotient
    <3>9. x \div y = f
      BY <3>2, <3>7, <3>8
    <3> QED
      BY <3>1, <3>9 DEF x, y, f
  <2> QED
    BY <1>2, <2>1, <2>2, <2>3
<1>7. CASE s = "decorrelated"
  <2>1. GuaranteedSum(s, n + 2) = (n + 1) * Base /\ GuaranteedSum(s, n + 1) = n * Base
    BY <1>1, <1>7 DEF GuaranteedSum
  <2>2. Draw(0, p) = Base * Grid
    <3> DEFINE x == GreaterOf(0, 3 * p - Base * Grid)
    <3>1. Base * Grid \in Nat /\ Cap * Grid \in Nat /\ Base * Grid <= Cap * Grid
      BY <1>1, Product
    <3>2. x \in Int
      BY <3>1 DEF GreaterOf
    <3> HIDE DEF x
    <3>3. 0 * x = 0
      BY <3>2
    <3>4. 0 \div Grid = 0
      BY <1>1
    <3>5. Draw(0, p) = LesserOf(Cap * Grid, Base * Grid + (0 * x) \div Grid)
      BY DEF Draw, x
    <3> QED
      BY <3>1, <3>3, <3>4, <3>5 DEF LesserOf
  <2>3. (Base * Grid) \div Grid = Base
    <3> DEFINE x == Base * Grid
    <3>1. x \in Nat /\ Base * Grid <= x /\ x < (Base + 1) * Grid
      BY <1>1
    <3> HIDE DEF x
    <3>2. x \div Grid \in Nat /\ Base <= x \div Grid
      BY <1>1, <3>1, Quotient
    <3>3. x \div Grid < Base + 1
      BY <1>1, <3>1, Quotient
    <3>4. x \div Grid = Base
      BY <1>1, <3>2, <3>3
    <3> QED
      BY <3>4 DEF x
  <2>4. ComputeBackoff(s, n + 1, 0, p) = Base
    BY <1>7, <2>2, <2>3 DEF ComputeBackoff
  <2>5. (n + 1) * Base = n * Base + Base
    BY <1>1
  <2> QED
    BY <2>1, <2>4, <2>5
<1>8. CASE s = "full_jitter"
  <2>1. GuaranteedSum(s, n + 2) = 0 /\ GuaranteedSum(s, n + 1) = 0
    BY <1>8 DEF GuaranteedSum
  <2>2. 0 * e = 0 /\ 0 \div Grid = 0
    BY <1>1, <1>2
  <2>3. ComputeBackoff(s, n + 1, 0, p) = (0 * e) \div Grid
    BY <1>8 DEF ComputeBackoff, FullJitter
  <2> QED
    BY <2>1, <2>2, <2>3
<1> QED
  BY <1>3, <1>4, <1>5, <1>6, <1>7, <1>8 DEF Strategies

\* The waits of a sequence of draws keep to the reach of their strategy, are no less
\* than the guaranteed sum, and are that for the least random numbers.
LEMMA WaitSumFacts ==
  ASSUME NEW s \in Strategies, NEW m \in Nat, NEW d \in [1 .. m -> 0 .. Grid - 1]
  PROVE  /\ WaitSum(s, d) \in Nat /\ Reach(s, WaitSum(s, d), m)
         /\ GuaranteedSum(s, m + 1) <= WaitSum(s, d)
         /\ (\A n \in 1 .. m : d[n] = 0) => WaitSum(s, d) = GuaranteedSum(s, m + 1)
<1> DEFINE X == RunningSums
           x0 == [sum |-> 0, prev |-> Floor]
           Step(n, x) == [sum  |-> x.sum + ReplicaWait(s, n, d[n], x.prev),
                          prev |-> ReplicaDraw(d[n], x.prev)]
           h == [n \in Nat |-> [x \in X |-> IF n \in 1 .. m THEN Step(n, x) ELSE x]]
           Rec(f) == f = [n \in 0 .. m |-> IF n = 0 THEN x0 ELSE Step(n, f[n - 1])]
<1>1. Len(d) = m
  BY LenProperties
<1>2. WaitSum(s, d) = (CHOOSE f : Rec(f))[m].sum
  BY <1>1 DEF WaitSum, Floor
<1>3. \A x \in X : x.sum \in Nat /\ x.prev \in Nat /\ Floor <= x.prev
  BY DEF RunningSums
<1>4. \A a \in Nat, b \in Nat : Floor <= b => [sum |-> a, prev |-> b] \in X
  BY DEF RunningSums
<1>5. Floor \in Nat /\ x0 \in X
  <2>1. Floor \in Nat
    BY WaitsAssumption, Product DEF Floor
  <2> QED
    BY <1>4, <2>1
<1> HIDE DEF X
<1>6. ASSUME NEW n \in 1 .. m, NEW x \in X
      PROVE  /\ Step(n, x) \in X /\ ComputeBackoff(s, n, d[n], x.prev) \in Nat
             /\ Step(n, x).sum = x.sum + ComputeBackoff(s, n, d[n], x.prev)
  <2>1. d[n] \in 0 .. Grid - 1 /\ n \in Nat \ {0}
    OBVIOUS
  <2>2. x.sum \in Nat /\ x.prev \in Nat /\ Floor <= x.prev
    BY <1>3
  <2>3. /\ ComputeBackoff(s, n, d[n], x.prev) \in Nat
        /\ ReplicaWait(s, n, d[n], x.prev) = ComputeBackoff(s, n, d[n], x.prev)
    BY <2>1, <2>2, WaitBounds
  <2>4. ReplicaDraw(d[n], x.prev) \in Nat /\ Floor <= ReplicaDraw(d[n], x.prev)
    BY <2>1, <2>2, DrawBounds
  <2> QED
    BY <1>4, <2>2, <2>3, <2>4
<1> HIDE DEF Step
<1>7. h \in [Nat -> [X -> X]]
  <2> SUFFICES ASSUME NEW n \in Nat, NEW x \in X PROVE (IF n \in 1 .. m THEN Step(n, x) ELSE x) \in X
    OBVIOUS
  <2> QED
    BY <1>6
<1>8. \A n \in 1 .. m, x \in X : h[n][x] = Step(n, x)
  OBVIOUS
<1> HIDE DEF h, x0
<1>9. \E f : Rec(f)
  <2>1. PICK f \in [0 .. m -> X] : f = [n \in 0 .. m |-> IF n = 0 THEN x0 ELSE h[n][f[n - 1]]]
    <3>1. Stepper(X, x0, h)
      BY <1>5, <1>7 DEF Stepper
    <3>2. RecursTo(X, x0, m, h)
      BY <3>1, BoundedRecursion
    <3> QED
      BY <3>2 DEF RecursTo
  <2>2. ASSUME NEW n \in 0 .. m PROVE f[n] = IF n = 0 THEN x0 ELSE Step(n, f[n - 1])
    <3>1. n # 0 => n \in 1 .. m /\ n - 1 \in 0 .. m
      OBVIOUS
    <3> QED
      BY <1>8, <2>1, <3>1
  <2> QED
    BY <2>1, <2>2
<1>10. PICK f : Rec(f) /\ WaitSum(s, d) = f[m].sum
  BY <1>2, <1>9
<1>11. f[0] = x0 /\ \A n \in 1 .. m : f[n] = Step(n, f[n - 1])
  BY <1>10
<1> HIDE DEF Rec
<1> DEFINE Zero == \A n \in 1 .. m : d[n] = 0
           Q(n) == /\ f[n] \in X /\ Reach(s, f[n].sum, n)
                   /\ Zero => f[n].sum = GuaranteedSum(s, n + 1)
           T == {n \in Nat : n <= m => Q(n)}
<1>12. Q(0)
  <2>1. f[0].sum = 0
    BY <1>11 DEF x0
  <2>2. ExpSum[0] = 0 /\ FloorSum[0] = 0 /\ Base \in Nat /\ Cap \in Nat
    BY ExpSumFacts, FloorSumFacts, WaitsAssumption
  <2>3. Reach(s, 0, 0)
    BY <2>2 DEF Reach
  <2>4. GuaranteedSum(s, 0 + 1) = 0
    <3>1. (0 + 1) - 1 = 0 /\ 0 * Base = 0
      BY <2>2
    <3>2. s \in {"fixed", "decorrelated"} \/ s = "exp" \/ s = "equal_jitter" \/ s \in {"none", "full_jitter"}
      BY DEF Strategies
    <3> QED
      BY <2>2, <3>1, <3>2 DEF GuaranteedSum
  <2> QED
    BY <1>5, <1>11, <2>1, <2>3, <2>4
<1>13. ASSUME NEW n \in Nat, n <= m => Q(n), n + 1 <= m PROVE Q(n + 1)
  <2>1. n + 1 \in 1 .. m /\ (n + 1) - 1 = n /\ n <= m /\ (n + 1) + 1 = n + 2
    BY <1>13
  <2> DEFINE x == f[n]
             w == ComputeBackoff(s, n + 1, d[n + 1], x.prev)
  <2>2. x \in X /\ Reach(s, x.sum, n) /\ (Zero => x.sum = GuaranteedSum(s, n + 1))
    BY <1>13, <2>1
  <2>3. f[n + 1] = Step(n + 1, x)
    BY <1>11, <2>1
  <2>4. x.sum \in Nat /\ x.prev \in Nat /\ Floor <= x.prev /\ d[n + 1] \in 0 .. Grid - 1
    BY <1>3, <2>1, <2>2
  <2>5. f[n + 1] \in X /\ f[n + 1].sum = x.sum + w /\ w \in Nat
    BY <1>6, <2>1, <2>2, <2>3
  <2>6. Reach(s, x.sum + w, n + 1)
    <3>1. PICK t \in Nat, p \in Nat, u \in 0 .. Grid - 1 :
            t = x.sum /\ p = x.prev /\ u = d[n + 1] /\ Floor <= p /\ Reach(s, t, n)
      BY <2>2, <2>4
    <3>2. Reach(s, t + ComputeBackoff(s, n + 1, u, p), n + 1)
      BY <3>1, ReachGrows
    <3> QED
      BY <3>1, <3>2
  <2>7. Zero => x.sum + w = GuaranteedSum(s, (n + 1) + 1)
    <3>1. Zero => d[n + 1] = 0
      BY <2>1
    <3>2. PICK p \in Nat : p = x.prev /\ Floor <= p
      BY <2>4
    <3>3. GuaranteedSum(s, n + 2) = GuaranteedSum(s, n + 1) + ComputeBackoff(s, n + 1, 0, p)
      BY <3>2, LeastWait
    <3> QED
      BY <2>1, <2>2, <3>1, <3>2, <3>3
  <2> HIDE DEF w, x
  <2> QED
    BY <2>5, <2>6, <2>7
<1>14. \A n \in Nat : n \in T => n + 1 \in T
  BY <1>13
<1>15. 0 \in T
  BY <1>12
<1> HIDE DEF T, Q
<1>16. m \in T
  BY <1>14, <1>15, Induct
<1>17. f[m] \in X /\ Reach(s, f[m].sum, m) /\ (Zero => f[m].sum = GuaranteedSum(s, m + 1))
  BY <1>16 DEF T, Q
<1>18. f[m].sum \in Nat
  BY <1>3, <1>17
<1>19. PICK t \in Nat : t = WaitSum(s, d) /\ Reach(s, t, m)
  BY <1>10, <1>17, <1>18
<1>20. GuaranteedSum(s, m + 1) <= t
  <2>1. (m + 1) - 1 = m
    OBVIOUS
  <2>2. s \in {"fixed", "decorrelated"} \/ s = "exp" \/ s = "equal_jitter" \/ s \in {"none", "full_jitter"}
    BY DEF Strategies
  <2>3. ExpSum[m] \in Nat /\ FloorSum[m] \in Nat /\ m * Base \in Nat
    BY ExpSumFacts, FloorSumFacts, WaitsAssumption
  <2> QED
    BY <1>19, <2>1, <2>2, <2>3 DEF GuaranteedSum, Reach
<1> QED
  BY <1>10, <1>17, <1>19, <1>20

-----------------------------------------------------------------------------
(* Schedules counted.                                                      *)

\* The least of a set of integers is the one nothing in the set is below.
LEMMA MinIs ==
  ASSUME NEW S \in SUBSET Int, NEW m \in S, \A y \in S : m <= y
  PROVE  Min(S) = m
<1>1. \E x \in S : \A y \in S : x =< y
  OBVIOUS
<1>2. Min(S) \in S /\ \A y \in S : Min(S) =< y
  BY <1>1 DEF Min
<1>3. PICK x \in S : x = Min(S) /\ \A y \in S : x =< y
  BY <1>2
<1>4. x \in Int /\ m \in Int /\ x <= m /\ m <= x
  BY <1>3
<1> QED
  BY <1>3, <1>4

\* There are finitely many sequences of n draws.
LEMMA FinitelyMany ==
  ASSUME NEW S, IsFiniteSet(S)
  PROVE  \A n \in Nat : IsFiniteSet([1 .. n -> S])
<1> DEFINE T == {n \in Nat : IsFiniteSet([1 .. n -> S])}
<1>1. 0 \in T
  <2> DEFINE e == [x \in 1 .. 0 |-> x]
  <2>1. [1 .. 0 -> S] \in SUBSET {e}
    OBVIOUS
  <2> HIDE DEF e
  <2>2. IsFiniteSet({e})
    BY FS_Singleton
  <2> QED
    BY <2>1, <2>2, FS_Subset
<1>2. ASSUME NEW n \in Nat, n \in T PROVE n + 1 \in T
  <2> DEFINE A == [1 .. n + 1 -> S]
             B == [1 .. n -> S] \X S
             f == [a \in A |-> <<[i \in 1 .. n |-> a[i]], a[n + 1]>>]
  <2>1. f \in [A -> B]
    BY <1>2
  <2>2. ASSUME NEW a \in A, NEW b \in A, f[a] = f[b] PROVE a = b
    <3>1. [i \in 1 .. n |-> a[i]] = [i \in 1 .. n |-> b[i]] /\ a[n + 1] = b[n + 1]
      BY <2>2
    <3>2. ASSUME NEW i \in 1 .. n + 1 PROVE a[i] = b[i]
      <4>1. CASE i = n + 1
        BY <3>1, <4>1
      <4>2. CASE i \in 1 .. n
        <5>1. a[i] = [j \in 1 .. n |-> a[j]][i] /\ b[i] = [j \in 1 .. n |-> b[j]][i]
          BY <4>2
        <5> QED
          BY <3>1, <5>1
      <4> QED
        BY <1>2, <4>1, <4>2
    <3> QED
      BY <3>2
  <2>3. IsFiniteSet(B)
    BY <1>2, FS_Product
  <2> HIDE DEF f, A, B
  <2>4. f \in Injection(A, B)
    BY <2>1, <2>2 DEF Injection, IsInjective
  <2>5. IsFiniteSet(A)
    BY <2>3, <2>4, FS_Injection
  <2> QED
    BY <2>5 DEF A
<1> HIDE DEF T
<1>3. Nat \subseteq T
  BY <1>1, <1>2, Induct
<1> QED
  BY <1>3 DEF T

\* survival_pct counts the sums that reach the window.
LEMMA SurvivalIsCount ==
  ASSUME NEW D, IsFiniteSet(D), NEW f \in [D -> Nat], NEW w \in Int
  PROVE  /\ IsFiniteSet({x \in D : w <= 4 * f[x]})
         /\ SurvivalCount(f, w) = Cardinality({x \in D : w <= 4 * f[x]})
<1> DEFINE A == {x \in D : w <= 4 * f[x]}
           B == {x \in D : 4 * f[x] < w}
           g == [x \in D |-> 4 * f[x]]
<1>1. DOMAIN f = D /\ DOMAIN g = D
  OBVIOUS
<1>2. SurvivalCount(f, w) = Cardinality(D) - Cardinality(B)
  <2>1. SearchLeft(g, w) = Cardinality(B)
    BY <1>1 DEF SearchLeft
  <2> QED
    BY <1>1, <2>1 DEF SurvivalCount
<1>3. D \ B = A /\ D \cap B = B
  <2>1. \A x \in D : 4 * f[x] \in Nat
    OBVIOUS
  <2> QED
    BY <2>1
<1> HIDE DEF A, B
<1>4. IsFiniteSet(D \ B) /\ Cardinality(D \ B) = Cardinality(D) - Cardinality(D \cap B)
  BY FS_Difference
<1>5. IsFiniteSet(A) /\ SurvivalCount(f, w) = Cardinality(A)
  BY <1>2, <1>3, <1>4
<1> QED
  BY <1>5 DEF A

\* All survive exactly the windows that no sum falls short of, and the longer a
\* window the fewer survive it.
LEMMA SurvivalFacts ==
  ASSUME NEW D, IsFiniteSet(D), NEW f \in [D -> Nat], NEW w \in Int, NEW v \in Int, v <= w
  PROVE  /\ SurvivalCount(f, w) = Cardinality(D) <=> \A x \in D : w <= 4 * f[x]
         /\ SurvivalCount(f, w) <= SurvivalCount(f, v)
         /\ SurvivalCount(f, w) \in Nat /\ SurvivalCount(f, w) <= Cardinality(D)
<1> DEFINE A(x) == {y \in D : x <= 4 * f[y]}
<1>1. /\ IsFiniteSet(A(w)) /\ SurvivalCount(f, w) = Cardinality(A(w))
      /\ IsFiniteSet(A(v)) /\ SurvivalCount(f, v) = Cardinality(A(v))
  BY SurvivalIsCount
<1>2. A(w) \in SUBSET D /\ A(w) \in SUBSET A(v)
  <2>1. \A x \in D : 4 * f[x] \in Nat
    OBVIOUS
  <2> QED
    BY <2>1
<1>3. A(w) = D <=> \A x \in D : w <= 4 * f[x]
  OBVIOUS
<1> HIDE DEF A
<1>4. Cardinality(A(w)) \in Nat /\ Cardinality(A(w)) <= Cardinality(D)
  BY <1>1, <1>2, FS_Subset, FS_CardinalityType
<1>5. Cardinality(A(w)) = Cardinality(D) => A(w) = D
  BY <1>1, <1>2, FS_Subset
<1>6. Cardinality(A(w)) <= Cardinality(A(v))
  BY <1>1, <1>2, FS_Subset
<1> QED
  BY <1>1, <1>3, <1>4, <1>5, <1>6

-----------------------------------------------------------------------------
(* Finite sets put in order.                                               *)

\* lt orders E, and the members of E below a.
Orders(lt, E) ==
  /\ \A a \in E : <<a, a>> \notin lt
  /\ \A a, b \in E : a = b \/ <<a, b>> \in lt \/ <<b, a>> \in lt
  /\ \A a, b, d \in E : <<a, b>> \in lt /\ <<b, d>> \in lt => <<a, d>> \in lt
Below(lt, E, a) == {b \in E : <<b, a>> \in lt}

\* At place i, f has a member of E that i - 1 others come before, if there is one.
Ranks(f, lt, E) ==
  /\ f = [i \in 1 .. Cardinality(E) |-> f[i]]
  /\ \A i \in 1 .. Cardinality(E) : \A a \in E :
       Cardinality(Below(lt, E, a)) = i - 1
         => f[i] \in E /\ Cardinality(Below(lt, E, f[i])) = i - 1

\* What an enumeration is.
Enumerates(f, lt, E) ==
  /\ f \in [1 .. Cardinality(E) -> E]
  /\ \A a \in E : \E i \in 1 .. Cardinality(E) : f[i] = a
  /\ \A i, j \in 1 .. Cardinality(E) : i < j => <<f[i], f[j]>> \in lt
  /\ \A i, j \in 1 .. Cardinality(E) : f[i] = f[j] => i = j

\* Every member of a finite ordered set has its place, and every place its member.
LEMMA InOrder ==
  ASSUME NEW E, IsFiniteSet(E), NEW lt, Orders(lt, E), NEW f, Ranks(f, lt, E)
  PROVE  Enumerates(f, lt, E)
<1> DEFINE n == Cardinality(E)
           V == 0 .. n - 1
           r == [a \in E |-> Cardinality(Below(lt, E, a))]
<1>1. n \in Nat
  BY FS_CardinalityType
<1>2. \A a \in E : /\ Below(lt, E, a) \in SUBSET E /\ a \notin Below(lt, E, a)
                   /\ IsFiniteSet(Below(lt, E, a)) /\ Cardinality(Below(lt, E, a)) \in Nat
  <2>1. \A a \in E : Below(lt, E, a) \in SUBSET E /\ a \notin Below(lt, E, a)
    BY DEF Below, Orders
  <2> QED
    BY <2>1, FS_Subset, FS_CardinalityType
<1>3. ASSUME NEW a \in E, NEW b \in E, <<a, b>> \in lt
      PROVE  Cardinality(Below(lt, E, a)) < Cardinality(Below(lt, E, b))
  <2> DEFINE A == Below(lt, E, a)
             B == Below(lt, E, b)
  <2>1. A \in SUBSET B /\ a \in B /\ a \notin A
    BY <1>3 DEF Below, Orders
  <2>2. IsFiniteSet(B) /\ Cardinality(A) \in Nat /\ Cardinality(B) \in Nat
    BY <1>2
  <2> HIDE DEF A, B
  <2>3. Cardinality(A) <= Cardinality(B) /\ Cardinality(A) # Cardinality(B)
    BY <2>1, <2>2, FS_Subset
  <2>4. Cardinality(A) < Cardinality(B)
    BY <2>2, <2>3
  <2> QED
    BY <2>4 DEF A, B
<1>4. ASSUME NEW a \in E PROVE Cardinality(Below(lt, E, a)) \in V
  <2> DEFINE A == Below(lt, E, a)
  <2>1. A \in SUBSET E /\ A # E /\ Cardinality(A) \in Nat
    BY <1>2
  <2> HIDE DEF A
  <2>2. Cardinality(A) <= n /\ Cardinality(A) # n
    BY <2>1, FS_Subset
  <2>3. Cardinality(A) \in V
    BY <1>1, <2>1, <2>2
  <2> QED
    BY <2>3 DEF A
<1>5. \A a \in E : r[a] = Cardinality(Below(lt, E, a))
  OBVIOUS
<1>6. r \in [E -> V]
  BY <1>4
<1> HIDE DEF r
<1>7. ASSUME NEW a \in E, NEW b \in E, r[a] = r[b] PROVE a = b
  <2>1. r[a] \in Int /\ r[b] \in Int
    BY <1>1, <1>6
  <2>2. <<a, b>> \notin lt
    <3>1. ASSUME <<a, b>> \in lt PROVE FALSE
      <4>1. r[a] < r[b]
        BY <1>3, <1>5, <3>1
      <4> QED
        BY <1>7, <2>1, <4>1
    <3> QED
      BY <3>1
  <2>3. <<b, a>> \notin lt
    <3>1. ASSUME <<b, a>> \in lt PROVE FALSE
      <4>1. r[b] < r[a]
        BY <1>3, <1>5, <3>1
      <4> QED
        BY <1>7, <2>1, <4>1
    <3> QED
      BY <3>1
  <2> QED
    BY <2>2, <2>3 DEF Orders
<1>8. IsFiniteSet(V) /\ Cardinality(V) = n
  <2>1. 0 \in Int /\ n - 1 \in Int
    BY <1>1
  <2>2. IsFiniteSet(V) /\ Cardinality(V) = IF 0 > n - 1 THEN 0 ELSE (n - 1) - 0 + 1
    BY <2>1, FS_Interval
  <2> QED
    BY <1>1, <2>2
<1> HIDE DEF V
<1>9. r \in Injection(E, V)
  BY <1>6, <1>7 DEF Injection, IsInjective
<1>10. r \in Surjection(E, V)
  BY <1>8, <1>9, FS_Injection
<1>11. \A v \in V : \E a \in E : r[a] = v
  BY <1>10 DEF Surjection
<1>12. ASSUME NEW i \in 1 .. n PROVE f[i] \in E /\ r[f[i]] = i - 1
  <2>1. i - 1 \in V
    BY <1>1 DEF V
  <2>2. PICK a \in E : Cardinality(Below(lt, E, a)) = i - 1
    BY <1>5, <1>11, <2>1
  <2> QED
    BY <1>5, <2>2 DEF Ranks
<1>13. f \in [1 .. n -> E]
  BY <1>12 DEF Ranks
<1>14. ASSUME NEW a \in E PROVE \E i \in 1 .. n : f[i] = a
  <2>1. r[a] + 1 \in 1 .. n /\ (r[a] + 1) - 1 = r[a]
    BY <1>1, <1>4, <1>5 DEF V
  <2>2. f[r[a] + 1] \in E /\ r[f[r[a] + 1]] = r[a]
    BY <1>12, <2>1
  <2> QED
    BY <1>7, <2>1, <2>2
<1>15. ASSUME NEW i \in 1 .. n, NEW j \in 1 .. n, f[i] = f[j] PROVE i = j
  BY <1>1, <1>12, <1>15
<1>16. ASSUME NEW i \in 1 .. n, NEW j \in 1 .. n, i < j PROVE <<f[i], f[j]>> \in lt
  <2>1. f[i] \in E /\ f[j] \in E /\ r[f[i]] = i - 1 /\ r[f[j]] = j - 1
    BY <1>12
  <2>2. f[i] # f[j]
    BY <1>15, <1>16
  <2>3. <<f[j], f[i]>> \notin lt
    <3>1. ASSUME <<f[j], f[i]>> \in lt PROVE FALSE
      <4>1. r[f[j]] < r[f[i]]
        BY <1>3, <1>5, <2>1, <3>1
      <4> QED
        BY <1>1, <1>16, <2>1, <4>1
    <3> QED
      BY <3>1
  <2> QED
    BY <2>1, <2>2, <2>3 DEF Orders
<1> QED
  BY <1>13, <1>14, <1>15, <1>16 DEF Enumerates

-----------------------------------------------------------------------------
(* Percentiles.                                                            *)

\* Of finitely many samples one is the least and one the greatest.
LEMMA Extremes ==
  ASSUME NEW D, IsFiniteSet(D), NEW x, \A a \in D : x[a] \in Int
  PROVE  \A s \in SUBSET D : s # {} => /\ \E a \in s : \A b \in s : x[a] <= x[b]
                                       /\ \E a \in s : \A b \in s : x[b] <= x[a]
<1> DEFINE Least(s) == \E a \in s : \A b \in s : x[a] <= x[b]
           Most(s) == \E a \in s : \A b \in s : x[b] <= x[a]
           Q == {s \in SUBSET D : s # {} => Least(s) /\ Most(s)}
<1>1. ASSUME NEW s \in SUBSET D, s # {}, s \ {Some(s)} \in Q PROVE Least(s) /\ Most(s)
  <2>1. PICK e \in s : e = Some(s) /\ e \in D
    BY <1>1 DEF Some
  <2>2. CASE s \ {e} = {}
    <3>1. s = {e} /\ x[e] \in Int
      BY <2>1, <2>2
    <3> QED
      BY <3>1
  <2>3. CASE s \ {e} # {}
    <3>1. PICK a \in s \ {e} : \A b \in s \ {e} : x[a] <= x[b]
      BY <1>1, <2>1, <2>3
    <3>2. PICK c \in s \ {e} : \A b \in s \ {e} : x[b] <= x[c]
      BY <1>1, <2>1, <2>3
    <3>3. \A b \in s : x[b] \in Int
      OBVIOUS
    <3>4. Least(s)
      <4>1. CASE x[e] <= x[a]
        BY <2>1, <3>1, <3>3, <4>1
      <4>2. CASE ~(x[e] <= x[a])
        BY <2>1, <3>1, <3>3, <4>2
      <4> QED
        BY <4>1, <4>2
    <3>5. Most(s)
      <4>1. CASE x[c] <= x[e]
        BY <2>1, <3>2, <3>3, <4>1
      <4>2. CASE ~(x[c] <= x[e])
        BY <2>1, <3>2, <3>3, <4>2
      <4> QED
        BY <4>1, <4>2
    <3> QED
      BY <3>4, <3>5
  <2> QED
    BY <2>2, <2>3
<1> HIDE DEF Least, Most
<1>2. {} \in Q /\ Q \in SUBSET (SUBSET D)
  OBVIOUS
<1>3. \A s \in SUBSET D : s # {} /\ s \ {Some(s)} \in Q => s \in Q
  BY <1>1
<1>4. \A s \in Q : s # {} => Least(s) /\ Most(s)
  OBVIOUS
<1> HIDE DEF Q
<1>5. Q = SUBSET D
  BY <1>2, <1>3, PartInduction
<1> QED
  BY <1>4, <1>5 DEF Least, Most

\* The samples that i or more are no greater than.
FromRank(D, x, i) == {a \in D : Cardinality({b \in D : x[b] <= x[a]}) >= i}

\* The i-th smallest is the least of these.
LEMMA RankedIs ==
  ASSUME NEW D, IsFiniteSet(D), NEW x \in [D -> Int], NEW i \in 1 .. Cardinality(D)
  PROVE  \E a \in FromRank(D, x, i) : /\ Ranked(x, i) = x[a]
                                      /\ \A b \in FromRank(D, x, i) : x[a] <= x[b]
<1> DEFINE A == FromRank(D, x, i)
           V == {x[a] : a \in A}
<1>1. Cardinality(D) \in Nat /\ i \in Nat /\ i <= Cardinality(D) /\ i > 0
  BY FS_CardinalityType
<1>2. D # {} /\ \A a \in D : x[a] \in Int
  BY <1>1, FS_EmptySet
<1>3. PICK m \in D : \A b \in D : x[b] <= x[m]
  BY <1>2, Extremes
<1>4. {b \in D : x[b] <= x[m]} = D
  BY <1>3
<1>5. A # {} /\ A \in SUBSET D
  BY <1>1, <1>4 DEF FromRank
<1>6. PICK a \in A : \A b \in A : x[a] <= x[b]
  BY <1>2, <1>5, Extremes
<1>7. DOMAIN x = D
  OBVIOUS
<1>8. Ranked(x, i) = Min(V)
  BY <1>7 DEF Ranked, FromRank
<1> HIDE DEF A
<1>9. V \in SUBSET Int /\ x[a] \in V /\ \A y \in V : x[a] <= y
  BY <1>2, <1>5, <1>6
<1> HIDE DEF V
<1>10. Min(V) = x[a]
  <2>1. PICK v \in V : v = x[a]
    BY <1>9
  <2> QED
    BY <1>9, <2>1, MinIs
<1> QED
  BY <1>6, <1>8, <1>10 DEF A

\* The rank does not fall.
LEMMA RanksRise ==
  ASSUME NEW D, IsFiniteSet(D), NEW x \in [D -> Int],
         NEW i \in 1 .. Cardinality(D), NEW j \in 1 .. Cardinality(D), i <= j
  PROVE  Ranked(x, i) <= Ranked(x, j)
<1>1. PICK a \in FromRank(D, x, i) : /\ Ranked(x, i) = x[a]
                                     /\ \A b \in FromRank(D, x, i) : x[a] <= x[b]
  BY RankedIs
<1>2. PICK b \in FromRank(D, x, j) : Ranked(x, j) = x[b]
  BY RankedIs
<1>3. b \in FromRank(D, x, i)
  <2> DEFINE B == {d \in D : x[d] <= x[b]}
  <2>1. B \in SUBSET D
    OBVIOUS
  <2>2. Cardinality(B) >= j /\ b \in D
    BY DEF FromRank
  <2> HIDE DEF B
  <2>3. Cardinality(B) \in Nat /\ i \in Int /\ j \in Int
    BY <2>1, FS_Subset, FS_CardinalityType
  <2>4. Cardinality(B) >= i
    BY <2>2, <2>3
  <2> QED
    BY <2>2, <2>4 DEF FromRank, B
<1> QED
  BY <1>1, <1>2, <1>3

\* A percentile lies where the samples do.
LEMMA PercentileBetween ==
  ASSUME NEW D, IsFiniteSet(D), D # {}, NEW x \in [D -> Int], NEW q \in 0 .. 100,
         NEW lo \in Int, NEW hi \in Int, \A a \in D : lo <= x[a] /\ x[a] <= hi
  PROVE  Percentile(x, q) \in Int /\ 100 * lo <= Percentile(x, q) /\ Percentile(x, q) <= 100 * hi
<1> DEFINE n == Cardinality(D)
           h == (n - 1) * q
           i == h \div 100 + 1
           j == LesserOf(i + 1, n)
           a == Ranked(x, i)
           b == Ranked(x, j)
           c == h % 100
<1>1. n \in Nat /\ n >= 1
  <2>1. n \in Nat /\ n # 0
    BY FS_CardinalityType, FS_EmptySet
  <2> QED
    BY <2>1
<1>2. Percentile(x, q) = 100 * a + c * (b - a)
  <2>1. DOMAIN x = D
    OBVIOUS
  <2> QED
    BY <2>1 DEF Percentile
<1> HIDE DEF n
<1>3. h \in Nat /\ h <= (n - 1) * 100
  <2>1. n - 1 \in Nat /\ q \in Nat /\ 100 \in Nat /\ q <= 100
    BY <1>1
  <2>2. (n - 1) * q \in Nat
    BY <2>1
  <2>3. q * (n - 1) <= 100 * (n - 1)
    BY <2>1, Product
  <2>4. q * (n - 1) = (n - 1) * q /\ 100 * (n - 1) = (n - 1) * 100
    BY <2>1
  <2> QED
    BY <2>2, <2>3, <2>4
<1> HIDE DEF h
<1>4. i \in 1 .. n /\ c \in 0 .. 99
  BY <1>1, <1>3
<1> HIDE DEF i, c
<1>5. j \in 1 .. n /\ i <= j
  BY <1>1, <1>4 DEF LesserOf
<1> HIDE DEF j
<1>6. a \in Int /\ b \in Int /\ lo <= a /\ b <= hi /\ a <= b
  <2>1. \A k \in 1 .. n : \E d \in D : Ranked(x, k) = x[d]
    <3> SUFFICES ASSUME NEW k \in 1 .. Cardinality(D) PROVE \E d \in D : Ranked(x, k) = x[d]
      BY DEF n
    <3>1. PICK d \in FromRank(D, x, k) : Ranked(x, k) = x[d]
      BY RankedIs
    <3> QED
      BY <3>1 DEF FromRank
  <2>2. (\E d \in D : a = x[d]) /\ \E d \in D : b = x[d]
    BY <1>4, <1>5, <2>1
  <2>3. a <= b
    BY <1>4, <1>5, RanksRise DEF n
  <2> HIDE DEF a, b
  <2> QED
    BY <2>1, <2>2, <2>3
<1> HIDE DEF a, b
<1>7. c * (b - a) \in Nat /\ c * (b - a) <= 100 * (b - a)
  <2>1. b - a \in Nat /\ c \in Nat /\ c <= 100
    BY <1>4, <1>6
  <2>2. c * (b - a) <= 100 * (b - a)
    BY <2>1, Product
  <2> QED
    BY <2>1, <2>2
<1> DEFINE z == c * (b - a)
<1>8. z \in Nat /\ z <= 100 * (b - a)
  BY <1>7
<1> HIDE DEF z
<1>9. 100 * a + z \in Int /\ 100 * lo <= 100 * a + z /\ 100 * a + z <= 100 * hi
  BY <1>6, <1>8
<1> QED
  BY <1>2, <1>9 DEF z

\* A percentile is made of the samples of two ranks, the second of which counts only
\* between the ranks.
PercentileIs(x, n, q, i, j, c) ==
  /\ i \in 1 .. n /\ j \in 1 .. n /\ i <= j /\ c \in 0 .. 99
  /\ (n - 1) * q = 100 * (i - 1) + c /\ (c > 0 => j = i + 1)
  /\ Ranked(x, i) \in Int /\ Ranked(x, j) \in Int /\ Ranked(x, i) <= Ranked(x, j)
  /\ Percentile(x, q) = 100 * Ranked(x, i) + c * (Ranked(x, j) - Ranked(x, i))

\* Every percentile of some samples is such.
LEMMA PercentileParts ==
  ASSUME NEW D, IsFiniteSet(D), D # {}, NEW x \in [D -> Int], NEW q \in 0 .. 100
  PROVE  \E i, j, c \in Nat : PercentileIs(x, Cardinality(D), q, i, j, c)
<1> DEFINE n == Cardinality(D)
           h == (n - 1) * q
           i == h \div 100 + 1
           j == LesserOf(i + 1, n)
           c == h % 100
<1>1. n \in Nat /\ n >= 1
  <2>1. n \in Nat /\ n # 0
    BY FS_CardinalityType, FS_EmptySet
  <2> QED
    BY <2>1
<1>2. Percentile(x, q) = 100 * Ranked(x, i) + c * (Ranked(x, j) - Ranked(x, i))
  <2>1. DOMAIN x = D
    OBVIOUS
  <2> QED
    BY <2>1 DEF Percentile
<1> HIDE DEF n
<1>3. h \in Nat /\ h <= (n - 1) * 100
  <2>1. n - 1 \in Nat /\ q \in Nat /\ 100 \in Nat /\ q <= 100
    BY <1>1
  <2>2. (n - 1) * q \in Nat
    BY <2>1
  <2>3. q * (n - 1) <= 100 * (n - 1)
    BY <2>1, Product
  <2>4. q * (n - 1) = (n - 1) * q /\ 100 * (n - 1) = (n - 1) * 100
    BY <2>1
  <2> QED
    BY <2>2, <2>3, <2>4
<1>a. h = (n - 1) * q
  OBVIOUS
<1> HIDE DEF h
<1>4. i \in 1 .. n /\ c \in 0 .. 99 /\ h = 100 * (i - 1) + c
  BY <1>1, <1>3
<1> HIDE DEF i, c
<1>5. j \in 1 .. n /\ i <= j
  BY <1>1, <1>4 DEF LesserOf
<1>6. c > 0 => j = i + 1
  <2> SUFFICES ASSUME c > 0 PROVE j = i + 1
    OBVIOUS
  <2>1. 100 * (i - 1) < (n - 1) * 100
    BY <1>1, <1>3, <1>4
  <2>2. i < n
    BY <1>1, <1>4, <2>1
  <2> QED
    BY <1>1, <1>4, <2>2 DEF LesserOf
<1> HIDE DEF j
<1>7. Ranked(x, i) \in Int /\ Ranked(x, j) \in Int /\ Ranked(x, i) <= Ranked(x, j)
  <2>1. \A k \in 1 .. n : Ranked(x, k) \in Int
    <3> SUFFICES ASSUME NEW k \in 1 .. Cardinality(D) PROVE Ranked(x, k) \in Int
      BY DEF n
    <3>1. PICK d \in FromRank(D, x, k) : Ranked(x, k) = x[d]
      BY RankedIs
    <3> QED
      BY <3>1 DEF FromRank
  <2>2. Ranked(x, i) <= Ranked(x, j)
    BY <1>4, <1>5, RanksRise DEF n
  <2> QED
    BY <1>4, <1>5, <2>1, <2>2
<1>8. i \in Nat /\ j \in Nat /\ c \in Nat
  BY <1>1, <1>4, <1>5
<1>9. PercentileIs(x, n, q, i, j, c)
  BY <1>2, <1>a, <1>4, <1>5, <1>6, <1>7 DEF PercentileIs
<1> QED
  BY <1>8, <1>9 DEF n

\* So it is no less than the first, no greater than the second, and equal to the
\* first where their difference does not count.
LEMMA PercentileLies ==
  ASSUME NEW x, NEW n, NEW q, NEW i, NEW j, NEW c, PercentileIs(x, n, q, i, j, c)
  PROVE  /\ Percentile(x, q) \in Int
         /\ 100 * Ranked(x, i) <= Percentile(x, q) /\ Percentile(x, q) <= 100 * Ranked(x, j)
         /\ c = 0 => Percentile(x, q) = 100 * Ranked(x, i)
<1> DEFINE a == Ranked(x, i)
           b == Ranked(x, j)
           p == Percentile(x, q)
<1>1. /\ a \in Int /\ b \in Int /\ a <= b /\ c \in 0 .. 99 /\ p = 100 * a + c * (b - a)
  BY DEF PercentileIs
<1> HIDE DEF a, b, p
<1> DEFINE e == b - a
           z == c * e
<1>2. e \in Nat /\ c \in Nat /\ 100 \in Nat /\ c <= 100 /\ b = a + e
  BY <1>1
<1>3. z \in Nat /\ z <= 100 * e /\ (c = 0 => z = 0)
  BY <1>2, Product
<1>4. p = 100 * a + z
  BY <1>1
<1> HIDE DEF e, z
<1>5. p \in Int /\ 100 * a <= p /\ p <= 100 * b /\ (c = 0 => p = 100 * a)
  BY <1>1, <1>2, <1>3, <1>4
<1> QED
  BY <1>5 DEF a, b, p

\* At least i samples are no greater than the i-th, and fewer than i are less.
LEMMA RankedCounts ==
  ASSUME NEW D, IsFiniteSet(D), NEW x \in [D -> Int], NEW i \in 1 .. Cardinality(D)
  PROVE  /\ i <= Cardinality({a \in D : x[a] <= Ranked(x, i)})
         /\ Cardinality({a \in D : x[a] < Ranked(x, i)}) < i
<1>1. PICK a \in FromRank(D, x, i) : /\ Ranked(x, i) = x[a]
                                     /\ \A b \in FromRank(D, x, i) : x[a] <= x[b]
  BY RankedIs
<1>2. a \in D /\ x[a] \in Int /\ \A b \in D : x[b] \in Int
  BY DEF FromRank
<1>3. i <= Cardinality({b \in D : x[b] <= Ranked(x, i)})
  <2> DEFINE U == {b \in D : x[b] <= x[a]}
  <2>1. Cardinality(U) >= i
    BY DEF FromRank
  <2>2. U \in SUBSET D
    OBVIOUS
  <2>3. U = {b \in D : x[b] <= Ranked(x, i)}
    BY <1>1
  <2> HIDE DEF U
  <2>4. Cardinality(U) \in Nat /\ i \in Int
    BY <2>2, FS_Subset, FS_CardinalityType
  <2> QED
    BY <2>1, <2>3, <2>4
<1> DEFINE V == {b \in D : x[b] < Ranked(x, i)}
<1>4. V \in SUBSET D /\ \A b \in V : x[b] < x[a]
  BY <1>1
<1> HIDE DEF V
<1>5. IsFiniteSet(V) /\ Cardinality(V) \in Nat /\ i \in Nat /\ i > 0
  BY <1>4, FS_Subset, FS_CardinalityType
<1>6. ASSUME Cardinality(V) >= i PROVE FALSE
  <2>1. V # {}
    BY <1>5, <1>6, FS_EmptySet
  <2>2. PICK m \in V : \A b \in V : x[b] <= x[m]
    BY <1>2, <1>4, <2>1, Extremes
  <2> DEFINE U == {b \in D : x[b] <= x[m]}
  <2>3. V \in SUBSET U /\ U \in SUBSET D
    BY <1>4, <2>2
  <2> HIDE DEF U
  <2>4. IsFiniteSet(U)
    BY <2>3, FS_Subset
  <2>5. Cardinality(V) <= Cardinality(U) /\ Cardinality(U) \in Nat
    BY <2>3, <2>4, FS_Subset, FS_CardinalityType
  <2>6. Cardinality(U) >= i
    BY <1>5, <1>6, <2>5
  <2>7. m \in FromRank(D, x, i)
    BY <1>4, <2>6 DEF FromRank, U
  <2> QED
    BY <1>1, <1>2, <1>4, <2>7
<1> QED
  BY <1>3, <1>5, <1>6 DEF V

\* More samples than the rank asks for are no greater than a percentile, and few
\* enough are less.
LEMMA PercentileEncloses ==
  ASSUME NEW D, IsFiniteSet(D), D # {}, NEW x \in [D -> Int], NEW q \in 0 .. 100
  PROVE  LET h == (Cardinality(D) - 1) * q
             p == Percentile(x, q)
         IN  /\ h < 100 * Cardinality({d \in D : 100 * x[d] <= p})
             /\ Cardinality({d \in D : 100 * x[d] <= p - 1}) * 100 <= h + 99
<1> DEFINE n == Cardinality(D)
           h == (n - 1) * q
           p == Percentile(x, q)
           U == {d \in D : 100 * x[d] <= p}
           V == {d \in D : 100 * x[d] <= p - 1}
<1>1. PICK i \in Nat, j \in Nat, c \in Nat : PercentileIs(x, n, q, i, j, c)
  BY PercentileParts
<1>2. /\ i \in 1 .. n /\ j \in 1 .. n /\ c \in 0 .. 99 /\ h = 100 * (i - 1) + c
      /\ c > 0 => j = i + 1
      /\ Ranked(x, i) \in Int /\ Ranked(x, j) \in Int
  BY <1>1 DEF PercentileIs
<1>3. /\ p \in Int /\ 100 * Ranked(x, i) <= p /\ p <= 100 * Ranked(x, j)
      /\ c = 0 => p = 100 * Ranked(x, i)
  BY <1>1, PercentileLies
<1>4. \A d \in D : x[d] \in Int
  OBVIOUS
<1>5. i <= Cardinality({d \in D : x[d] <= Ranked(x, i)})
  BY <1>2, RankedCounts
<1>6. Cardinality({d \in D : x[d] < Ranked(x, i)}) < i
  BY <1>2, RankedCounts
<1>7. Cardinality({d \in D : x[d] < Ranked(x, j)}) < j
  BY <1>2, RankedCounts
<1> HIDE DEF h, p
<1>8. \A s \in SUBSET D : IsFiniteSet(s) /\ Cardinality(s) \in Nat
  BY FS_Subset, FS_CardinalityType
<1>9. i <= Cardinality(U)
  <2> DEFINE A == {d \in D : x[d] <= Ranked(x, i)}
  <2>1. A \in SUBSET U /\ U \in SUBSET D /\ A \in SUBSET D
    BY <1>2, <1>3, <1>4
  <2>2. i <= Cardinality(A)
    BY <1>5
  <2> HIDE DEF A, U
  <2>3. Cardinality(A) <= Cardinality(U) /\ Cardinality(A) \in Nat /\ Cardinality(U) \in Nat
    BY <1>8, <2>1, FS_Subset
  <2> QED
    BY <1>2, <2>2, <2>3
<1>10. Cardinality(V) * 100 <= h + 99
  <2> DEFINE A == {d \in D : x[d] < Ranked(x, i)}
             B == {d \in D : x[d] < Ranked(x, j)}
  <2>1. V \in SUBSET B /\ V \in SUBSET D /\ B \in SUBSET D /\ A \in SUBSET D
    BY <1>2, <1>3, <1>4
  <2>2. c = 0 => V \in SUBSET A
    BY <1>2, <1>3, <1>4
  <2>3. Cardinality(A) < i /\ Cardinality(B) < j
    BY <1>6, <1>7
  <2> HIDE DEF A, B, V
  <2>4. /\ Cardinality(A) \in Nat /\ Cardinality(B) \in Nat /\ Cardinality(V) \in Nat
        /\ Cardinality(V) <= Cardinality(B) /\ (c = 0 => Cardinality(V) <= Cardinality(A))
    BY <1>8, <2>1, <2>2, FS_Subset
  <2>5. CASE c = 0
    BY <1>2, <2>3, <2>4, <2>5
  <2>6. CASE c > 0
    BY <1>2, <2>3, <2>4, <2>6
  <2> QED
    BY <1>2, <2>5, <2>6
<1>11. U \in SUBSET D
  OBVIOUS
<1> HIDE DEF U, V
<1>12. h < 100 * Cardinality(U)
  BY <1>2, <1>8, <1>9, <1>11
<1> QED
  BY <1>10, <1>12 DEF U, V, h, p, n

\* The higher percentile is no less.
LEMMA PercentilesRise ==
  ASSUME NEW D, IsFiniteSet(D), D # {}, NEW x \in [D -> Int],
         NEW q \in 0 .. 100, NEW r \in 0 .. 100, q <= r
  PROVE  Percentile(x, q) <= Percentile(x, r)
<1> DEFINE n == Cardinality(D)
<1>1. PICK i \in Nat, j \in Nat, c \in Nat : PercentileIs(x, n, q, i, j, c)
  BY PercentileParts
<1>2. PICK k \in Nat, l \in Nat, d \in Nat : PercentileIs(x, n, r, k, l, d)
  BY PercentileParts
<1>3. n \in Nat /\ n >= 1
  <2>1. n \in Nat /\ n # 0
    BY FS_CardinalityType, FS_EmptySet
  <2> QED
    BY <2>1
<1>4. /\ i \in 1 .. n /\ j \in 1 .. n /\ i <= j /\ c \in 0 .. 99 /\ (n - 1) * q = 100 * (i - 1) + c
      /\ (c > 0 => j = i + 1)
      /\ Ranked(x, i) \in Int /\ Ranked(x, j) \in Int /\ Ranked(x, i) <= Ranked(x, j)
      /\ Percentile(x, q) = 100 * Ranked(x, i) + c * (Ranked(x, j) - Ranked(x, i))
  BY <1>1 DEF PercentileIs
<1>5. /\ k \in 1 .. n /\ l \in 1 .. n /\ k <= l /\ d \in 0 .. 99 /\ (n - 1) * r = 100 * (k - 1) + d
      /\ (d > 0 => l = k + 1)
      /\ Ranked(x, k) \in Int /\ Ranked(x, l) \in Int
      /\ Percentile(x, r) = 100 * Ranked(x, k) + d * (Ranked(x, l) - Ranked(x, k))
  BY <1>2 DEF PercentileIs
<1>6. Percentile(x, q) \in Int /\ Percentile(x, q) <= 100 * Ranked(x, j)
      /\ (c = 0 => Percentile(x, q) = 100 * Ranked(x, i))
  BY <1>1, PercentileLies
<1>7. Percentile(x, r) \in Int /\ 100 * Ranked(x, k) <= Percentile(x, r)
  BY <1>2, PercentileLies
<1> DEFINE g == (n - 1) * q
           h == (n - 1) * r
<1>8. g \in Nat /\ h \in Nat /\ g <= h
  <2>1. n - 1 \in Nat /\ q \in Nat /\ r \in Nat
    BY <1>3
  <2>2. q * (n - 1) \in Nat /\ r * (n - 1) \in Nat /\ q * (n - 1) <= r * (n - 1)
    BY <2>1, Product
  <2>3. g = q * (n - 1) /\ h = r * (n - 1)
    BY <2>1
  <2> QED
    BY <2>2, <2>3
<1>9. g = 100 * (i - 1) + c /\ h = 100 * (k - 1) + d
  BY <1>4, <1>5
<1> HIDE DEF g, h
<1>10. i < k \/ (i = k /\ c <= d)
  <2>1. c <= 99 /\ d <= 99
    BY <1>4, <1>5
  <2>2. 100 * (i - 1) + c <= 100 * (k - 1) + d
    BY <1>8, <1>9
  <2> QED
    BY <2>1, <2>2
<1>11. CASE i < k
  <2>1. CASE c = 0
    <3>1. i \in 1 .. Cardinality(D) /\ k \in 1 .. Cardinality(D) /\ i <= k
      BY <1>4, <1>5, <1>11
    <3>2. Ranked(x, i) <= Ranked(x, k)
      BY <3>1, RanksRise
    <3> QED
      BY <1>4, <1>5, <1>6, <1>7, <2>1, <3>2
  <2>2. CASE c > 0
    <3>1. j <= k
      BY <1>4, <1>5, <1>11, <2>2
    <3>2. j \in 1 .. Cardinality(D) /\ k \in 1 .. Cardinality(D)
      BY <1>4, <1>5
    <3>3. Ranked(x, j) <= Ranked(x, k)
      BY <3>1, <3>2, RanksRise
    <3> QED
      BY <1>4, <1>5, <1>6, <1>7, <3>3
  <2> QED
    BY <1>4, <2>1, <2>2
<1>12. CASE i = k /\ c <= d
  <2>1. CASE c = 0
    BY <1>4, <1>6, <1>7, <1>12, <2>1
  <2>2. CASE c > 0
    <3>1. j = l
      BY <1>4, <1>5, <1>12, <2>2
    <3> DEFINE a == Ranked(x, i)
               b == Ranked(x, j)
    <3>2. PICK e \in Nat : e = b - a
      BY <1>4
    <3>3. a \in Int /\ b - a = e /\ Ranked(x, l) - Ranked(x, k) = e /\ Ranked(x, k) = a
      BY <1>4, <1>12, <3>1, <3>2
    <3>4. Percentile(x, q) = 100 * a + c * e /\ Percentile(x, r) = 100 * a + d * e
      BY <1>4, <1>5, <3>3
    <3>5. c * e \in Nat /\ d * e \in Nat /\ c * e <= d * e
      BY <1>12, Product
    <3> HIDE DEF a, b
    <3> QED
      BY <3>3, <3>4, <3>5
  <2> QED
    BY <1>4, <2>1, <2>2
<1> QED
  BY <1>10, <1>11, <1>12

\* Where one set of samples can be put on another so that none falls, neither do its
\* ranks and percentiles.
Under(x, y, D, E, b) == b \in Bijection(D, E) /\ \A d \in D : x[d] <= y[b[d]]

\* The i-th sample of the lower ones is no greater than the i-th of the others.
LEMMA RanksFollow ==
  ASSUME NEW D, NEW E, IsFiniteSet(D), IsFiniteSet(E), NEW x \in [D -> Int], NEW y \in [E -> Int],
         NEW b, Under(x, y, D, E, b), Cardinality(D) = Cardinality(E),
         NEW i \in 1 .. Cardinality(D)
  PROVE  Ranked(x, i) <= Ranked(y, i)
<1>1. i \in 1 .. Cardinality(E) /\ i \in Nat /\ i > 0
  BY FS_CardinalityType
<1>2. PICK e \in FromRank(E, y, i) : Ranked(y, i) = y[e]
  BY <1>1, RankedIs
<1>3. PICK m \in FromRank(D, x, i) : /\ Ranked(x, i) = x[m]
                                     /\ \A d \in FromRank(D, x, i) : x[m] <= x[d]
  BY RankedIs
<1>4. e \in E /\ m \in D /\ y[e] \in Int /\ x[m] \in Int /\ \A d \in D : x[d] \in Int
  BY DEF FromRank
<1> DEFINE T == {f \in E : y[f] <= y[e]}
           U == {d \in D : b[d] \in T}
<1>5. T \in SUBSET E /\ U \in SUBSET D /\ Cardinality(T) >= i
  BY DEF FromRank
<1>6. \A d \in D : b[d] \in E /\ x[d] <= y[b[d]]
  BY DEF Under, Bijection, Injection, Surjection, IsInjective
<1>7. \A d \in U : x[d] \in Int /\ x[d] <= y[e]
  <2> SUFFICES ASSUME NEW d \in U PROVE x[d] <= y[e]
    BY <1>4
  <2>1. x[d] <= y[b[d]] /\ y[b[d]] <= y[e] /\ y[b[d]] \in Int /\ x[d] \in Int
    BY <1>4, <1>6
  <2> QED
    BY <1>4, <2>1
<1>8. \A f \in T : \E d \in U : b[d] = f
  <2> SUFFICES ASSUME NEW f \in T PROVE \E d \in U : b[d] = f
    OBVIOUS
  <2>1. PICK d \in D : b[d] = f
    BY <1>5 DEF Under, Bijection, Surjection
  <2> QED
    BY <2>1
<1>a. \A d \in U : b[d] \in T
  OBVIOUS
<1> HIDE DEF T, U
<1>9. IsFiniteSet(T) /\ IsFiniteSet(U) /\ Cardinality(T) \in Nat /\ Cardinality(U) \in Nat
  BY <1>5, FS_Subset, FS_CardinalityType
<1>10. Cardinality(T) <= Cardinality(U)
  <2> DEFINE g == [d \in U |-> b[d]]
  <2>1. g \in Surjection(U, T)
    BY <1>8, <1>a DEF Surjection
  <2> HIDE DEF g
  <2>2. IsFiniteSet(T) /\ Cardinality(T) <= Cardinality(U)
    BY <1>9, <2>1, FS_Surjection, FS_SurjCardinalityBound DEF ExistsSurjection
  <2> QED
    BY <2>2
<1>11. Cardinality(U) >= i
  BY <1>1, <1>5, <1>9, <1>10
<1>12. U # {}
  BY <1>1, <1>9, <1>11, FS_EmptySet
<1>13. PICK d \in U : \A f \in U : x[f] <= x[d]
  BY <1>4, <1>5, <1>12, Extremes
<1> DEFINE W == {f \in D : x[f] <= x[d]}
<1>14. U \in SUBSET W /\ W \in SUBSET D
  BY <1>5, <1>13
<1> HIDE DEF W
<1>15. Cardinality(U) <= Cardinality(W) /\ Cardinality(W) \in Nat
  BY <1>14, FS_Subset, FS_CardinalityType
<1>16. Cardinality(W) >= i
  BY <1>1, <1>9, <1>11, <1>15
<1>17. d \in FromRank(D, x, i)
  BY <1>5, <1>16 DEF FromRank, W
<1>18. x[m] <= x[d] /\ x[d] <= y[e] /\ x[d] \in Int
  BY <1>3, <1>7, <1>17
<1> QED
  BY <1>2, <1>3, <1>4, <1>18

\* Nor, therefore, is a percentile.
LEMMA PercentilesFollow ==
  ASSUME NEW D, NEW E, IsFiniteSet(D), IsFiniteSet(E), D # {},
         NEW x \in [D -> Int], NEW y \in [E -> Int], NEW b, Under(x, y, D, E, b),
         NEW q \in 0 .. 100
  PROVE  Percentile(x, q) <= Percentile(y, q)
<1> DEFINE n == Cardinality(D)
<1>1. Cardinality(E) = n /\ E # {}
  <2>1. Cardinality(E) = n
    BY FS_Bijection DEF Under, ExistsBijection
  <2>2. \A d \in D : b[d] \in E
    BY DEF Under, Bijection, Injection, Surjection, IsInjective
  <2> QED
    BY <2>1, <2>2
<1>2. PICK i \in Nat, j \in Nat, c \in Nat : PercentileIs(x, n, q, i, j, c)
  BY PercentileParts
<1>3. PICK k \in Nat, l \in Nat, d \in Nat : PercentileIs(y, n, q, k, l, d)
  BY <1>1, PercentileParts
<1>4. n \in Nat /\ n >= 1
  <2>1. n \in Nat /\ n # 0
    BY FS_CardinalityType, FS_EmptySet
  <2> QED
    BY <2>1
<1>5. /\ i \in 1 .. n /\ j \in 1 .. n /\ c \in 0 .. 99 /\ (n - 1) * q = 100 * (i - 1) + c
      /\ (c > 0 => j = i + 1)
      /\ Ranked(x, i) \in Int /\ Ranked(x, j) \in Int /\ Ranked(x, i) <= Ranked(x, j)
      /\ Percentile(x, q) = 100 * Ranked(x, i) + c * (Ranked(x, j) - Ranked(x, i))
  BY <1>2 DEF PercentileIs
<1>6. /\ k \in 1 .. n /\ l \in 1 .. n /\ d \in 0 .. 99 /\ (n - 1) * q = 100 * (k - 1) + d
      /\ (d > 0 => l = k + 1)
      /\ Ranked(y, k) \in Int /\ Ranked(y, l) \in Int /\ Ranked(y, k) <= Ranked(y, l)
      /\ Percentile(y, q) = 100 * Ranked(y, k) + d * (Ranked(y, l) - Ranked(y, k))
  BY <1>3 DEF PercentileIs
<1>7. c = 0 => Percentile(x, q) = 100 * Ranked(x, i)
  BY <1>2, PercentileLies
<1>8. Percentile(y, q) \in Int /\ 100 * Ranked(y, k) <= Percentile(y, q)
  BY <1>3, PercentileLies
<1>9. i = k /\ c = d
  <2> DEFINE g == (n - 1) * q
  <2>1. g = 100 * (i - 1) + c /\ g = 100 * (k - 1) + d /\ c <= 99 /\ d <= 99
    BY <1>5, <1>6
  <2> HIDE DEF g
  <2> QED
    BY <2>1
<1>10. Ranked(x, i) <= Ranked(y, i) /\ Ranked(x, j) <= Ranked(y, j)
  <2>1. i \in 1 .. Cardinality(D) /\ j \in 1 .. Cardinality(D) /\ Cardinality(D) = Cardinality(E)
    BY <1>1, <1>5
  <2> QED
    BY <2>1, RanksFollow
<1>11. CASE c = 0
  <2>1. Percentile(x, q) = 100 * Ranked(x, i) /\ Ranked(y, i) \in Int /\ Ranked(x, i) \in Int
        /\ 100 * Ranked(y, i) <= Percentile(y, q)
    BY <1>5, <1>6, <1>7, <1>8, <1>9, <1>11
  <2> QED
    BY <1>8, <1>10, <2>1
<1>12. CASE c > 0
  <2> DEFINE a == Ranked(x, i)
             e == Ranked(x, j)
             f == Ranked(y, i)
             g == Ranked(y, j)
  <2>1. j = l
    BY <1>5, <1>6, <1>9, <1>12
  <2>2. /\ Percentile(x, q) = 100 * a + c * (e - a) /\ Percentile(y, q) = 100 * f + c * (g - f)
        /\ a \in Int /\ e \in Int /\ f \in Int /\ g \in Int
        /\ a <= f /\ e <= g /\ c \in Nat /\ 100 - c \in Nat
    BY <1>5, <1>6, <1>9, <1>10, <2>1
  <2> HIDE DEF a, e, f, g
  <2>3. PICK u \in Nat, v \in Nat, w \in Nat : u = f - a /\ v = g - e /\ w = 100 - c
    BY <2>2
  <2>4. Percentile(y, q) = Percentile(x, q) + (w * u + c * v)
    BY <2>2, <2>3
  <2>5. w * u \in Nat /\ c * v \in Nat
    BY <2>3
  <2>6. PICK z \in Nat : z = w * u + c * v
    BY <2>5
  <2>7. Percentile(x, q) \in Int
    BY <1>2, PercentileLies
  <2> QED
    BY <2>4, <2>6, <2>7
<1> QED
  BY <1>5, <1>11, <1>12

-----------------------------------------------------------------------------
(* Sums compared.                                                          *)

\* The larger the terms the larger the sum, and no term exceeds it.
LEMMA SumsCompare ==
  ASSUME NEW S, IsFiniteSet(S), NEW g, NEW d, NEW e, NEW f,
         SumsOver(f, g, S), SumsOver(e, d, S),
         \A x \in S : g[x] \in Nat /\ d[x] \in Nat /\ g[x] <= d[x]
  PROVE  /\ f[S] \in Nat /\ e[S] \in Nat /\ f[S] <= e[S]
         /\ \A x \in S : g[x] <= f[S]
<1> DEFINE Good(s) == /\ f[s] \in Nat /\ e[s] \in Nat /\ f[s] <= e[s]
                      /\ \A x \in s : g[x] <= f[s]
           Q == {s \in SUBSET S : Good(s)}
<1>1. /\ f[{}] = 0 /\ e[{}] = 0
      /\ \A s \in SUBSET S : s # {} => /\ f[s] = g[Some(s)] + f[s \ {Some(s)}]
                                       /\ e[s] = d[Some(s)] + e[s \ {Some(s)}]
  BY DEF SumsOver
<1>2. ASSUME NEW s \in SUBSET S, s # {}, Good(s \ {Some(s)}) PROVE Good(s)
  <2>1. PICK y \in S : y = Some(s) /\ y \in s
    BY <1>2 DEF Some
  <2>2. f[s] = g[y] + f[s \ {y}] /\ e[s] = d[y] + e[s \ {y}]
    BY <1>1, <1>2, <2>1
  <2>3. /\ f[s \ {y}] \in Nat /\ e[s \ {y}] \in Nat /\ f[s \ {y}] <= e[s \ {y}]
        /\ \A x \in s \ {y} : g[x] <= f[s \ {y}]
    BY <1>2, <2>1
  <2>4. g[y] \in Nat /\ d[y] \in Nat /\ g[y] <= d[y]
    OBVIOUS
  <2>5. f[s] \in Nat /\ e[s] \in Nat /\ f[s] <= e[s] /\ f[s \ {y}] <= f[s] /\ g[y] <= f[s]
    BY <2>2, <2>3, <2>4
  <2>6. \A x \in s : g[x] <= f[s]
    <3> SUFFICES ASSUME NEW x \in s, x # y PROVE g[x] <= f[s]
      BY <2>5
    <3>1. g[x] \in Nat /\ g[x] <= f[s \ {y}]
      BY <2>3
    <3> QED
      BY <2>3, <2>5, <3>1
  <2> QED
    BY <2>5, <2>6
<1>3. Good({})
  BY <1>1
<1> HIDE DEF Good
<1>4. {} \in Q /\ Q \in SUBSET (SUBSET S)
  BY <1>3
<1>5. \A s \in SUBSET S : s # {} /\ s \ {Some(s)} \in Q => s \in Q
  BY <1>2
<1>6. \A s \in Q : Good(s)
  OBVIOUS
<1> HIDE DEF Q
<1>7. Q = SUBSET S
  BY <1>4, <1>5, PartInduction
<1>8. Good(S)
  BY <1>6, <1>7
<1> QED
  BY <1>8 DEF Good

-----------------------------------------------------------------------------
(* The peak of part of a run.                                              *)

\* The peak of any load is a number.
LEMMA PeakIsNumber ==
  ASSUME NEW s \in Seq(Int)
  PROVE  SlidingPeak(s) \in Int
<1>1. CASE s = <<>>
  BY <1>1 DEF SlidingPeak
<1>2. CASE s # <<>>
  <2> DEFINE n == Len(s)
             V == {SearchLeft(s, s[i] + Window) - (i - 1) : i \in DOMAIN s}
  <2>1. DOMAIN s = 1 .. n /\ n \in Nat /\ n # 0
    BY <1>2
  <2> HIDE DEF n
  <2>2. ASSUME NEW t PROVE SearchLeft(s, t) \in Nat /\ SearchLeft(s, t) <= n
    <3> DEFINE B == {i \in DOMAIN s : s[i] < t}
               U == 1 .. n
    <3>1. IsFiniteSet(U) /\ Cardinality(U) = n
      <4>1. 1 \in Int /\ n \in Int
        BY <2>1
      <4>2. IsFiniteSet(U) /\ Cardinality(U) = IF 1 > n THEN 0 ELSE n - 1 + 1
        BY <4>1, FS_Interval
      <4> QED
        BY <2>1, <4>2
    <3>2. B \in SUBSET U
      BY <2>1
    <3>3. SearchLeft(s, t) = Cardinality(B)
      BY DEF SearchLeft
    <3> HIDE DEF B, U
    <3> QED
      BY <3>1, <3>2, <3>3, FS_Subset, FS_CardinalityType
  <2>3. \A i \in 1 .. n : SearchLeft(s, s[i] + Window) - (i - 1) \in Int
                          /\ SearchLeft(s, s[i] + Window) - (i - 1) <= n
    <3> SUFFICES ASSUME NEW i \in 1 .. n
                 PROVE  SearchLeft(s, s[i] + Window) - (i - 1) \in Int
                        /\ SearchLeft(s, s[i] + Window) - (i - 1) <= n
      OBVIOUS
    <3>1. SearchLeft(s, s[i] + Window) \in Nat /\ SearchLeft(s, s[i] + Window) <= n
      BY <2>2
    <3> QED
      BY <2>1, <3>1
  <2>4. V \in SUBSET Int /\ V # {} /\ \A y \in V : y <= n
    <3>1. SearchLeft(s, s[1] + Window) - (1 - 1) \in V
      BY <2>1
    <3>2. \A y \in V : \E i \in 1 .. n : y = SearchLeft(s, s[i] + Window) - (i - 1)
      BY <2>1
    <3> HIDE DEF V
    <3> QED
      BY <2>3, <3>1, <3>2
  <2>5. SlidingPeak(s) = Max(V)
    BY <1>2 DEF SlidingPeak
  <2> HIDE DEF V
  <2>6. PICK m \in V : \A y \in V : y <= m
    <3>1. PICK b \in Int : b = n
      BY <2>1
    <3>2. \A y \in V : y <= b
      BY <2>4, <3>1
    <3> QED
      BY <2>4, <3>2, GreatestExists, Zenon
  <2>7. Max(V) = m
    BY <2>4, <2>6, MaxIs
  <2> QED
    BY <2>4, <2>5, <2>7
<1> QED
  BY <1>1, <1>2

\* The sum of numbers between m and M is between so many times m and M.
LEMMA SumsWithin ==
  ASSUME NEW S, IsFiniteSet(S), NEW g, NEW f, SumsOver(f, g, S), NEW m \in Nat, NEW M \in Nat,
         \A x \in S : g[x] \in Nat /\ m <= g[x] /\ g[x] <= M
  PROVE  f[S] \in Nat /\ m * Cardinality(S) <= f[S] /\ f[S] <= M * Cardinality(S)
<1> DEFINE Good(s) == /\ f[s] \in Nat /\ m * Cardinality(s) <= f[s]
                      /\ f[s] <= M * Cardinality(s)
           Q == {s \in SUBSET S : Good(s)}
<1>1. /\ f[{}] = 0
      /\ \A s \in SUBSET S : s # {} => f[s] = g[Some(s)] + f[s \ {Some(s)}]
  BY DEF SumsOver
<1>2. ASSUME NEW s \in SUBSET S, s # {}, Good(s \ {Some(s)}) PROVE Good(s)
  <2>1. PICK y \in S : y = Some(s) /\ y \in s
    BY <1>2 DEF Some
  <2>2. f[s] = g[y] + f[s \ {y}]
    BY <1>1, <1>2, <2>1
  <2>3. IsFiniteSet(s) /\ Cardinality(s) \in Nat
    BY FS_Subset, FS_CardinalityType
  <2>4. Cardinality(s \ {y}) = Cardinality(s) - 1
    BY <2>1, <2>3, FS_RemoveElement
  <2>5. PICK n \in Nat : n = Cardinality(s \ {y}) /\ Cardinality(s) = n + 1
    <3>1. Cardinality(s \ {y}) \in Nat
      BY <2>3, FS_Subset, FS_CardinalityType
    <3> QED
      BY <2>3, <2>4, <3>1
  <2>6. f[s \ {y}] \in Nat /\ m * n <= f[s \ {y}] /\ f[s \ {y}] <= M * n
    BY <1>2, <2>1, <2>5
  <2>7. g[y] \in Nat /\ m <= g[y] /\ g[y] <= M
    OBVIOUS
  <2>8. m * (n + 1) = m * n + m /\ M * (n + 1) = M * n + M /\ m * n \in Nat /\ M * n \in Nat
    OBVIOUS
  <2>9. PICK a \in Nat, b \in Nat : a = m * n /\ b = M * n
    BY <2>8
  <2>10. f[s] \in Nat /\ a + m <= f[s] /\ f[s] <= b + M
    BY <2>2, <2>6, <2>7, <2>9
  <2> QED
    BY <2>5, <2>8, <2>9, <2>10
<1>3. Good({})
  <2>1. Cardinality({}) = 0 /\ m * 0 = 0 /\ M * 0 = 0
    BY FS_EmptySet
  <2> QED
    BY <1>1, <2>1
<1> HIDE DEF Good
<1>4. {} \in Q /\ Q \in SUBSET (SUBSET S)
  BY <1>3
<1>5. \A s \in SUBSET S : s # {} /\ s \ {Some(s)} \in Q => s \in Q
  BY <1>2
<1>6. \A s \in Q : Good(s)
  OBVIOUS
<1> HIDE DEF Q
<1>7. Q = SUBSET S
  BY <1>4, <1>5, PartInduction
<1>8. Good(S)
  BY <1>6, <1>7
<1> QED
  BY <1>8 DEF Good

-----------------------------------------------------------------------------
(* Classes, and sums of sums.                                              *)

\* The members of D in class b of c.
ClassOf(c, D, b) == {d \in D : c[d] = b}

\* Each member of D is in one class of S: the classes have as many members as D.
LEMMA ClassesCount ==
  ASSUME NEW D, IsFiniteSet(D), NEW S, IsFiniteSet(S), NEW c, \A d \in D : c[d] \in S,
         NEW g, \A b \in S : g[b] = Cardinality(ClassOf(c, D, b)),
         NEW e, SumsOver(e, g, S)
  PROVE  e[S] = Cardinality(D)
<1> DEFINE In(s) == {d \in D : c[d] \in s}
           Q == {s \in SUBSET S : e[s] = Cardinality(In(s))}
<1>1. /\ e[{}] = 0
      /\ \A s \in SUBSET S : s # {} => e[s] = g[Some(s)] + e[s \ {Some(s)}]
  BY DEF SumsOver
<1>2. ASSUME NEW s \in SUBSET S, s # {}, e[s \ {Some(s)}] = Cardinality(In(s \ {Some(s)}))
      PROVE  e[s] = Cardinality(In(s))
  <2>1. PICK y \in S : y = Some(s) /\ y \in s
    BY <1>2 DEF Some
  <2> DEFINE A == {d \in D : c[d] = y}
             B == In(s \ {y})
  <2>2. In(s) = A \cup B /\ A \cap B = {} /\ A \in SUBSET D /\ B \in SUBSET D
    BY <2>1
  <2>3. g[y] = Cardinality(A)
    BY DEF ClassOf
  <2>4. e[s] = Cardinality(A) + Cardinality(B)
    BY <1>1, <1>2, <2>1, <2>3
  <2> HIDE DEF A, B, In
  <2>5. IsFiniteSet(A) /\ IsFiniteSet(B)
    BY <2>2, FS_Subset
  <2>6. Cardinality(A \cup B) = Cardinality(A) + Cardinality(B) - Cardinality(A \cap B)
    BY <2>5, FS_Union
  <2>7. Cardinality(A \cap B) = 0 /\ Cardinality(A) \in Nat /\ Cardinality(B) \in Nat
    BY <2>2, <2>5, FS_EmptySet, FS_CardinalityType
  <2> QED
    BY <2>2, <2>4, <2>6, <2>7
<1>3. In({}) = {} /\ In(S) = D
  OBVIOUS
<1> HIDE DEF In
<1>4. {} \in Q /\ Q \in SUBSET (SUBSET S)
  BY <1>1, <1>3, FS_EmptySet
<1>5. \A s \in SUBSET S : s # {} /\ s \ {Some(s)} \in Q => s \in Q
  BY <1>2
<1>6. \A s \in Q : e[s] = Cardinality(In(s))
  OBVIOUS
<1> HIDE DEF Q
<1>7. Q = SUBSET S
  BY <1>4, <1>5, PartInduction
<1> QED
  BY <1>3, <1>6, <1>7

\* Sums of terms that add up add up.
LEMMA SumsAdd ==
  ASSUME NEW S, IsFiniteSet(S), NEW g, NEW h, NEW d, NEW e, NEW f, NEW k,
         SumsOver(e, g, S), SumsOver(f, h, S), SumsOver(k, d, S),
         \A x \in S : g[x] \in Int /\ h[x] \in Int /\ d[x] = g[x] + h[x]
  PROVE  e[S] \in Int /\ f[S] \in Int /\ k[S] = e[S] + f[S]
<1> DEFINE Good(s) == e[s] \in Int /\ f[s] \in Int /\ k[s] = e[s] + f[s]
           Q == {s \in SUBSET S : Good(s)}
<1>1. /\ e[{}] = 0 /\ f[{}] = 0 /\ k[{}] = 0
      /\ \A s \in SUBSET S : s # {} => /\ e[s] = g[Some(s)] + e[s \ {Some(s)}]
                                       /\ f[s] = h[Some(s)] + f[s \ {Some(s)}]
                                       /\ k[s] = d[Some(s)] + k[s \ {Some(s)}]
  BY DEF SumsOver
<1>2. ASSUME NEW s \in SUBSET S, s # {}, Good(s \ {Some(s)}) PROVE Good(s)
  <2>1. PICK y \in S : y = Some(s) /\ y \in s
    BY <1>2 DEF Some
  <2>2. e[s] = g[y] + e[s \ {y}] /\ f[s] = h[y] + f[s \ {y}] /\ k[s] = d[y] + k[s \ {y}]
    BY <1>1, <1>2, <2>1
  <2>3. e[s \ {y}] \in Int /\ f[s \ {y}] \in Int /\ k[s \ {y}] = e[s \ {y}] + f[s \ {y}]
    BY <1>2, <2>1
  <2>4. g[y] \in Int /\ h[y] \in Int /\ d[y] = g[y] + h[y]
    OBVIOUS
  <2> QED
    BY <2>2, <2>3, <2>4
<1>3. Good({})
  BY <1>1
<1> HIDE DEF Good
<1>4. {} \in Q /\ Q \in SUBSET (SUBSET S)
  BY <1>3
<1>5. \A s \in SUBSET S : s # {} /\ s \ {Some(s)} \in Q => s \in Q
  BY <1>2
<1>6. \A s \in Q : Good(s)
  OBVIOUS
<1> HIDE DEF Q
<1>7. Q = SUBSET S
  BY <1>4, <1>5, PartInduction
<1>8. Good(S)
  BY <1>6, <1>7
<1> QED
  BY <1>8 DEF Good

\* What sums are over a module's function.
LEMMA TotalIsSum ==
  ASSUME NEW S, IsFiniteSet(S), NEW g, \A x \in S : g[x] \in Int
  PROVE  \E e : SumsOver(e, g, S) /\ Total(g, S) = e[S]
<1> DEFINE It == CHOOSE f : SumsOver(f, g, S)
<1>1. Total(g, S) = It[S]
  BY DEF Total, MapThenSumSet, MapThenFoldSet, SumsOver, Some
<1>2. \E f : SumsOver(f, g, S)
  BY SumsExist
<1>3. SumsOver(It, g, S)
  BY <1>2
<1> HIDE DEF It
<1> QED
  BY <1>1, <1>3

-----------------------------------------------------------------------------
(* Windows of a load.                                                      *)

\* A window lies in two that meet in it.
LEMMA WindowInTwo ==
  ASSUME NEW n \in Nat, NEW s \in [1 .. n -> Nat], Window \in Nat \ {0},
         NEW t \in Int, NEW u \in Int, u <= t, t < u + Window
  PROVE  /\ InWindow(s, t) \in Nat /\ InWindow(s, u) \in Nat /\ InWindow(s, u + Window) \in Nat
         /\ InWindow(s, t) <= InWindow(s, u) + InWindow(s, u + Window)
<1> DEFINE D == 1 .. n
           W(v) == {i \in D : v <= s[i] /\ s[i] < v + Window}
<1>1. DOMAIN s = D /\ IsFiniteSet(D) /\ \A i \in D : s[i] \in Nat
  <2>1. 1 \in Int /\ n \in Int
    OBVIOUS
  <2> QED
    BY <2>1, FS_Interval
<1>2. \A v : InWindow(s, v) = Cardinality(W(v)) /\ W(v) \in SUBSET D
  BY <1>1 DEF InWindow
<1>3. W(t) \in SUBSET (W(u) \cup W(u + Window))
  BY <1>1
<1> HIDE DEF W, D
<1>4. \A v : IsFiniteSet(W(v)) /\ Cardinality(W(v)) \in Nat
  BY <1>1, <1>2, FS_Subset, FS_CardinalityType
<1> DEFINE A == W(u)
           B == W(u + Window)
<1>5. IsFiniteSet(A) /\ IsFiniteSet(B) /\ Cardinality(A) \in Nat /\ Cardinality(B) \in Nat
  BY <1>4
<1>6. W(t) \in SUBSET (A \cup B)
  BY <1>3
<1> HIDE DEF A, B
<1>7. /\ IsFiniteSet(A \cup B) /\ Cardinality(W(t)) <= Cardinality(A \cup B)
      /\ Cardinality(A \cup B) = Cardinality(A) + Cardinality(B) - Cardinality(A \cap B)
      /\ Cardinality(A \cap B) \in Nat /\ Cardinality(A \cup B) \in Nat
  BY <1>5, <1>6, FS_Union, FS_Subset, FS_Intersection, FS_CardinalityType
<1>8. Cardinality(W(t)) <= Cardinality(A) + Cardinality(B)
  BY <1>4, <1>5, <1>7
<1> QED
  BY <1>2, <1>4, <1>8 DEF A, B

\* The first m of s and the rest.
Parts(s, p, q, n, m) ==
  /\ n \in Nat /\ s \in [1 .. n -> Nat]
  /\ m \in 0 .. n /\ p \in [1 .. m -> Nat] /\ q \in [1 .. n - m -> Nat]
  /\ \A i \in 1 .. m : p[i] = s[i]
  /\ \A i \in 1 .. n - m : q[i] = s[m + i]

\* A window holds what it holds of each part.
LEMMA WindowOfParts ==
  ASSUME NEW s, NEW p, NEW q, NEW n, NEW m, Parts(s, p, q, n, m), NEW t, t \in Int
  PROVE  /\ InWindow(p, t) \in Nat /\ InWindow(q, t) \in Nat
         /\ InWindow(s, t) = InWindow(p, t) + InWindow(q, t)
<1> DEFINE In(f, i) == t <= f[i] /\ f[i] < t + Window
           A == {i \in 1 .. m : In(p, i)}
           B == {i \in 1 .. n - m : In(q, i)}
           C == {i \in 1 .. n : In(s, i)}
           H == {i \in C : m < i}
           b == [i \in B |-> m + i]
<1>1. /\ n \in Nat /\ m \in Nat /\ m <= n /\ n - m \in Nat
      /\ DOMAIN s = 1 .. n /\ DOMAIN p = 1 .. m /\ DOMAIN q = 1 .. n - m
      /\ \A i \in 1 .. m : p[i] = s[i]
      /\ \A i \in 1 .. n - m : q[i] = s[m + i]
  BY DEF Parts
<1>2. InWindow(s, t) = Cardinality(C) /\ InWindow(p, t) = Cardinality(A) /\ InWindow(q, t) = Cardinality(B)
  BY <1>1 DEF InWindow
<1>3. A \in SUBSET C /\ H = C \ A /\ A \in SUBSET (1 .. n) /\ B \in SUBSET (1 .. n) /\ C \in SUBSET (1 .. n)
  BY <1>1
<1>4. b \in [B -> H]
  <2> SUFFICES ASSUME NEW i \in B PROVE m + i \in H
    OBVIOUS
  <2>1. i \in 1 .. n - m /\ In(q, i) /\ m + i \in 1 .. n /\ m < m + i
    BY <1>1
  <2>2. q[i] = s[m + i]
    BY <1>1, <2>1
  <2> QED
    BY <2>1, <2>2
<1>5. \A i, j \in B : b[i] = b[j] => i = j
  <2> SUFFICES ASSUME NEW i \in B, NEW j \in B, m + i = m + j PROVE i = j
    OBVIOUS
  <2>1. i \in Int /\ j \in Int
    BY <1>1
  <2> QED
    BY <1>1, <2>1
<1>6. \A h \in H : \E i \in B : b[i] = h
  <2> SUFFICES ASSUME NEW h \in H PROVE \E i \in B : b[i] = h
    OBVIOUS
  <2>1. h \in 1 .. n /\ In(s, h) /\ m < h
    OBVIOUS
  <2>2. h - m \in 1 .. n - m /\ m + (h - m) = h
    BY <1>1, <2>1
  <2>3. q[h - m] = s[h]
    BY <1>1, <2>2
  <2>4. h - m \in B
    BY <2>1, <2>2, <2>3
  <2>5. b[h - m] = m + (h - m)
    BY <2>4
  <2> QED
    BY <2>2, <2>4, <2>5
<1>7. IsFiniteSet(1 .. n)
  <2>1. 1 \in Int /\ n \in Int
    BY <1>1
  <2> QED
    BY <2>1, FS_Interval
<1> HIDE DEF A, B, C, H, b
<1>8. IsFiniteSet(A) /\ IsFiniteSet(B) /\ IsFiniteSet(C)
  BY <1>3, <1>7, FS_Subset
<1>9. Cardinality(H) = Cardinality(B)
  <2>1. b \in Bijection(B, H)
    BY <1>4, <1>5, <1>6 DEF Bijection, Injection, Surjection, IsInjective
  <2> QED
    BY <1>8, <2>1, FS_Bijection DEF ExistsBijection
<1>10. Cardinality(C \ A) = Cardinality(C) - Cardinality(A)
  <2>1. C \cap A = A
    BY <1>3
  <2>2. Cardinality(C \ A) = Cardinality(C) - Cardinality(C \cap A)
    BY <1>8, FS_Difference
  <2> QED
    BY <2>1, <2>2
<1>11. Cardinality(A) \in Nat /\ Cardinality(B) \in Nat /\ Cardinality(C) \in Nat
  BY <1>8, FS_CardinalityType
<1>12. Cardinality(C) = Cardinality(A) + Cardinality(B)
  BY <1>3, <1>9, <1>10, <1>11
<1> QED
  BY <1>2, <1>11, <1>12

\* s has n entries.
Sized(s, n) == s \in [1 .. n -> Nat] /\ (n = 0 <=> s = <<>>)

\* The peak of the whole is no less than those of its parts, and no more than both.
LEMMA PeakOfParts ==
  ASSUME NEW n \in Nat, NEW s, Sized(s, n), Ascending(s), Window \in Nat \ {0},
         NEW m, NEW p, NEW q, Parts(s, p, q, n, m), Sized(p, m), Sized(q, n - m)
  PROVE  /\ SlidingPeak(p) \in Nat /\ SlidingPeak(q) \in Nat /\ SlidingPeak(s) \in Nat
         /\ SlidingPeak(p) <= SlidingPeak(s) /\ SlidingPeak(q) <= SlidingPeak(s)
         /\ SlidingPeak(s) <= SlidingPeak(q) + SlidingPeak(p)
         /\ \A t \in Int : InWindow(q, t) <= SlidingPeak(q)
<1>4. \A t \in Int : /\ InWindow(p, t) \in Nat /\ InWindow(q, t) \in Nat
                     /\ InWindow(s, t) = InWindow(p, t) + InWindow(q, t)
  BY WindowOfParts
<1> DEFINE P(f) == SlidingPeak(f)
           I(f, t) == InWindow(f, t)
           Holds(f, k) == /\ P(f) \in Nat
                          /\ \A t \in Int : I(f, t) \in Nat /\ I(f, t) <= P(f)
                          /\ P(f) = 0 \/ \E t \in Int : P(f) = I(f, t)
<1>1. \A k \in Nat : \A f : Ascending(f) /\ Sized(f, k) => Holds(f, k)
  <2> SUFFICES ASSUME NEW k \in Nat, NEW f \in [1 .. k -> Nat], Ascending(f), k = 0 <=> f = <<>>
               PROVE  Holds(f, k)
    BY DEF Sized
  <2>1. /\ P(f) \in Nat /\ \A t \in Int : I(f, t) \in Nat /\ I(f, t) <= P(f)
        /\ k = 0 => P(f) = 0
        /\ k # 0 => \E i \in 1 .. k : P(f) = I(f, f[i])
    BY PeakHolds
  <2>2. \A i \in 1 .. k : f[i] \in Int
    OBVIOUS
  <2> HIDE DEF P, I
  <2> QED
    BY <2>1, <2>2
<1>2. /\ m \in Nat /\ n - m \in Nat /\ m <= n /\ p \in [1 .. m -> Nat] /\ q \in [1 .. n - m -> Nat]
      /\ \A i \in 1 .. m : p[i] = s[i]
      /\ \A i \in 1 .. n - m : q[i] = s[m + i]
  BY DEF Parts
<1>a. s \in [1 .. n -> Nat]
  BY DEF Sized
<1>3. Ascending(p) /\ Ascending(q)
  <2>1. Ascending(p)
    <3> SUFFICES ASSUME NEW i \in 1 .. m, NEW j \in 1 .. m, i <= j PROVE p[i] <= p[j]
      BY <1>2 DEF Ascending
    <3>1. i \in 1 .. n /\ j \in 1 .. n
      BY <1>2
    <3>2. s[i] <= s[j]
      BY <1>a, <3>1 DEF Ascending
    <3> QED
      BY <1>2, <3>2
  <2>2. Ascending(q)
    <3> SUFFICES ASSUME NEW i \in 1 .. n - m, NEW j \in 1 .. n - m, i <= j PROVE q[i] <= q[j]
      BY <1>2 DEF Ascending
    <3>1. m + i \in 1 .. n /\ m + j \in 1 .. n /\ m + i <= m + j
      BY <1>2
    <3>2. s[m + i] <= s[m + j]
      BY <1>a, <3>1 DEF Ascending
    <3> QED
      BY <1>2, <3>2
  <2> QED
    BY <2>1, <2>2
<1> HIDE DEF P, I
<1>5. Holds(s, n) /\ Holds(p, m) /\ Holds(q, n - m)
  BY <1>1, <1>2, <1>3
<1>6. P(s) <= P(q) + P(p)
  <2>1. CASE P(s) = 0
    BY <1>5, <2>1
  <2>2. CASE P(s) # 0
    <3>1. PICK t \in Int : P(s) = I(s, t)
      BY <1>5, <2>2
    <3>2. I(p, t) \in Nat /\ I(q, t) \in Nat /\ I(s, t) = I(p, t) + I(q, t)
      BY <1>4 DEF I
    <3>3. I(p, t) <= P(p) /\ I(q, t) <= P(q)
      BY <1>5
    <3> QED
      BY <1>5, <3>1, <3>2, <3>3
  <2> QED
    BY <2>1, <2>2
<1>7. ASSUME NEW f \in {p, q} PROVE P(f) <= P(s)
  <2>1. Holds(f, 0)
    BY <1>5
  <2>2. CASE P(f) = 0
    BY <1>5, <2>2
  <2>3. CASE P(f) # 0
    <3>1. PICK t \in Int : P(f) = I(f, t)
      BY <2>1, <2>3
    <3>2. I(p, t) \in Nat /\ I(q, t) \in Nat /\ I(s, t) = I(p, t) + I(q, t)
      BY <1>4 DEF I
    <3>3. I(s, t) <= P(s) /\ P(s) \in Nat
      BY <1>5
    <3> QED
      BY <3>1, <3>2, <3>3
  <2> QED
    BY <2>2, <2>3
<1> QED
  BY <1>5, <1>6, <1>7 DEF P, I

\* Of times in order those before t come first.
LEMMA SearchIsPrefix ==
  ASSUME NEW n \in Nat, NEW s \in [1 .. n -> Nat], Ascending(s), NEW t \in Int
  PROVE  /\ SearchLeft(s, t) \in 0 .. n
         /\ \A i \in 1 .. n : s[i] < t <=> i <= SearchLeft(s, t)
<1> DEFINE B == {i \in 1 .. n : s[i] < t}
           U == {i \in 1 .. n : t <= s[i]}
<1>1. DOMAIN s = 1 .. n /\ \A i \in 1 .. n : s[i] \in Nat
  OBVIOUS
<1>2. SearchLeft(s, t) = Cardinality(B)
  BY <1>1 DEF SearchLeft
<1>3. \E m \in 0 .. n : B = 1 .. m
  <2>1. CASE U = {}
    <3>1. B = 1 .. n
      BY <1>1, <2>1
    <3> QED
      BY <3>1
  <2>2. CASE U # {}
    <3>1. U \in SUBSET Nat
      OBVIOUS
    <3>2. PICK u \in U : \A i \in U : u <= i
      BY <2>2, <3>1, LeastNat
    <3>3. u \in 1 .. n /\ t <= s[u]
      BY <3>2
    <3>4. \A i \in 1 .. n : s[i] < t <=> i <= u - 1
      <4> SUFFICES ASSUME NEW i \in 1 .. n PROVE s[i] < t <=> i <= u - 1
        OBVIOUS
      <4>1. CASE i < u
        <5>1. i \notin U
          BY <3>1, <3>2, <3>3, <4>1
        <5> QED
          BY <1>1, <3>3, <4>1, <5>1
      <4>2. CASE u <= i
        <5>1. s[u] <= s[i]
          BY <1>1, <3>3, <4>2 DEF Ascending
        <5> QED
          BY <1>1, <3>3, <4>2, <5>1
      <4> QED
        BY <3>3, <4>1, <4>2
    <3>5. u - 1 \in 0 .. n /\ B = 1 .. u - 1
      BY <3>3, <3>4
    <3> QED
      BY <3>5
  <2> QED
    BY <2>1, <2>2
<1>4. PICK m \in 0 .. n : B = 1 .. m
  BY <1>3
<1>5. Cardinality(1 .. m) = m
  <2>1. 1 \in Int /\ m \in Int /\ m \in Nat
    OBVIOUS
  <2>2. Cardinality(1 .. m) = IF 1 > m THEN 0 ELSE m - 1 + 1
    BY <2>1, FS_Interval
  <2> QED
    BY <2>1, <2>2
<1>6. \A i \in 1 .. n : i \in B <=> i <= m
  BY <1>4
<1> QED
  BY <1>2, <1>4, <1>5, <1>6
=============================================================================
