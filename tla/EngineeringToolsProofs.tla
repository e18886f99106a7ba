----------------------- MODULE EngineeringToolsProofs -----------------------
(***************************************************************************)
(* Proofs about EngineeringTools, for every set of proposals that have the *)
(* types they give, every bound on the steps and all thresholds: the       *)
(* methods that look for a root keep a bracket of it and answer with one   *)
(* that lies in it or stay within their iterations, and no tool raises an  *)
(* error that is not its own but where OnlyOwnErrors says so.              *)
(*                                                                         *)
(* They rest on the exact arithmetic of Rationals, up from Euclid's        *)
(* algorithm.  Induction over the numbers is stated of sets                *)
(* (SetInduction), and what is computed by recursion exists because there  *)
(* is a function for every prefix of its domain (RecursionExists).         *)
(***************************************************************************)
EXTENDS EngineeringTools, FiniteSetTheorems, WellFoundedInduction, TLAPS

-----------------------------------------------------------------------------
(* Induction *)

\* Induction over the natural numbers, stated of a set: the least number outside it would have
\* a predecessor inside it.
LEMMA SetInduction ==
  ASSUME NEW T, 0 \in T, \A n \in Nat : n \in T => n + 1 \in T
  PROVE  \A n \in Nat : n \in T
<1> DEFINE U == Nat \ T
           R == OpToRel(<, Nat)
<1> SUFFICES ASSUME U # {} PROVE FALSE
  OBVIOUS
<1>1. IsWellFoundedOn(R, Nat)
  BY NatLessThanWellFounded
<1>2. U \subseteq Nat
  OBVIOUS
<1> HIDE DEF R
<1>3. PICK x \in U : \A y \in U : <<y, x>> \notin R
  BY <1>1, <1>2, WFMin
<1>4. x # 0 /\ x \in Nat /\ x - 1 \in Nat /\ x - 1 < x
  OBVIOUS
<1>5. <<x - 1, x>> \in R
  BY <1>4 DEF R, OpToRel
<1>6. x - 1 \notin U
  BY <1>3, <1>5
<1>7. x - 1 \in T
  BY <1>4, <1>6
<1> QED
  BY <1>4, <1>7

-----------------------------------------------------------------------------
(* Euclid's algorithm *)

\* d divides both numbers and is a combination of them (Bezout).
IsGcd(d, a, b) ==
  /\ d \in Nat
  /\ \E p, q \in Nat : a = p * d /\ b = q * d
  /\ \E x, y \in Int : d = x * a + y * b

\* Only one number does.
LEMMA GcdIsUnique ==
  ASSUME NEW a \in Nat, NEW b \in Nat, NEW d, NEW e, IsGcd(d, a, b), IsGcd(e, a, b)
  PROVE  d = e
<1>1. ASSUME NEW f, NEW g, IsGcd(f, a, b), IsGcd(g, a, b) PROVE \E k \in Int : g = k * f
  <2>1. f \in Nat /\ g \in Nat
    BY <1>1 DEF IsGcd
  <2>2. PICK p \in Nat, q \in Nat : a = p * f /\ b = q * f
    BY <1>1 DEF IsGcd
  <2>3. PICK x \in Int, y \in Int : g = x * a + y * b
    BY <1>1 DEF IsGcd
  <2>4. g = (x * p + y * q) * f
    BY <2>1, <2>2, <2>3
  <2>5. x * p + y * q \in Int
    OBVIOUS
  <2> QED
    BY <2>4, <2>5
<1>2. d \in Nat /\ e \in Nat
  BY DEF IsGcd
<1>3. PICK k \in Int : e = k * d
  BY <1>1
<1>4. PICK l \in Int : d = l * e
  BY <1>1
<1>5. CASE d = 0
  BY <1>2, <1>3, <1>5
<1>6. CASE e = 0
  BY <1>2, <1>4, <1>6
<1>7. CASE d > 0 /\ e > 0
  <2>1. k > 0 /\ l > 0
    BY <1>2, <1>3, <1>4, <1>7
  <2>2. e >= d
    <3>1. e = d + (k - 1) * d /\ k - 1 >= 0
      BY <1>2, <1>3, <2>1
    <3>2. (k - 1) * d >= 0
      BY <1>2, <3>1
    <3>3. (k - 1) * d \in Int
      BY <1>2
    <3> QED
      BY <1>2, <3>1, <3>2, <3>3
  <2>3. d >= e
    <3>1. d = e + (l - 1) * e /\ l - 1 >= 0
      BY <1>2, <1>4, <2>1
    <3>2. (l - 1) * e >= 0
      BY <1>2, <3>1
    <3>3. (l - 1) * e \in Int
      BY <1>2
    <3> QED
      BY <1>2, <3>1, <3>2, <3>3
  <2> QED
    BY <1>2, <2>2, <2>3
<1> QED
  BY <1>2, <1>5, <1>6, <1>7

\* A division with remainder keeps it.
LEMMA GcdOfRemainder ==
  ASSUME NEW a \in Nat, NEW b \in Nat \ {0}, NEW d, IsGcd(d, b, a % b)
  PROVE  IsGcd(d, a, b)
<1> DEFINE r == a % b
           k == a \div b
<1>1. r \in Nat /\ k \in Nat /\ a = k * b + r
  <2>1. a = b * (a \div b) + (a % b) /\ (a % b) \in 0..b - 1 /\ a \div b \in Nat
    OBVIOUS
  <2> QED
    BY <2>1
<1> HIDE DEF r, k
<1>2. IsGcd(d, b, r) /\ d \in Nat
  BY DEF r, IsGcd
<1>3. PICK p \in Nat, q \in Nat : b = p * d /\ r = q * d
  BY <1>2 DEF IsGcd
<1>4. PICK x \in Int, y \in Int : d = x * b + y * r
  BY <1>2 DEF IsGcd
<1>5. a = (k * p + q) * d /\ k * p + q \in Nat
  <2>1. a = k * (p * d) + q * d
    BY <1>1, <1>3
  <2>2. k * (p * d) = (k * p) * d
    BY <1>1, <1>2
  <2>3. (k * p) * d + q * d = (k * p + q) * d
    BY <1>1, <1>2
  <2> QED
    BY <1>1, <2>1, <2>2, <2>3
<1>6. d = y * a + (x - y * k) * b /\ x - y * k \in Int
  <2>1. y * a = y * (k * b) + y * r
    BY <1>1
  <2>2. (x - y * k) * b = x * b - y * (k * b)
    BY <1>1
  <2>3. y * (k * b) \in Int /\ y * r \in Int /\ x * b \in Int /\ y * k \in Int
    BY <1>1
  <2> QED
    BY <1>4, <2>1, <2>2, <2>3
<1> QED
  BY <1>2, <1>3, <1>5, <1>6 DEF IsGcd

\* There is one, by induction on the smaller number.
LEMMA GcdExists ==
  ASSUME NEW a \in Nat, NEW b \in Nat
  PROVE  \E d : IsGcd(d, a, b)
<1> DEFINE T == {n \in Nat : \A k \in 0..n : \A m \in Nat : \E d : IsGcd(d, m, k)}
<1>1. ASSUME NEW m \in Nat PROVE IsGcd(m, m, 0)
  <2>1. m = 1 * m /\ 0 = 0 * m /\ m = 1 * m + 0 * 0 /\ 1 \in Nat /\ 0 \in Nat /\ 1 \in Int /\ 0 \in Int
    OBVIOUS
  <2> QED
    BY <2>1 DEF IsGcd
<1>2. 0 \in T
  BY <1>1
<1>3. ASSUME NEW n \in Nat, n \in T PROVE n + 1 \in T
  <2> SUFFICES ASSUME NEW k \in 0..n + 1, NEW m \in Nat PROVE \E d : IsGcd(d, m, k)
    OBVIOUS
  <2>1. CASE k \in 0..n
    BY <1>3, <2>1
  <2>2. CASE k = n + 1
    <3>1. k \in Nat \ {0} /\ m % k \in 0..n
      BY <2>2
    <3>2. PICK d : IsGcd(d, k, m % k)
      BY <1>3, <3>1
    <3>3. IsGcd(d, m, k)
      BY <3>1, <3>2, GcdOfRemainder
    <3> QED
      BY <3>3
  <2> QED
    BY <2>1, <2>2
<1> HIDE DEF T
<1>4. b \in T
  BY <1>2, <1>3, SetInduction
<1> QED
  BY <1>4 DEF T

\* The equation of Gcd.
GcdBody(gcd) == [b \in Nat |-> [a \in Nat |-> IF b = 0 THEN a ELSE gcd[a % b][b]]]

\* Gcd computes it.
LEMMA GcdIsGcd ==
  ASSUME NEW a \in Nat, NEW b \in Nat
  PROVE  IsGcd(Gcd[b][a], a, b)
<1> DEFINE g == [k \in Nat |-> [m \in Nat |-> CHOOSE d : IsGcd(d, m, k)]]
<1>1. ASSUME NEW k \in Nat, NEW m \in Nat PROVE IsGcd(g[k][m], m, k)
  BY GcdExists
<1>2. g = GcdBody(g)
  <2>1. ASSUME NEW k \in Nat, NEW m \in Nat
        PROVE  g[k][m] = IF k = 0 THEN m ELSE g[m % k][k]
    <3>1. IsGcd(g[k][m], m, k)
      BY <1>1
    <3> HIDE DEF g
    <3>2. CASE k = 0
      <4>1. m = 1 * m /\ 0 = 0 * m /\ m = 1 * m + 0 * 0 /\ 1 \in Nat /\ 0 \in Nat /\ 1 \in Int /\ 0 \in Int
        OBVIOUS
      <4>2. IsGcd(m, m, 0)
        BY <4>1 DEF IsGcd
      <4> QED
        BY <3>1, <3>2, <4>2, GcdIsUnique
    <3>3. CASE k # 0
      <4>1. m % k \in Nat /\ k \in Nat \ {0}
        BY <3>3
      <4>2. IsGcd(g[m % k][k], k, m % k)
        BY <1>1, <4>1
      <4>3. IsGcd(g[m % k][k], m, k)
        BY <4>1, <4>2, GcdOfRemainder
      <4> QED
        BY <3>1, <3>3, <4>3, GcdIsUnique
    <3> QED
      BY <3>2, <3>3
  <2>2. ASSUME NEW k \in Nat PROVE g[k] = [m \in Nat |-> IF k = 0 THEN m ELSE g[m % k][k]]
    <3>1. \A m \in Nat : g[k][m] = IF k = 0 THEN m ELSE g[m % k][k]
      BY <2>1
    <3> QED
      BY <3>1
  <2> QED
    BY <2>2 DEF GcdBody
<1> HIDE DEF g
<1>3. Gcd = GcdBody(Gcd)
  BY <1>2 DEF Gcd, GcdBody
<1>4. ASSUME NEW k \in Nat, NEW m \in Nat PROVE Gcd[k][m] = IF k = 0 THEN m ELSE Gcd[m % k][k]
  <2> DEFINE h == Gcd
  <2>1. h = GcdBody(h)
    BY <1>3
  <2> HIDE DEF h
  <2>2. h[k][m] = IF k = 0 THEN m ELSE h[m % k][k]
    BY <2>1 DEF GcdBody
  <2> QED
    BY <2>2 DEF h
<1> DEFINE T == {n \in Nat : \A k \in 0..n : \A m \in Nat : IsGcd(Gcd[k][m], m, k)}
<1>5. ASSUME NEW m \in Nat PROVE IsGcd(Gcd[0][m], m, 0)
  <2>1. m = 1 * m /\ 0 = 0 * m /\ m = 1 * m + 0 * 0 /\ 1 \in Nat /\ 0 \in Nat /\ 1 \in Int /\ 0 \in Int
    OBVIOUS
  <2>2. IsGcd(m, m, 0)
    BY <2>1 DEF IsGcd
  <2> QED
    BY <1>4, <2>2
<1>6. 0 \in T
  BY <1>5
<1>7. ASSUME NEW n \in Nat, n \in T PROVE n + 1 \in T
  <2> SUFFICES ASSUME NEW k \in 0..n + 1, NEW m \in Nat PROVE IsGcd(Gcd[k][m], m, k)
    OBVIOUS
  <2>1. CASE k \in 0..n
    BY <1>7, <2>1
  <2>2. CASE k = n + 1
    <3>1. k \in Nat \ {0} /\ m % k \in 0..n
      BY <2>2
    <3>2. IsGcd(Gcd[m % k][k], k, m % k)
      BY <1>7, <3>1
    <3>3. IsGcd(Gcd[m % k][k], m, k)
      BY <3>1, <3>2, GcdOfRemainder
    <3>4. Gcd[k][m] = Gcd[m % k][k]
      BY <1>4, <3>1
    <3> QED
      BY <3>3, <3>4
  <2> QED
    BY <2>1, <2>2
<1> HIDE DEF T
<1>8. b \in T
  BY <1>6, <1>7, SetInduction
<1> QED
  BY <1>8 DEF T

-----------------------------------------------------------------------------
(* Fractions *)

\* q is n over d, which need not be its lowest terms.
Is(q, n, d) == q \in Fractions /\ n \in Int /\ d \in Nat \ {0} /\ q[1] * d = n * q[2]

\* A fraction is a pair, and its numbers have no divisor in common.
LEMMA FractionParts ==
  ASSUME NEW q \in Fractions
  PROVE  /\ q[1] \in Int /\ q[2] \in Nat \ {0} /\ q = <<q[1], q[2]>>
         /\ \E x, y \in Int : x * q[1] + y * q[2] = 1
<1>1. q \in Int \X (Nat \ {0}) /\ Gcd[q[2]][Magnitude(q[1])] = 1
  BY DEF Fractions
<1>2. q[1] \in Int /\ q[2] \in Nat \ {0} /\ q = <<q[1], q[2]>>
  BY <1>1
<1> DEFINE n == q[1]
           d == q[2]
           m == Magnitude(q[1])
<1>3. m \in Nat /\ (m = n \/ m = -n)
  BY <1>2 DEF Magnitude
<1>4. IsGcd(1, m, d)
  BY <1>1, <1>2, <1>3, GcdIsGcd
<1>5. PICK x \in Int, y \in Int : 1 = x * m + y * d
  BY <1>4 DEF IsGcd
<1>6. \E z \in Int : z * n = x * m
  <2>1. CASE m = n
    BY <2>1
  <2>2. CASE m = -n
    <3>1. (-x) * n = x * m /\ -x \in Int
      BY <1>2, <2>2
    <3> QED
      BY <3>1
  <2> QED
    BY <1>3, <2>1, <2>2
<1> QED
  BY <1>2, <1>5, <1>6

\* The other way round.
LEMMA LowestTerms ==
  ASSUME NEW n \in Int, NEW d \in Nat \ {0}, NEW x \in Int, NEW y \in Int, x * n + y * d = 1
  PROVE  <<n, d>> \in Fractions
<1> DEFINE m == Magnitude(n)
           g == Gcd[d][m]
<1>1. m \in Nat /\ (m = n \/ m = -n)
  BY DEF Magnitude
<1>2. IsGcd(g, m, d)
  BY <1>1, GcdIsGcd
<1> HIDE DEF g, m
<1>3. g \in Nat
  BY <1>2 DEF IsGcd
<1>4. PICK p \in Nat, q \in Nat : m = p * g /\ d = q * g
  BY <1>2 DEF IsGcd
<1>5. PICK s \in Int : n = s * g
  <2>1. CASE m = n
    BY <1>4, <2>1
  <2>2. CASE m = -n
    <3>1. n = (-p) * g /\ -p \in Int
      BY <1>3, <1>4, <2>2
    <3> QED
      BY <3>1
  <2> QED
    BY <1>1, <2>1, <2>2
<1>6. (x * s + y * q) * g = 1
  <2>1. x * (s * g) + y * (q * g) = (x * s + y * q) * g
    BY <1>3
  <2> QED
    BY <1>4, <1>5, <2>1
<1>7. g = 1
  <2> DEFINE k == x * s + y * q
  <2>1. k \in Int /\ k * g = 1
    BY <1>6
  <2> HIDE DEF k
  <2>2. g # 0
    BY <1>3, <2>1
  <2>3. k > 0
    BY <1>3, <2>1, <2>2
  <2>4. CASE g > 1
    <3>1. k * g = g + (k - 1) * g
      BY <1>3, <2>1
    <3>2. (k - 1) * g >= 0 /\ (k - 1) * g \in Int
      BY <1>3, <2>1, <2>3
    <3> QED
      BY <1>3, <2>1, <2>4, <3>1, <3>2
  <2> QED
    BY <1>3, <2>2, <2>4
<1> QED
  BY <1>7 DEF Fractions, g, m

\* Fraction brings it into lowest terms.
LEMMA FractionReduces ==
  ASSUME NEW n \in Int, NEW d \in Int, d # 0
  PROVE  /\ Fraction(n, d) \in Fractions
         /\ Fraction(n, d)[1] * d = n * Fraction(n, d)[2]
<1> DEFINE m == Magnitude(n)
           e == Magnitude(d)
           g == Gcd[e][m]
<1>1. m \in Nat /\ (m = n \/ m = -n) /\ e \in Nat \ {0} /\ e = IF d < 0 THEN -d ELSE d
  BY DEF Magnitude
<1>2. IsGcd(g, m, e)
  BY <1>1, GcdIsGcd
<1>3. Fraction(n, d) = <<(IF d < 0 THEN -1 ELSE 1) * (n \div g), (IF d < 0 THEN -1 ELSE 1) * (d \div g)>>
  BY DEF Fraction
<1> HIDE DEF g, m, e
<1>4. g \in Nat
  BY <1>2 DEF IsGcd
<1>5. PICK p \in Nat, q \in Nat : m = p * g /\ e = q * g
  BY <1>2 DEF IsGcd
<1>6. PICK x \in Int, y \in Int : g = x * m + y * e
  BY <1>2 DEF IsGcd
<1>7. g > 0 /\ q > 0
  BY <1>1, <1>4, <1>5
<1>8. PICK s \in Int : n = s * g /\ (s = p \/ s = -p) /\ (m = n => s = p) /\ (m # n => s = -p)
  <2>1. CASE m = n
    BY <1>5, <2>1
  <2>2. CASE m = -n /\ m # n
    <3>1. n = (-p) * g /\ -p \in Int
      BY <1>4, <1>5, <2>2
    <3> QED
      BY <2>2, <3>1
  <2> QED
    BY <1>1, <2>1, <2>2
<1>9. n \div g = s
  BY <1>4, <1>7, <1>8
<1>10. PICK u \in Int : u * s = x * p
  <2>1. CASE s = p
    BY <2>1
  <2>2. CASE s = -p
    <3>1. (-x) * s = x * p /\ -x \in Int
      BY <2>2
    <3> QED
      BY <3>1
  <2> QED
    BY <1>8, <2>1, <2>2
<1>11. x * p + y * q = 1
  <2>1. (x * p + y * q) * g = g
    <3>1. x * (p * g) + y * (q * g) = (x * p + y * q) * g
      BY <1>4
    <3> QED
      BY <1>5, <1>6, <3>1
  <2> DEFINE k == x * p + y * q
  <2>2. k \in Int /\ k * g = 1 * g
    BY <1>4, <2>1
  <2> HIDE DEF k
  <2>3. k = 1
    BY <1>4, <1>7, <2>2
  <2> QED
    BY <2>3 DEF k
<1>12. CASE d > 0
  <2>1. d = q * g /\ d \div g = q
    BY <1>1, <1>4, <1>5, <1>7, <1>12
  <2>2. Fraction(n, d) = <<s, q>>
    BY <1>3, <1>9, <1>12, <2>1
  <2>3. u * s + y * q = 1
    BY <1>10, <1>11
  <2>4. <<s, q>> \in Fractions
    BY <1>7, <2>3, LowestTerms
  <2>5. s * (q * g) = (s * g) * q
    BY <1>4
  <2> QED
    BY <1>8, <2>1, <2>2, <2>4, <2>5
<1>13. CASE d < 0
  <2>1. d = (-q) * g /\ d \div g = -q
    <3>1. d = (-q) * g
      BY <1>1, <1>4, <1>5, <1>13
    <3> QED
      BY <1>4, <1>7, <3>1
  <2>2. Fraction(n, d) = <<-s, q>>
    BY <1>3, <1>9, <1>13, <2>1
  <2>3. (-u) * (-s) + y * q = 1
    BY <1>10, <1>11
  <2>4. <<-s, q>> \in Fractions
    <3>1. -s \in Int /\ -u \in Int /\ q \in Nat \ {0}
      BY <1>7
    <3> HIDE <2>3
    <3>2. \E v \in Int : v * (-s) + y * q = 1
      BY <2>3, <3>1
    <3> QED
      BY <3>1, <3>2, LowestTerms
  <2>5. (-s) * ((-q) * g) = (s * g) * q
    BY <1>4
  <2> QED
    BY <1>8, <2>1, <2>2, <2>4, <2>5
<1> QED
  BY <1>12, <1>13

-----------------------------------------------------------------------------
(* Arithmetic: what a sum, a difference, a product or a quotient is the fraction of *)

\* A fraction is its numerator over its denominator.
LEMMA IsItself ==
  ASSUME NEW q \in Fractions
  PROVE  Is(q, q[1], q[2])
BY FractionParts DEF Is

\* A fraction is n over d with both multiplied by the same number.
LEMMA IsScaled ==
  ASSUME NEW q, NEW n, NEW d, Is(q, n, d), NEW k \in Nat \ {0}
  PROVE  Is(q, k * n, k * d)
<1>1. q \in Fractions /\ n \in Int /\ d \in Nat \ {0} /\ q[1] * d = n * q[2]
  BY DEF Is
<1>2. q[1] \in Int /\ q[2] \in Nat \ {0}
  BY <1>1, FractionParts
<1>3. k * n \in Int /\ k * d \in Nat \ {0}
  BY <1>1
<1>4. q[1] * (k * d) = k * (q[1] * d) /\ (k * n) * q[2] = k * (n * q[2])
  BY <1>1, <1>2
<1> QED
  BY <1>1, <1>3, <1>4 DEF Is

\* Two fractions have a common denominator.
LEMMA CommonDenominator ==
  ASSUME NEW p, NEW m, NEW d, Is(p, m, d), NEW q \in Fractions
  PROVE  \E l, n, e : Is(p, l, e) /\ Is(q, n, e)
<1>1. q[2] \in Nat \ {0} /\ d \in Nat \ {0}
  BY FractionParts DEF Is
<1>2. Is(p, q[2] * m, q[2] * d)
  BY <1>1, IsScaled
<1>3. Is(q, d * q[1], d * q[2])
  BY <1>1, IsItself, IsScaled
<1>4. d * q[2] = q[2] * d
  BY <1>1
<1> QED
  BY <1>2, <1>3, <1>4

\* What equals n over d is n over d.
LEMMA IsOver ==
  ASSUME NEW q \in Fractions, NEW k \in Int, NEW e \in Int, e # 0, q[1] * e = k * q[2],
         NEW n \in Int, NEW d \in Nat \ {0}, k * d = n * e
  PROVE  Is(q, n, d)
<1>1. q[1] \in Int /\ q[2] \in Nat \ {0}
  BY FractionParts
<1>2. (q[1] * d) * e = (n * q[2]) * e
  <2>1. (q[1] * d) * e = (q[1] * e) * d
    BY <1>1
  <2>2. (k * q[2]) * d = (k * d) * q[2]
    BY <1>1
  <2>3. (n * e) * q[2] = (n * q[2]) * e
    BY <1>1
  <2> QED
    BY <2>1, <2>2, <2>3
<1>3. q[1] * d = n * q[2]
  <2> DEFINE u == q[1] * d
             v == n * q[2]
  <2>1. u \in Int /\ v \in Int /\ u * e = v * e
    BY <1>1, <1>2
  <2> HIDE DEF u, v
  <2>2. u = v
    BY <2>1
  <2> QED
    BY <2>2 DEF u, v
<1> QED
  BY <1>3 DEF Is

\* The numerators of a sum of fractions with a common denominator are added.
LEMMA SumIs ==
  ASSUME NEW p, NEW m, NEW q, NEW n, NEW d, Is(p, m, d), Is(q, n, d)
  PROVE  Is(p \oplus q, m + n, d)
<1>1. /\ p[1] \in Int /\ p[2] \in Nat \ {0} /\ q[1] \in Int /\ q[2] \in Nat \ {0}
      /\ m \in Int /\ n \in Int /\ d \in Nat \ {0} /\ p[1] * d = m * p[2] /\ q[1] * d = n * q[2]
  BY FractionParts DEF Is
<1> DEFINE k == p[1] * q[2] + q[1] * p[2]
           e == p[2] * q[2]
<1>2. k \in Int /\ e \in Int /\ e # 0
  BY <1>1
<1>3. p \oplus q = Fraction(k, e)
  BY <1>1 DEF \oplus, IsExact
<1>4. k * d = (m + n) * e
  <2>1. k * d = (p[1] * d) * q[2] + (q[1] * d) * p[2]
    BY <1>1
  <2>2. (m + n) * e = (m * p[2]) * q[2] + (n * q[2]) * p[2]
    BY <1>1
  <2> QED
    BY <1>1, <2>1, <2>2
<1> HIDE DEF k, e
<1>5. Fraction(k, e) \in Fractions /\ Fraction(k, e)[1] * e = k * Fraction(k, e)[2]
  BY <1>2, FractionReduces
<1>6. m + n \in Int
  BY <1>1
<1> QED
  BY <1>1, <1>2, <1>3, <1>4, <1>5, <1>6, IsOver

\* The negative of a fraction.
LEMMA MinusIs ==
  ASSUME NEW q, NEW n, NEW d, Is(q, n, d)
  PROVE  Is(<<-q[1], q[2]>>, -n, d)
<1>1. /\ q[1] \in Int /\ q[2] \in Nat \ {0} /\ n \in Int /\ d \in Nat \ {0} /\ q[1] * d = n * q[2]
      /\ q \in Fractions
  BY FractionParts DEF Is
<1>2. PICK x \in Int, y \in Int : x * q[1] + y * q[2] = 1
  BY <1>1, FractionParts
<1>3. (-x) * (-q[1]) + y * q[2] = 1 /\ -x \in Int /\ -q[1] \in Int
  BY <1>1, <1>2
<1>4. <<-q[1], q[2]>> \in Fractions
  <2> DEFINE u == -x
             v == -q[1]
  <2>1. u \in Int /\ v \in Int /\ u * v + y * q[2] = 1
    BY <1>3
  <2> HIDE DEF u, v
  <2>2. <<v, q[2]>> \in Fractions
    BY <1>1, <2>1, LowestTerms
  <2> QED
    BY <2>2 DEF v
<1>5. (-q[1]) * d = (-n) * q[2] /\ -n \in Int
  BY <1>1
<1> QED
  BY <1>1, <1>4, <1>5 DEF Is

\* Those of a difference are subtracted.
LEMMA DifferenceIs ==
  ASSUME NEW p, NEW m, NEW q, NEW n, NEW d, Is(p, m, d), Is(q, n, d)
  PROVE  Is(p \ominus q, m - n, d)
<1>1. Is(p \oplus <<-q[1], q[2]>>, m + (-n), d)
  BY MinusIs, SumIs
<1>2. m + (-n) = m - n
  BY DEF Is
<1> QED
  BY <1>1, <1>2 DEF \ominus

\* The order, the equality and the signs of fractions are those of their numerators.
LEMMA OrderIs ==
  ASSUME NEW p, NEW m, NEW q, NEW n, NEW d, Is(p, m, d), Is(q, n, d)
  PROVE  /\ p \preceq q <=> m <= n
         /\ p \prec q <=> m < n
         /\ p = q <=> m = n
<1>1. /\ p[1] \in Int /\ p[2] \in Nat \ {0} /\ q[1] \in Int /\ q[2] \in Nat \ {0}
      /\ p = <<p[1], p[2]>> /\ q = <<q[1], q[2]>>
      /\ m \in Int /\ n \in Int /\ d \in Nat \ {0} /\ p[1] * d = m * p[2] /\ q[1] * d = n * q[2]
  BY FractionParts DEF Is
<1> DEFINE l == p[1] * q[2]
           r == q[1] * p[2]
           e == p[2] * q[2]
<1>2. l \in Int /\ r \in Int /\ e \in Nat \ {0}
  BY <1>1
<1>3. l * d = m * e /\ r * d = n * e
  <2>1. l * d = (p[1] * d) * q[2] /\ r * d = (q[1] * d) * p[2]
    BY <1>1
  <2>2. m * e = (m * p[2]) * q[2] /\ n * e = (n * q[2]) * p[2]
    BY <1>1
  <2> QED
    BY <1>1, <2>1, <2>2
<1>4. (r - l) * d = (n - m) * e
  <2>1. (r - l) * d = r * d - l * d /\ (n - m) * e = n * e - m * e
    BY <1>1, <1>2
  <2> QED
    BY <1>3, <2>1
<1> HIDE DEF l, r, e
<1>5. /\ r - l > 0 <=> n - m > 0
      /\ r - l < 0 <=> n - m < 0
  <2> DEFINE u == r - l
             v == n - m
  <2>1. u \in Int /\ v \in Int /\ u * d = v * e
    BY <1>1, <1>2, <1>4
  <2> HIDE DEF u, v
  <2>2. ASSUME NEW i \in Int, NEW j \in Int, NEW s \in Nat \ {0}, NEW t \in Nat \ {0}, i * s = j * t
        PROVE  (i > 0 => j > 0) /\ (i < 0 => j < 0) /\ (i = 0 => j = 0)
    <3>1. ASSUME NEW w \in Int, NEW z \in Nat \ {0}
          PROVE  (w * z > 0 <=> w > 0) /\ (w * z < 0 <=> w < 0)
      OBVIOUS
    <3> QED
      BY <2>2, <3>1
  <2>3. (u > 0 => v > 0) /\ (u < 0 => v < 0) /\ (v > 0 => u > 0) /\ (v < 0 => u < 0)
    BY <1>1, <1>2, <2>1, <2>2
  <2> QED
    BY <2>3 DEF u, v
<1>6. p \preceq q <=> l <= r
  BY DEF \preceq, l, r
<1>7. p \prec q <=> l < r
  BY DEF \prec, l, r
<1>8. m = n => p = q
  <2> SUFFICES ASSUME m = n PROVE p = q
    OBVIOUS
  <2>1. l = r
    <3>1. ~(n - m > 0) /\ ~(n - m < 0)
      BY <1>1
    <3>2. ~(r - l > 0) /\ ~(r - l < 0)
      BY <1>5, <3>1
    <3> QED
      BY <1>2, <3>2
  <2>2. PICK x \in Int, y \in Int : x * p[1] + y * p[2] = 1
    BY FractionParts DEF Is
  <2>3. PICK s \in Int, t \in Int : s * q[1] + t * q[2] = 1
    BY FractionParts DEF Is
  <2>4. p[1] * q[2] = q[1] * p[2]
    BY <2>1 DEF l, r
  <2>5. q[2] = (x * q[1] + y * q[2]) * p[2]
    <3>1. q[2] = (x * p[1] + y * p[2]) * q[2]
      BY <1>1, <2>2
    <3>2. (x * p[1] + y * p[2]) * q[2] = x * (p[1] * q[2]) + (y * q[2]) * p[2]
      BY <1>1
    <3>3. x * (q[1] * p[2]) + (y * q[2]) * p[2] = (x * q[1] + y * q[2]) * p[2]
      BY <1>1
    <3> QED
      BY <2>4, <3>1, <3>2, <3>3
  <2>6. p[2] = (s * p[1] + t * p[2]) * q[2]
    <3>1. p[2] = (s * q[1] + t * q[2]) * p[2]
      BY <1>1, <2>3
    <3>2. (s * q[1] + t * q[2]) * p[2] = s * (q[1] * p[2]) + (t * p[2]) * q[2]
      BY <1>1
    <3>3. s * (p[1] * q[2]) + (t * p[2]) * q[2] = (s * p[1] + t * p[2]) * q[2]
      BY <1>1
    <3> QED
      BY <2>4, <3>1, <3>2, <3>3
  <2>7. ASSUME NEW i \in Nat \ {0}, NEW j \in Nat \ {0}, NEW k \in Int, i = k * j PROVE i >= j
    <3>1. k > 0
      BY <2>7
    <3>2. i = j + (k - 1) * j /\ (k - 1) * j \in Int
      BY <2>7
    <3>3. (k - 1) * j >= 0
      BY <3>1
    <3> QED
      BY <3>2, <3>3
  <2>8. p[2] = q[2]
    <3>1. x * q[1] + y * q[2] \in Int /\ s * p[1] + t * p[2] \in Int
      BY <1>1
    <3>2. q[2] >= p[2] /\ p[2] >= q[2]
      BY <1>1, <2>5, <2>6, <2>7, <3>1
    <3> QED
      BY <1>1, <3>2
  <2>9. p[1] = q[1]
    <3>1. ASSUME NEW i \in Int, NEW j \in Int, NEW k \in Nat \ {0}, i * k = j * k PROVE i = j
      BY <3>1
    <3>2. p[1] * q[2] = q[1] * q[2]
      BY <2>4, <2>8
    <3> QED
      BY <1>1, <3>1, <3>2
  <2> QED
    BY <1>1, <2>8, <2>9
<1>9. p = q => m = n
  <2>1. p = q => l = r
    BY DEF l, r
  <2>2. l = r => ~(n - m > 0) /\ ~(n - m < 0)
    BY <1>2, <1>5
  <2>3. ~(n - m > 0) /\ ~(n - m < 0) => m = n
    <3>1. m \in Int /\ n \in Int
      BY <1>1
    <3> QED
      BY <3>1
  <2> QED
    BY <2>1, <2>2, <2>3
<1>10. l < r <=> r - l > 0
  BY <1>2
<1>11. m < n <=> n - m > 0
  BY <1>1
<1>12. l <= r <=> ~(r - l < 0)
  BY <1>2
<1>13. m <= n <=> ~(n - m < 0)
  BY <1>1
<1> QED
  BY <1>5, <1>6, <1>7, <1>8, <1>9, <1>10, <1>11, <1>12, <1>13

\* A fraction is negative, positive or zero with its numerator.
LEMMA SignIs ==
  ASSUME NEW q, NEW n, NEW d, Is(q, n, d)
  PROVE  (Negative(q) <=> n < 0) /\ (Positive(q) <=> n > 0) /\ (q = Zero <=> n = 0)
<1>1. /\ q[1] \in Int /\ q[2] \in Nat \ {0} /\ n \in Int /\ d \in Nat \ {0} /\ q[1] * d = n * q[2]
  BY FractionParts DEF Is
<1>2. ASSUME NEW w \in Int, NEW z \in Nat \ {0}
      PROVE  (w * z > 0 <=> w > 0) /\ (w * z < 0 <=> w < 0)
  OBVIOUS
<1>3. (q[1] < 0 <=> n < 0) /\ (q[1] > 0 <=> n > 0)
  BY <1>1, <1>2
<1>4. Is(Zero, 0, d)
  <2>1. 0 * 0 + 1 * 1 = 1
    OBVIOUS
  <2>2. <<0, 1>> \in Fractions
    BY <2>1, LowestTerms
  <2> QED
    BY <1>1, <2>2 DEF Is, Zero, Whole
<1>5. q = Zero <=> n = 0
  BY <1>4, OrderIs
<1> QED
  BY <1>1, <1>3, <1>5 DEF Negative, Positive

\* Zero over any denominator.
LEMMA ZeroIs ==
  ASSUME NEW d \in Nat \ {0}
  PROVE  Is(Zero, 0, d)
<1>1. 0 * 0 + 1 * 1 = 1
  OBVIOUS
<1>2. <<0, 1>> \in Fractions
  BY <1>1, LowestTerms
<1> QED
  BY <1>2 DEF Is, Zero, Whole

\* The magnitude of a fraction.
LEMMA AbsIs ==
  ASSUME NEW q, NEW n, NEW d, Is(q, n, d)
  PROVE  Is(Abs(q), Magnitude(n), d)
<1>1. n \in Int /\ d \in Nat \ {0}
  BY DEF Is
<1>2. CASE n < 0
  <2>1. Is(Neg(q), 0 - n, d)
    BY <1>1, ZeroIs, DifferenceIs DEF Neg
  <2>2. 0 - n = -n
    BY <1>1
  <2> QED
    BY <1>2, <2>1, <2>2, SignIs DEF Abs, Magnitude
<1>3. CASE ~(n < 0)
  BY <1>3, SignIs DEF Abs, Magnitude
<1> QED
  BY <1>2, <1>3

\* A product multiplies the numerators and the denominators.
LEMMA ProductIs ==
  ASSUME NEW p, NEW m, NEW d, NEW q, NEW n, NEW e, Is(p, m, d), Is(q, n, e)
  PROVE  Is(p \otimes q, m * n, d * e)
<1>1. /\ p[1] \in Int /\ p[2] \in Nat \ {0} /\ q[1] \in Int /\ q[2] \in Nat \ {0}
      /\ m \in Int /\ n \in Int /\ d \in Nat \ {0} /\ p[1] * d = m * p[2] 
      /\ e \in Nat \ {0} /\ q[1] * e = n * q[2]
  BY FractionParts DEF Is
<1> DEFINE k == p[1] * q[1]
           c == p[2] * q[2]
<1>2. k \in Int /\ c \in Int /\ c # 0 /\ m * n \in Int /\ d * e \in Nat \ {0}
  BY <1>1
<1>3. p \otimes q = Fraction(k, c)
  BY <1>1 DEF \otimes, IsExact
<1>4. k * (d * e) = (m * n) * c
  <2>1. k * (d * e) = (p[1] * d) * (q[1] * e)
    BY <1>1
  <2>2. (m * n) * c = (m * p[2]) * (n * q[2])
    BY <1>1
  <2> QED
    BY <1>1, <2>1, <2>2
<1> HIDE DEF k, c
<1>5. Fraction(k, c) \in Fractions /\ Fraction(k, c)[1] * c = k * Fraction(k, c)[2]
  BY <1>2, FractionReduces
<1> QED
  BY <1>2, <1>3, <1>4, <1>5, IsOver

\* A quotient of fractions with a common denominator is that of their numerators.
LEMMA QuotientIs ==
  ASSUME NEW p, NEW m, NEW q, NEW n, NEW d, Is(p, m, d), Is(q, n, d), n # 0
  PROVE  p \oslash q \in Fractions /\ (n > 0 => Is(p \oslash q, m, n))
<1>1. /\ p[1] \in Int /\ p[2] \in Nat \ {0} /\ q[1] \in Int /\ q[2] \in Nat \ {0}
      /\ m \in Int /\ n \in Int /\ d \in Nat \ {0} /\ p[1] * d = m * p[2] /\ q[1] * d = n * q[2]
  BY FractionParts DEF Is
<1> DEFINE k == p[1] * q[2]
           c == p[2] * q[1]
<1>2. k \in Int /\ c \in Int /\ c # 0
  BY <1>1
<1>3. p \oslash q = Fraction(k, c)
  <2>1. q # Zero
    BY SignIs
  <2> QED
    BY <1>1, <2>1 DEF \oslash, IsExact
<1>4. k * n = m * c
  <2>1. (k * n) * d = (m * c) * d
    <3>1. (k * n) * d = (p[1] * d) * (n * q[2])
      BY <1>1
    <3>2. (m * c) * d = (m * p[2]) * (q[1] * d)
      BY <1>1
    <3> QED
      BY <1>1, <3>1, <3>2
  <2> DEFINE u == k * n
             v == m * c
  <2>2. u \in Int /\ v \in Int /\ u * d = v * d
    BY <1>1, <2>1
  <2> HIDE DEF u, v
  <2>3. u = v
    BY <1>1, <2>2
  <2> QED
    BY <2>3 DEF u, v
<1> HIDE DEF k, c
<1>5. Fraction(k, c) \in Fractions /\ Fraction(k, c)[1] * c = k * Fraction(k, c)[2]
  BY <1>2, FractionReduces
<1>6. n > 0 => Is(p \oslash q, m, n)
  BY <1>1, <1>2, <1>3, <1>4, <1>5, IsOver
<1> QED
  BY <1>3, <1>5, <1>6

\* The half of a fraction has twice its denominator.
LEMMA HalfIs ==
  ASSUME NEW q, NEW n, NEW d, Is(q, n, d)
  PROVE  Is(q \oslash Two, n, 2 * d)
<1>1. n \in Int /\ d \in Nat \ {0}
  BY DEF Is
<1>2. Is(Two, 2 * d, d)
  <2>1. 0 * 2 + 1 * 1 = 1
    OBVIOUS
  <2>2. <<2, 1>> \in Fractions
    BY <2>1, LowestTerms
  <2> QED
    BY <1>1, <2>2 DEF Is, Two, Whole
<1>3. 2 * d # 0 /\ 2 * d > 0
  BY <1>1
<1> QED
  BY <1>2, <1>3, QuotientIs

-----------------------------------------------------------------------------
(* Polynomials by the rule of Horner *)

\* Sums, differences and products of fractions are fractions.
LEMMA FractionsAreClosed ==
  ASSUME NEW p \in Fractions, NEW q \in Fractions
  PROVE  /\ p \oplus q \in Fractions
         /\ p \ominus q \in Fractions
         /\ p \otimes q \in Fractions
<1>1. PICK m, n, d : Is(p, m, d) /\ Is(q, n, d)
  BY IsItself, CommonDenominator
<1>2. Is(p \oplus q, m + n, d) /\ Is(p \ominus q, m - n, d) /\ Is(p \otimes q, m * n, d * d)
  BY <1>1, SumIs, DifferenceIs, ProductIs
<1> QED
  BY <1>2 DEF Is

\* A whole number over any denominator.
LEMMA WholeIs ==
  ASSUME NEW n \in Int, NEW d \in Nat \ {0}
  PROVE  Is(Whole(n), n * d, d)
<1>1. 0 * n + 1 * 1 = 1
  OBVIOUS
<1>2. <<n, 1>> \in Fractions
  BY <1>1, LowestTerms
<1> QED
  BY <1>2 DEF Is, Whole

\* The equation of the recursion in Evaluate.
HornerBody(f, x, h) ==
  [i \in 1..(Len(f) + 1) |-> IF i > Len(f) THEN Zero ELSE (h[i + 1] \otimes x) \oplus f[i]]

\* A polynomial with coefficients that are fractions has fractions as values.
LEMMA HornerIsTyped ==
  ASSUME NEW f \in Seq(Fractions), NEW x \in Fractions
  PROVE  (CHOOSE h : h = HornerBody(f, x, h))[1] \in Fractions
<1> DEFINE n == Len(f)
           value == CHOOSE h : h = HornerBody(f, x, h)
           Partial(g, k) == /\ g[n + 1] = Zero
                            /\ \A i \in (n + 1 - k)..n : g[i] = (g[i + 1] \otimes x) \oplus f[i]
           T == {k \in Nat : k <= n => \E g : g \in [(n + 1 - k)..(n + 1) -> Fractions] /\ Partial(g, k)}
<1>1. n \in Nat /\ (\A i \in 1..n : f[i] \in Fractions) /\ Zero \in Fractions
  BY ZeroIs DEF Is
<1>2. 0 \in T
  <2> DEFINE g == [i \in (n + 1 - 0)..(n + 1) |-> Zero]
  <2>1. g \in [(n + 1 - 0)..(n + 1) -> Fractions] /\ Partial(g, 0)
    BY <1>1
  <2> QED
    BY <2>1
<1>3. ASSUME NEW k \in Nat, k \in T PROVE k + 1 \in T
  <2> SUFFICES ASSUME k + 1 <= n
               PROVE  \E g : g \in [(n + 1 - (k + 1))..(n + 1) -> Fractions] /\ Partial(g, k + 1)
    OBVIOUS
  <2>1. PICK h : h \in [(n + 1 - k)..(n + 1) -> Fractions] /\ Partial(h, k)
    BY <1>1, <1>3
  <2> DEFINE j == n + 1 - (k + 1)
             g == [i \in j..(n + 1) |-> IF i = j THEN (h[j + 1] \otimes x) \oplus f[j] ELSE h[i]]
  <2>2. j \in 1..n /\ j + 1 = n + 1 - k /\ n + 1 - (k + 1) = j /\ j + 1 \in (n + 1 - k)..(n + 1)
    BY <1>1
  <2> HIDE DEF j
  <2>3. (h[j + 1] \otimes x) \oplus f[j] \in Fractions
    BY <1>1, <2>1, <2>2, FractionsAreClosed
  <2>4. g \in [j..(n + 1) -> Fractions]
    <3> SUFFICES ASSUME NEW i \in j..(n + 1) PROVE (IF i = j THEN (h[j + 1] \otimes x) \oplus f[j] ELSE h[i]) \in Fractions
      OBVIOUS
    <3>1. i # j => i \in (n + 1 - k)..(n + 1)
      BY <1>1, <2>2
    <3> QED
      BY <2>1, <2>3, <3>1
  <2>5. g[n + 1] = Zero
    BY <1>1, <2>1, <2>2
  <2>6. ASSUME NEW i \in j..n PROVE g[i] = (g[i + 1] \otimes x) \oplus f[i]
    <3>1. i \in j..(n + 1) /\ i + 1 \in j..(n + 1) /\ i + 1 # j
      BY <1>1, <2>2
    <3>2. g[i + 1] = h[i + 1]
      BY <3>1
    <3>3. CASE i = j
      BY <3>1, <3>2, <3>3
    <3>4. CASE i # j
      <4>1. i \in (n + 1 - k)..n
        BY <1>1, <2>2, <3>4
      <4>2. h[i] = (h[i + 1] \otimes x) \oplus f[i]
        BY <2>1, <4>1
      <4> QED
        BY <3>1, <3>2, <3>4, <4>2
    <3> QED
      BY <3>3, <3>4
  <2> HIDE DEF g
  <2> QED
    BY <2>2, <2>4, <2>5, <2>6
<1> HIDE DEF T
<1>4. n \in T
  BY <1>1, <1>2, <1>3, SetInduction
<1>5. PICK g : g \in [1..(n + 1) -> Fractions] /\ Partial(g, n)
  <2>1. n + 1 - n = 1
    BY <1>1
  <2> QED
    BY <1>1, <1>4, <2>1 DEF T
<1>6. g = HornerBody(f, x, g)
  <2>1. ASSUME NEW i \in 1..(n + 1)
        PROVE  g[i] = IF i > n THEN Zero ELSE (g[i + 1] \otimes x) \oplus f[i]
    <3>1. CASE i > n
      <4>1. i = n + 1
        BY <1>1, <3>1
      <4> QED
        BY <1>5, <3>1, <4>1
    <3>2. CASE ~(i > n)
      <4>1. i \in (n + 1 - n)..n
        BY <1>1, <3>2
      <4> QED
        BY <1>5, <3>2, <4>1
    <3> QED
      BY <3>1, <3>2
  <2> QED
    BY <1>5, <2>1 DEF HornerBody
<1>7. value = HornerBody(f, x, value)
  BY <1>6
<1> HIDE DEF value
<1> DEFINE U == {k \in Nat : k <= n => value[n + 1 - k] \in Fractions}
<1>9. 0 \in U
  <2>1. n + 1 \in 1..(n + 1) /\ n + 1 > n /\ n + 1 - 0 = n + 1
    BY <1>1
  <2> QED
    BY <1>1, <1>7, <2>1 DEF HornerBody
<1>10. ASSUME NEW k \in Nat, k \in U PROVE k + 1 \in U
  <2> SUFFICES ASSUME k + 1 <= n PROVE value[n + 1 - (k + 1)] \in Fractions
    OBVIOUS
  <2> DEFINE j == n + 1 - (k + 1)
  <2>1. j \in 1..(n + 1) /\ ~(j > n) /\ j \in 1..n /\ j + 1 = n + 1 - k
    BY <1>1
  <2> HIDE DEF j
  <2>2. value[j] = (value[j + 1] \otimes x) \oplus f[j]
    BY <1>7, <2>1 DEF HornerBody
  <2>3. value[j + 1] \in Fractions
    BY <1>1, <1>10, <2>1
  <2>4. value[j] \in Fractions
    BY <1>1, <2>1, <2>2, <2>3, FractionsAreClosed
  <2> QED
    BY <2>4 DEF j
<1> HIDE DEF U
<1>11. n \in U
  BY <1>1, <1>9, <1>10, SetInduction
<1>12. n + 1 - n = 1
  BY <1>1
<1>13. value[1] \in Fractions
  BY <1>1, <1>11, <1>12 DEF U
<1> QED
  BY <1>13 DEF value

\* The polynomial of an expression is a fraction at every fraction.
LEMMA EvaluateIsTyped ==
  ASSUME NEW e, e.polynomial \in Seq(Fractions), NEW x \in Fractions
  PROVE  Evaluate(e, x) \in Fractions
<1> DEFINE f == e.polynomial
<1>1. (CHOOSE h : h = HornerBody(f, x, h))[1] \in Fractions
  BY HornerIsTyped
<1>2. Evaluate(e, x) = (CHOOSE h : h = HornerBody(f, x, h))[1]
  BY DEF Evaluate, HornerBody
<1> QED
  BY <1>1, <1>2

-----------------------------------------------------------------------------
(* The order and the signs *)

\* The order of fractions is total.
LEMMA OrderIsTotal ==
  ASSUME NEW p \in Fractions, NEW q \in Fractions
  PROVE  /\ p \preceq p
         /\ p \preceq q <=> ~(q \prec p)
         /\ p \preceq q <=> (p \prec q \/ p = q)
         /\ p \prec q => p # q
<1>1. PICK m, n, d : Is(p, m, d) /\ Is(q, n, d)
  BY IsItself, CommonDenominator
<1>2. m \in Int /\ n \in Int
  BY <1>1 DEF Is
<1>3. p \preceq q <=> m <= n
  BY <1>1, OrderIs
<1>4. q \prec p <=> n < m
  BY <1>1, OrderIs
<1>5. p \prec q <=> m < n
  BY <1>1, OrderIs
<1>6. p = q <=> m = n
  BY <1>1, OrderIs
<1>7. p \preceq p <=> m <= m
  BY <1>1, OrderIs
<1>8. (m <= n <=> ~(n < m)) /\ (m <= n <=> (m < n \/ m = n)) /\ (m < n => m # n) /\ m <= m
  BY <1>2
<1> QED
  BY <1>3, <1>4, <1>5, <1>6, <1>7, <1>8

\* Three fractions over one denominator.
LEMMA ThreeCommon ==
  ASSUME NEW p \in Fractions, NEW q \in Fractions, NEW r \in Fractions
  PROVE  \E k, m, n, d : Is(p, k, d) /\ Is(q, m, d) /\ Is(r, n, d)
<1>1. PICK k, m, d : Is(p, k, d) /\ Is(q, m, d)
  BY IsItself, CommonDenominator
<1>2. r[2] \in Nat \ {0} /\ r[1] \in Int /\ d \in Nat \ {0} /\ Is(r, r[1], r[2])
  BY <1>1, FractionParts, IsItself DEF Is
<1>3. Is(p, r[2] * k, r[2] * d) /\ Is(q, r[2] * m, r[2] * d)
  BY <1>1, <1>2, IsScaled
<1>4. Is(r, d * r[1], d * r[2])
  BY <1>2, IsScaled
<1>5. d * r[2] = r[2] * d
  BY <1>2
<1> QED
  BY <1>3, <1>4, <1>5

\* The order of fractions is transitive.
LEMMA OrderIsTransitive ==
  ASSUME NEW p \in Fractions, NEW q \in Fractions, NEW r \in Fractions
  PROVE  /\ p \preceq q /\ q \preceq r => p \preceq r
         /\ p \prec q /\ q \prec r => p \prec r
<1>1. PICK k, m, n, d : Is(p, k, d) /\ Is(q, m, d) /\ Is(r, n, d)
  BY ThreeCommon
<1>2. k \in Int /\ m \in Int /\ n \in Int
  BY <1>1 DEF Is
<1>3. (p \preceq q <=> k <= m) /\ (p \prec q <=> k < m)
  BY <1>1, OrderIs
<1>4. (q \preceq r <=> m <= n) /\ (q \prec r <=> m < n)
  BY <1>1, OrderIs
<1>5. (p \preceq r <=> k <= n) /\ (p \prec r <=> k < n)
  BY <1>1, OrderIs
<1>6. (k <= m /\ m <= n => k <= n) /\ (k < m /\ m < n => k < n)
  BY <1>2
<1> QED
  BY <1>3, <1>4, <1>5, <1>6

\* A product has the sign of its factors.
LEMMA SignOfProduct ==
  ASSUME NEW p \in Fractions, NEW q \in Fractions
  PROVE  /\ p = Zero \/ Positive(p) \/ Negative(p)
         /\ ~(Positive(p) /\ Negative(p))
         /\ ~Positive(Zero) /\ ~Negative(Zero)
         /\ Positive(p \otimes q) <=> (Positive(p) /\ Positive(q)) \/ (Negative(p) /\ Negative(q))
         /\ OppositeSigns(p, q) <=> (Positive(p) /\ Negative(q)) \/ (Negative(p) /\ Positive(q))
<1>1. PICK m, n, d : Is(p, m, d) /\ Is(q, n, d)
  BY IsItself, CommonDenominator
<1>2. m \in Int /\ n \in Int /\ d \in Nat \ {0}
  BY <1>1 DEF Is
<1>3. Is(p \otimes q, m * n, d * d)
  BY <1>1, ProductIs
<1>4. (Negative(p) <=> m < 0) /\ (Positive(p) <=> m > 0) /\ (p = Zero <=> m = 0)
  BY <1>1, SignIs
<1>5. (Negative(q) <=> n < 0) /\ (Positive(q) <=> n > 0)
  BY <1>1, SignIs
<1>6. (Negative(p \otimes q) <=> m * n < 0) /\ (Positive(p \otimes q) <=> m * n > 0)
  BY <1>3, SignIs
<1>7. (m * n > 0 <=> (m > 0 /\ n > 0) \/ (m < 0 /\ n < 0))
  BY <1>2
<1>8. (m * n < 0 <=> (m > 0 /\ n < 0) \/ (m < 0 /\ n > 0))
  BY <1>2
<1>9. (m = 0 \/ m > 0 \/ m < 0) /\ ~(m > 0 /\ m < 0)
  BY <1>2
<1>10. ~Positive(Zero) /\ ~Negative(Zero)
  <2>1. Is(Zero, 0, d)
    BY <1>2, ZeroIs
  <2> QED
    BY <2>1, SignIs
<1> QED
  BY <1>4, <1>5, <1>6, <1>7, <1>8, <1>9, <1>10 DEF OppositeSigns

\* What is not within a positive tolerance of zero is not zero.
LEMMA BeyondTolerance ==
  ASSUME NEW q \in Fractions, NEW tolerance \in Fractions, Positive(tolerance),
         ~(Abs(q) \preceq tolerance)
  PROVE  q # Zero
<1>1. PICK n, t, d : Is(q, n, d) /\ Is(tolerance, t, d)
  BY IsItself, CommonDenominator
<1>2. n \in Int /\ t \in Int
  BY <1>1 DEF Is
<1>3. t > 0
  BY <1>1, SignIs
<1>4. Is(Abs(q), Magnitude(n), d)
  BY <1>1, AbsIs
<1>5. Magnitude(n) <= t <=> Abs(q) \preceq tolerance
  BY <1>1, <1>4, OrderIs
<1>6. n # 0
  BY <1>2, <1>3, <1>5 DEF Magnitude
<1> QED
  BY <1>1, <1>6, SignIs

\* The middle of a bracket, in the two ways it is computed, lies strictly inside it.
LEMMA MiddleIsInside ==
  ASSUME NEW p \in Fractions, NEW q \in Fractions, p \prec q
  PROVE  /\ p \oplus ((q \ominus p) \oslash Two) = (p \oplus q) \oslash Two
         /\ (p \oplus q) \oslash Two \in Fractions
         /\ p \prec (p \oplus q) \oslash Two
         /\ (p \oplus q) \oslash Two \prec q
<1>1. PICK m, n, d : Is(p, m, d) /\ Is(q, n, d)
  BY IsItself, CommonDenominator
<1>2. m \in Int /\ n \in Int /\ d \in Nat \ {0}
  BY <1>1 DEF Is
<1>3. m < n
  BY <1>1, OrderIs
<1>4. Is((p \oplus q) \oslash Two, m + n, 2 * d)
  BY <1>1, SumIs, HalfIs
<1>5. Is((q \ominus p) \oslash Two, n - m, 2 * d)
  BY <1>1, DifferenceIs, HalfIs
<1>6. Is(p, 2 * m, 2 * d) /\ Is(q, 2 * n, 2 * d)
  <2>1. 2 \in Nat \ {0}
    OBVIOUS
  <2> QED
    BY <1>1, <2>1, IsScaled
<1>7. Is(p \oplus ((q \ominus p) \oslash Two), 2 * m + (n - m), 2 * d)
  BY <1>5, <1>6, SumIs
<1>8. 2 * m + (n - m) = m + n /\ 2 * m < m + n /\ m + n < 2 * n
  BY <1>2, <1>3
<1>9. p \oplus ((q \ominus p) \oslash Two) = (p \oplus q) \oslash Two
  BY <1>4, <1>7, <1>8, OrderIs
<1>10. p \prec (p \oplus q) \oslash Two /\ (p \oplus q) \oslash Two \prec q
  BY <1>4, <1>6, <1>8, OrderIs
<1> QED
  BY <1>4, <1>9, <1>10 DEF Is

\* A hundredth of the tolerance keeps the secant away from the ends.
LEMMA MarginKeepsAway ==
  ASSUME NEW p \in Fractions, NEW tolerance \in Fractions, Positive(tolerance)
  PROVE  LET margin == tolerance \oslash Whole(100) IN
         /\ margin \in Fractions /\ p \oplus margin \in Fractions /\ p \ominus margin \in Fractions
         /\ p \prec p \oplus margin
         /\ p \ominus margin \prec p
<1> DEFINE margin == tolerance \oslash Whole(100)
<1>1. PICK t, d : Is(tolerance, t, d)
  BY IsItself
<1>2. t \in Int /\ d \in Nat \ {0}
  BY <1>1 DEF Is
<1>3. t > 0
  BY <1>1, SignIs
<1>4. Is(Whole(100), 100 * d, d) /\ 100 * d # 0 /\ 100 * d > 0
  BY <1>2, WholeIs
<1>5. Is(margin, t, 100 * d)
  BY <1>1, <1>4, QuotientIs
<1> HIDE DEF margin
<1>6. margin \in Fractions /\ Positive(margin)
  <2>1. margin \in Fractions
    BY <1>5 DEF Is
  <2>2. Positive(margin)
    BY <1>3, <1>5, SignIs
  <2> QED
    BY <2>1, <2>2
<1>7. PICK m, s, e : Is(p, m, e) /\ Is(margin, s, e)
  BY <1>6, IsItself, CommonDenominator
<1>8. m \in Int /\ s \in Int
  BY <1>7 DEF Is
<1>9. s > 0
  BY <1>6, <1>7, SignIs
<1>10. Is(p \oplus margin, m + s, e) /\ Is(p \ominus margin, m - s, e)
  BY <1>7, SumIs, DifferenceIs
<1>11. m < m + s /\ m - s < m
  BY <1>8, <1>9
<1>12. p \prec p \oplus margin /\ p \ominus margin \prec p
  BY <1>7, <1>10, <1>11, OrderIs
<1> QED
  BY <1>6, <1>10, <1>12 DEF margin, Is

-----------------------------------------------------------------------------
(* Recursion along an interval *)

\* What holds of zero and of each number up to n whose predecessor it holds of, holds of all.
LEMMA InductionAlong ==
  ASSUME NEW n \in Nat, NEW T, 0 \in T, \A i \in 1..n : i - 1 \in T => i \in T
  PROVE  \A i \in 0..n : i \in T
<1> DEFINE U == {i \in Nat : i <= n => i \in T}
<1>1. 0 \in U
  OBVIOUS
<1>2. ASSUME NEW i \in Nat, i \in U PROVE i + 1 \in U
  <2> SUFFICES ASSUME i + 1 <= n PROVE i + 1 \in T
    OBVIOUS
  <2> DEFINE j == i + 1
  <2>1. j \in 1..n /\ j - 1 = i /\ i \in T
    BY <1>2
  <2>2. j - 1 \in T => j \in T
    BY <2>1
  <2> QED
    BY <2>1, <2>2
<1> HIDE DEF U
<1>3. \A i \in Nat : i \in U
  BY <1>1, <1>2, SetInduction
<1> QED
  BY <1>3 DEF U

\* A function that begins with a value and goes from each value to the next by a step.
Recursion(n, base, step, f) == f[0] = base /\ \A i \in 1..n : f[i] = step[i][f[i - 1]]

\* There is a function with a first value and a step from each value to the next.
LEMMA RecursionExists ==
  ASSUME NEW n \in Nat, NEW S, NEW base \in S, NEW step \in [1..n -> [S -> S]]
  PROVE  \E f \in [0..n -> S] : Recursion(n, base, step, f)
<1> DEFINE Partial(g, k) == g \in [0..k -> S] /\ \A i \in 0..k : g[i] = IF i = 0 THEN base ELSE step[i][g[i - 1]]
           T == {k \in Nat : k <= n => \E g : Partial(g, k)}
<1>1. 0 \in T
  <2> DEFINE g == [i \in 0..0 |-> base]
  <2>1. Partial(g, 0)
    OBVIOUS
  <2> QED
    BY <2>1
<1>2. ASSUME NEW k \in Nat, k \in T PROVE k + 1 \in T
  <2> SUFFICES ASSUME k + 1 <= n PROVE \E g : Partial(g, k + 1)
    OBVIOUS
  <2>1. PICK h : Partial(h, k)
    BY <1>2
  <2> DEFINE j == k + 1
             new == step[j][h[k]]
             g == [i \in 0..j |-> IF i = j THEN new ELSE h[i]]
  <2>2. j \in 1..n /\ j \in Nat /\ j - 1 = k /\ j # 0 /\ (\A i \in 0..j : i = j \/ i \in 0..k)
    OBVIOUS
  <2>3. h[k] \in S
    BY <2>1
  <2>4. new \in S
    BY <2>2, <2>3
  <2> HIDE DEF new
  <2>5. g \in [0..j -> S]
    BY <2>1, <2>2, <2>4
  <2>6. g[j] = new /\ \A i \in 0..k : g[i] = h[i]
    BY <2>2
  <2>7. ASSUME NEW i \in 0..j PROVE g[i] = IF i = 0 THEN base ELSE step[i][g[i - 1]]
    <3>1. CASE i = j
      <4>1. g[j - 1] = h[k]
        BY <2>2, <2>6
      <4> QED
        BY <2>2, <2>6, <3>1, <4>1 DEF new
    <3>2. CASE i \in 0..k
      <4>1. i # 0 => i - 1 \in 0..k
        BY <3>2
      <4> QED
        BY <2>1, <2>6, <3>2, <4>1
    <3> QED
      BY <2>2, <3>1, <3>2
  <2> HIDE DEF g, j
  <2>8. Partial(g, j)
    BY <2>5, <2>7
  <2> QED
    BY <2>8 DEF j
<1> HIDE DEF T
<1>3. n \in T
  BY <1>1, <1>2, SetInduction
<1>4. PICK f : Partial(f, n)
  BY <1>3 DEF T
<1>5. f[0] = base
  BY <1>4
<1>6. ASSUME NEW i \in 1..n PROVE f[i] = step[i][f[i - 1]]
  BY <1>4
<1> QED
  BY <1>4, <1>5, <1>6 DEF Recursion

-----------------------------------------------------------------------------
(* Numbers that are computed *)

\* What a computation on numbers gives, unless it raises: a fraction, perhaps not in lowest
\* terms (a root), or a number that is none.
Quantities == {q \in Int \X (Nat \ {0}) : q[1] = 0 => q[2] = 1} \cup {Inexact}

NotNegative == {q \in Fractions : ~Negative(q)}

\* The parts of a quantity.
LEMMA QuantityParts ==
  ASSUME NEW q \in Quantities
  PROVE  /\ q # Undefined
         /\ q[1] \in Int /\ q[2] \in Nat
         /\ IsExact(q) <=> q[2] # 0
         /\ IsExact(q) => (q = Zero <=> q[1] = 0)
         /\ ~IsExact(q) => q = Inexact
         /\ q = Inexact => q # Zero /\ ~IsExact(q)
<1>1. CASE q = Inexact
  BY <1>1 DEF Inexact, Undefined, IsExact, Zero, Whole
<1>2. CASE q \in Int \X (Nat \ {0}) /\ (q[1] = 0 => q[2] = 1)
  <2>1. q = <<q[1], q[2]>> /\ q[1] \in Int /\ q[2] \in Nat /\ q[2] # 0
    BY <1>2
  <2> QED
    BY <1>2, <2>1 DEF Inexact, Undefined, IsExact, Zero, Whole
<1> QED
  BY <1>1, <1>2 DEF Quantities

\* Fractions are quantities.
LEMMA FractionsAreQuantities == Fractions \subseteq Quantities
<1> SUFFICES ASSUME NEW q \in Fractions PROVE q \in Quantities
  OBVIOUS
<1>1. q[1] \in Int /\ q[2] \in Nat \ {0} /\ q = <<q[1], q[2]>>
  BY FractionParts
<1>2. q[1] = 0 => q = Zero
  BY IsItself, SignIs
<1>3. q[1] = 0 => q[2] = 1
  BY <1>2 DEF Zero, Whole
<1> QED
  BY <1>1, <1>3 DEF Quantities

\* Reducing gives a quantity, and zero only from zero.
LEMMA FractionIsQuantity ==
  ASSUME NEW n \in Int, NEW d \in Int, d # 0
  PROVE  Fraction(n, d) \in Quantities /\ (Fraction(n, d) = Zero => n = 0)
<1>1. Fraction(n, d) \in Fractions /\ Fraction(n, d)[1] * d = n * Fraction(n, d)[2]
  BY FractionReduces
<1>2. Fraction(n, d) = Zero => n = 0
  <2>1. SUFFICES ASSUME Fraction(n, d) = Zero PROVE n = 0
    OBVIOUS
  <2>2. Fraction(n, d)[1] = 0 /\ Fraction(n, d)[2] = 1
    BY <2>1 DEF Zero, Whole
  <2> QED
    BY <1>1, <2>2
<1> QED
  BY <1>1, <1>2, FractionsAreQuantities

\* Numbers, one of them none, are not undefined.
LEMMA TaintedIsInexact ==
  ASSUME NEW p, NEW q, p # Undefined, q # Undefined
  PROVE  Tainted(p, q) = Inexact /\ Inexact \in Quantities
BY DEF Tainted, Quantities

\* The calculations do not leave the quantities, as long as nothing is divided by zero.
LEMMA SumIsQuantity ==
  ASSUME NEW p \in Quantities, NEW q \in Quantities
  PROVE  p \oplus q \in Quantities
<1>1. CASE IsExact(p) /\ IsExact(q)
  <2>1. /\ p[1] * q[2] + q[1] * p[2] \in Int /\ p[2] * q[2] \in Int /\ p[2] * q[2] # 0
    BY <1>1, QuantityParts
  <2> QED
    BY <1>1, <2>1, FractionIsQuantity DEF \oplus
<1>2. CASE ~(IsExact(p) /\ IsExact(q))
  BY <1>2, QuantityParts, TaintedIsInexact DEF \oplus
<1> QED
  BY <1>1, <1>2

\* The difference of two quantities.
LEMMA DifferenceIsQuantity ==
  ASSUME NEW p \in Quantities, NEW q \in Quantities
  PROVE  p \ominus q \in Quantities
<1> DEFINE r == <<-q[1], q[2]>>
<1>1. q[1] \in Int /\ q[2] \in Nat /\ r[1] = -q[1] /\ r[2] = q[2]
  BY QuantityParts
<1>2. p \ominus q = p \oplus r
  BY DEF \ominus
<1>3. CASE IsExact(q)
  <2>1. r \in Quantities
    <3>1. q[1] = 0 => q[2] = 1
      BY <1>3, QuantityParts DEF Zero, Whole
    <3> QED
      BY <1>1, <1>3, <3>1 DEF Quantities, IsExact
  <2> QED
    BY <1>2, <2>1, SumIsQuantity
<1>4. CASE ~IsExact(q)
  <2>1. q = Inexact
    BY <1>4, QuantityParts
  <2>2. ~IsExact(r) /\ r # Undefined
    BY <1>1, <2>1 DEF IsExact, Inexact, Undefined
  <2>3. p # Undefined
    BY QuantityParts
  <2>4. p \oplus r = Tainted(p, r)
    BY <2>2 DEF \oplus
  <2> QED
    BY <1>2, <2>2, <2>3, <2>4, TaintedIsInexact
<1> QED
  BY <1>3, <1>4

\* The product of two quantities, which is zero only if one of them is.
LEMMA ProductIsQuantity ==
  ASSUME NEW p \in Quantities, NEW q \in Quantities
  PROVE  p \otimes q \in Quantities /\ (p # Zero /\ q # Zero => p \otimes q # Zero)
<1>1. CASE IsExact(p) /\ IsExact(q)
  <2>1. p[1] \in Int /\ q[1] \in Int /\ p[2] \in Nat \ {0} /\ q[2] \in Nat \ {0}
    BY <1>1, QuantityParts
  <2>2. p[1] * q[1] \in Int /\ p[2] * q[2] \in Int /\ p[2] * q[2] # 0
    BY <2>1
  <2>3. p \otimes q = Fraction(p[1] * q[1], p[2] * q[2])
    BY <1>1 DEF \otimes
  <2>4. p # Zero /\ q # Zero => p[1] # 0 /\ q[1] # 0
    BY <1>1, QuantityParts
  <2>5. p[1] # 0 /\ q[1] # 0 => p[1] * q[1] # 0
    BY <2>1
  <2> QED
    BY <2>2, <2>3, <2>4, <2>5, FractionIsQuantity
<1>2. CASE ~(IsExact(p) /\ IsExact(q))
  <2>1. p \otimes q = Inexact /\ Inexact \in Quantities
    BY <1>2, QuantityParts, TaintedIsInexact DEF \otimes
  <2> QED
    BY <2>1, QuantityParts
<1> QED
  BY <1>1, <1>2

\* A quotient by a quantity that is not zero.
LEMMA QuotientIsQuantity ==
  ASSUME NEW p \in Quantities, NEW q \in Quantities, q # Zero
  PROVE  p \oslash q \in Quantities
<1>1. CASE IsExact(p) /\ IsExact(q)
  <2>1. p[1] \in Int /\ q[1] \in Int /\ p[2] \in Nat \ {0} /\ q[2] \in Nat \ {0}
    BY <1>1, QuantityParts
  <2>2. q[1] # 0
    BY <1>1, QuantityParts
  <2>3. p[1] * q[2] \in Int /\ p[2] * q[1] \in Int /\ p[2] * q[1] # 0
    BY <2>1, <2>2
  <2>4. p \oslash q = Fraction(p[1] * q[2], p[2] * q[1])
    BY <1>1 DEF \oslash
  <2> QED
    BY <2>3, <2>4, FractionIsQuantity
<1>2. CASE ~(IsExact(p) /\ IsExact(q))
  <2>1. p \oslash q = Tainted(p, q)
    BY <1>2 DEF \oslash
  <2> QED
    BY <2>1, QuantityParts, TaintedIsInexact
<1> QED
  BY <1>1, <1>2

\* The whole numbers, the halves and the numbers that are none are quantities.
LEMMA ConstantsAreQuantities ==
  /\ \A n \in Int : Whole(n) \in Quantities /\ (Whole(n) = Zero <=> n = 0)
  /\ Zero \in Quantities /\ One \in Quantities /\ Two \in Quantities
  /\ One # Zero /\ Two # Zero
  /\ <<1, 2>> \in Quantities /\ <<-1, 2>> \in Quantities /\ Inexact \in Quantities
<1>1. ASSUME NEW n \in Int PROVE <<n, 1>> \in Quantities
  BY DEF Quantities
<1>2. <<1, 2>> \in Quantities /\ <<-1, 2>> \in Quantities /\ Inexact \in Quantities
  BY DEF Quantities
<1> QED
  BY <1>1, <1>2 DEF Whole, Zero, One, Two

\* The negation and the square of a quantity, and the magnitude.
LEMMA UnaryIsQuantity ==
  ASSUME NEW q \in Quantities
  PROVE  /\ Neg(q) \in Quantities /\ Abs(q) \in Quantities
         /\ Square(q) \in Quantities /\ (q # Zero => Square(q) # Zero)
<1>1. Neg(q) \in Quantities
  BY ConstantsAreQuantities, DifferenceIsQuantity DEF Neg
<1>2. Abs(q) \in Quantities
  BY <1>1 DEF Abs
<1> QED
  BY <1>1, <1>2, ProductIsQuantity DEF Square

\* The square root of a quantity that is not negative, which is zero only for zero.
LEMMA RootIsQuantity ==
  ASSUME NEW q \in Quantities, ~Negative(q)
  PROVE  Sqrt(q) \in Quantities /\ (q # Zero => Sqrt(q) # Zero)
<1> DEFINE Roots(n) == {r \in 0..n : r * r = n}
           m == CHOOSE r \in Roots(q[1]) : TRUE
           n == CHOOSE r \in Roots(q[2]) : TRUE
<1>1. CASE IsExact(q) /\ Roots(q[1]) # {} /\ Roots(q[2]) # {}
  <2>1. Sqrt(q) = <<m, n>>
    BY <1>1 DEF Sqrt
  <2>2. m \in Roots(q[1]) /\ n \in Roots(q[2])
    BY <1>1
  <2> HIDE DEF m, n
  <2>3. q[1] \in Int /\ q[2] \in Nat \ {0} /\ (q[1] = 0 => q[2] = 1) /\ (q[1] = 0 <=> q = Zero)
    BY <1>1, QuantityParts DEF IsExact, Zero, Whole
  <2>4. m \in Int /\ n \in Nat /\ m * m = q[1] /\ n * n = q[2] /\ n \in 0..q[2]
    BY <2>2, <2>3
  <2>5. n # 0
    BY <2>3, <2>4
  <2>6. m = 0 <=> q[1] = 0
    BY <2>4
  <2>7. m = 0 => n = 1
    BY <2>3, <2>4, <2>5, <2>6
  <2>8. <<m, n>> \in Quantities
    BY <2>4, <2>5, <2>7 DEF Quantities
  <2>9. <<m, n>> = Zero => m = 0
    BY DEF Zero, Whole
  <2> QED
    BY <2>1, <2>3, <2>6, <2>8, <2>9
<1>2. CASE ~(IsExact(q) /\ Roots(q[1]) # {} /\ Roots(q[2]) # {})
  <2>1. Sqrt(q) = Tainted(q, q)
    BY <1>2 DEF Sqrt
  <2>2. Sqrt(q) = Inexact
    BY <2>1, QuantityParts, TaintedIsInexact
  <2> QED
    BY <2>2, ConstantsAreQuantities, QuantityParts
<1> QED
  BY <1>1, <1>2

\* The sine and the cosine.
LEMMA SineIsQuantity ==
  ASSUME NEW q \in Quantities
  PROVE  Sin(q) \in Quantities /\ Cos(q) \in Quantities
<1>1. ASSUME NEW p PROVE Sin(p) \in {Inexact, Zero, One, Whole(-1), <<1, 2>>, <<-1, 2>>}
  BY DEF Sin
<1>2. \A x \in {Inexact, Zero, One, Whole(-1), <<1, 2>>, <<-1, 2>>} : x \in Quantities
  BY ConstantsAreQuantities
<1> QED
  BY <1>1, <1>2 DEF Cos

\* What the tools may end in: their own error or a value.
Answers(r) == r = Refused \/ \E v : r = Value(v)

\* A quantity is a value.
LEMMA QuantityAnswers ==
  ASSUME NEW q \in Quantities
  PROVE  Answers(Finish(q))
BY QuantityParts DEF Finish, Answers

-----------------------------------------------------------------------------
(* Sums of sequences *)

\* The sum of a sequence is the last of its partial sums.
LEMMA SumUnfolds ==
  ASSUME NEW s \in Seq(Quantities)
  PROVE  \E sum \in [0..Len(s) -> Quantities] :
           /\ sum[0] = Zero /\ \A i \in 1..Len(s) : sum[i] = sum[i - 1] \oplus s[i]
           /\ SumOf(s) = sum[Len(s)]
<1> DEFINE n == Len(s)
           Body(f) == [i \in 0..n |-> IF i = 0 THEN Zero ELSE f[i - 1] \oplus s[i]]
           sum == CHOOSE f : f = Body(f)
           step == [i \in 1..n |-> [q \in Quantities |-> q \oplus s[i]]]
<1>1. n \in Nat /\ Zero \in Quantities /\ \A i \in 1..n : s[i] \in Quantities
  BY ConstantsAreQuantities
<1>2. \A i \in 1..n : \A q \in Quantities : step[i][q] = q \oplus s[i]
  OBVIOUS
<1>3. step \in [1..n -> [Quantities -> Quantities]]
  BY <1>1, SumIsQuantity
<1> HIDE DEF n, step
<1>4. PICK f \in [0..n -> Quantities] : Recursion(n, Zero, step, f)
  BY <1>1, <1>3, RecursionExists
<1>5. f = Body(f)
  <2>1. ASSUME NEW i \in 0..n PROVE f[i] = IF i = 0 THEN Zero ELSE f[i - 1] \oplus s[i]
    <3>1. i # 0 => i \in 1..n /\ i - 1 \in 0..n
      BY <1>1
    <3> QED
      BY <1>2, <1>4, <3>1 DEF Recursion
  <2> QED
    BY <2>1
<1>6. sum = Body(sum)
  BY <1>5
<1>7. SumOf(s) = sum[n]
  BY DEF SumOf, n
<1> HIDE DEF sum
<1>8. sum[0] = Zero /\ \A i \in 1..n : sum[i] = sum[i - 1] \oplus s[i]
  <2>1. Body(sum)[0] = Zero
    BY <1>1
  <2>2. ASSUME NEW i \in 1..n PROVE Body(sum)[i] = sum[i - 1] \oplus s[i]
    BY <1>1
  <2> HIDE DEF Body
  <2> QED
    BY <1>6, <2>1, <2>2
<1>9. \A i \in 0..n : sum[i] \in Quantities
  <2> DEFINE T == {i \in 0..n : sum[i] \in Quantities}
  <2>1. 0 \in T
    BY <1>1, <1>8
  <2>2. ASSUME NEW i \in 1..n, i - 1 \in T PROVE i \in T
    BY <1>1, <1>8, <2>2, SumIsQuantity
  <2> HIDE DEF T
  <2>3. \A i \in 0..n : i \in T
    BY <1>1, <2>1, <2>2, InductionAlong
  <2> QED
    BY <2>3 DEF T
<1>10. sum = [i \in 0..n |-> sum[i]]
  BY <1>6
<1>11. sum \in [0..n -> Quantities]
  BY <1>9, <1>10
<1> QED
  BY <1>7, <1>8, <1>11 DEF n

\* A sum of quantities is one.
LEMMA SumOfQuantities ==
  ASSUME NEW s \in Seq(Quantities)
  PROVE  SumOf(s) \in Quantities
<1>1. PICK sum \in [0..Len(s) -> Quantities] : SumOf(s) = sum[Len(s)]
  BY SumUnfolds
<1>2. Len(s) \in 0..Len(s)
  OBVIOUS
<1> QED
  BY <1>1, <1>2

\* A sum of fractions is one.
LEMMA SumOfFractions ==
  ASSUME NEW s \in Seq(Fractions)
  PROVE  SumOf(s) \in Fractions
<1>1. s \in Seq(Quantities) /\ Len(s) \in Nat /\ \A i \in 1..Len(s) : s[i] \in Fractions
  BY FractionsAreQuantities
<1>2. PICK sum \in [0..Len(s) -> Quantities] :
           /\ sum[0] = Zero /\ \A i \in 1..Len(s) : sum[i] = sum[i - 1] \oplus s[i]
           /\ SumOf(s) = sum[Len(s)]
  BY <1>1, SumUnfolds
<1> DEFINE T == {i \in 0..Len(s) : sum[i] \in Fractions}
<1>3. 0 \in T
  BY <1>1, <1>2, ZeroIs DEF Is
<1>4. ASSUME NEW i \in 1..Len(s), i - 1 \in T PROVE i \in T
  BY <1>1, <1>2, <1>4, FractionsAreClosed
<1> HIDE DEF T
<1>5. \A i \in 0..Len(s) : i \in T
  BY <1>1, <1>3, <1>4, InductionAlong
<1>6. Len(s) \in T
  BY <1>1, <1>5
<1> QED
  BY <1>2, <1>6 DEF T

-----------------------------------------------------------------------------
(* Signs of sums, products and quotients *)

\* What is not negative is zero or positive.
LEMMA NotNegativeIs ==
  ASSUME NEW p \in NotNegative
  PROVE  p \in Fractions /\ p[1] >= 0 /\ (p = Zero \/ Positive(p)) /\ (Positive(p) => p # Zero)
<1>1. p \in Fractions /\ ~Negative(p)
  BY DEF NotNegative
<1>2. p[1] \in Int /\ p[2] \in Nat \ {0}
  BY <1>1, FractionParts
<1>3. p[1] >= 0
  BY <1>1, <1>2 DEF Negative
<1>4. Is(p, p[1], p[2])
  BY <1>1, IsItself
<1>5. (Positive(p) <=> p[1] > 0) /\ (p = Zero <=> p[1] = 0)
  BY <1>4, SignIs
<1> QED
  BY <1>1, <1>2, <1>3, <1>5

\* Zero is not negative, nor is a positive fraction.
LEMMA PositiveIsNotNegative ==
  /\ Zero \in NotNegative
  /\ \A p \in Fractions : Positive(p) => p \in NotNegative /\ p # Zero
<1>1. Zero \in NotNegative
  BY ZeroIs DEF Is, NotNegative, Negative, Zero, Whole
<1>2. ASSUME NEW p \in Fractions, Positive(p) PROVE p \in NotNegative /\ p # Zero
  BY <1>2, SignOfProduct DEF NotNegative
<1> QED
  BY <1>1, <1>2

\* A sum of numbers that are not negative is not, and positive if one of them is.
LEMMA SignOfSum ==
  ASSUME NEW p \in NotNegative, NEW q \in NotNegative
  PROVE  p \oplus q \in NotNegative /\ (Positive(p) \/ Positive(q) => Positive(p \oplus q))
<1>1. PICK m, n, d : Is(p, m, d) /\ Is(q, n, d)
  BY IsItself, CommonDenominator DEF NotNegative
<1>2. Is(p \oplus q, m + n, d) /\ m \in Int /\ n \in Int
  <2>1. Is(p \oplus q, m + n, d)
    BY <1>1, SumIs
  <2> QED
    BY <1>1, <2>1 DEF Is
<1>3. ~(m < 0) /\ ~(n < 0)
  BY <1>1, SignIs DEF NotNegative
<1>4. (Positive(p) => m > 0) /\ (Positive(q) => n > 0)
  BY <1>1, SignIs
<1>5. ~(m + n < 0) /\ (m > 0 \/ n > 0 => m + n > 0)
  BY <1>2, <1>3
<1>6. (Negative(p \oplus q) <=> m + n < 0) /\ (Positive(p \oplus q) <=> m + n > 0)
  BY <1>2, SignIs
<1>7. p \oplus q \in Fractions
  BY <1>2 DEF Is
<1> QED
  BY <1>4, <1>5, <1>6, <1>7 DEF NotNegative

\* So is a product, and positive if both are.
LEMMA SignOfProducts ==
  ASSUME NEW p \in NotNegative, NEW q \in NotNegative
  PROVE  p \otimes q \in NotNegative /\ (Positive(p) /\ Positive(q) => Positive(p \otimes q))
<1>1. p \in Fractions /\ q \in Fractions /\ p \otimes q \in Fractions
  BY FractionsAreClosed DEF NotNegative
<1>2. Positive(p \otimes q) <=> (Positive(p) /\ Positive(q)) \/ (Negative(p) /\ Negative(q))
  BY <1>1, SignOfProduct
<1>3. OppositeSigns(p, q) <=> (Positive(p) /\ Negative(q)) \/ (Negative(p) /\ Positive(q))
  BY <1>1, SignOfProduct
<1>4. ~Negative(p \otimes q)
  BY <1>3 DEF OppositeSigns, NotNegative
<1> QED
  BY <1>1, <1>2, <1>4 DEF NotNegative

\* And a quotient by a positive number.
LEMMA SignOfQuotient ==
  ASSUME NEW p \in NotNegative, NEW q \in Fractions, Positive(q)
  PROVE  p \oslash q \in NotNegative /\ (Positive(p) => Positive(p \oslash q))
<1>1. PICK m, n, d : Is(p, m, d) /\ Is(q, n, d)
  BY IsItself, CommonDenominator DEF NotNegative
<1>2. m \in Int /\ n \in Int /\ n > 0 /\ n # 0
  BY <1>1, SignIs DEF Is
<1>3. Is(p \oslash q, m, n)
  BY <1>1, <1>2, QuotientIs
<1>4. ~(m < 0)
  BY <1>1, SignIs DEF NotNegative
<1>5. Positive(p) => m > 0
  BY <1>1, SignIs
<1>6. (Negative(p \oslash q) <=> m < 0) /\ (Positive(p \oslash q) <=> m > 0)
  BY <1>3, SignIs
<1> QED
  BY <1>3, <1>4, <1>5, <1>6 DEF NotNegative, Is

\* A square is not negative, and positive unless it is that of zero.
LEMMA SignOfSquare ==
  ASSUME NEW p \in Fractions
  PROVE  p \otimes p \in NotNegative /\ (p # Zero => Positive(p \otimes p))
<1>1. p \otimes p \in Fractions
  BY FractionsAreClosed
<1>2. /\ p = Zero \/ Positive(p) \/ Negative(p)
      /\ ~(Positive(p) /\ Negative(p))
      /\ Positive(p \otimes p) <=> (Positive(p) /\ Positive(p)) \/ (Negative(p) /\ Negative(p))
      /\ OppositeSigns(p, p) <=> (Positive(p) /\ Negative(p)) \/ (Negative(p) /\ Positive(p))
  BY SignOfProduct
<1>3. ~Negative(p \otimes p)
  BY <1>2 DEF OppositeSigns
<1> QED
  BY <1>1, <1>2, <1>3 DEF NotNegative

\* A quotient of fractions is one.
LEMMA QuotientIsFraction ==
  ASSUME NEW p \in Fractions, NEW q \in Fractions, q # Zero
  PROVE  p \oslash q \in Fractions
<1>1. PICK m, n, d : Is(p, m, d) /\ Is(q, n, d)
  BY IsItself, CommonDenominator
<1>2. n # 0
  BY <1>1, SignIs
<1> QED
  BY <1>1, <1>2, QuotientIs

\* Whole numbers and the small constants are fractions.
LEMMA WholeIsFraction ==
  /\ \A n \in Int : Whole(n) \in Fractions /\ (n > 0 => Positive(Whole(n)))
  /\ Zero \in Fractions /\ One \in Fractions /\ Two \in Fractions
  /\ Positive(One) /\ Positive(Two)
<1>1. ASSUME NEW n \in Int PROVE Whole(n) \in Fractions /\ (n > 0 => Positive(Whole(n)))
  <2>1. Whole(n) \in Fractions
    BY WholeIs DEF Is
  <2>2. n > 0 => Positive(Whole(n))
    BY DEF Positive, Whole
  <2> QED
    BY <2>1, <2>2
<1> QED
  BY <1>1 DEF Zero, One, Two

\* A sum of numbers that are not negative is positive if one of them is.
LEMMA SumOfNotNegative ==
  ASSUME NEW s \in Seq(NotNegative)
  PROVE  SumOf(s) \in NotNegative /\ ((\E j \in 1..Len(s) : Positive(s[j])) => Positive(SumOf(s)))
<1>1. s \in Seq(Quantities) /\ Len(s) \in Nat /\ \A i \in 1..Len(s) : s[i] \in NotNegative
  BY FractionsAreQuantities DEF NotNegative
<1>2. PICK sum \in [0..Len(s) -> Quantities] :
           /\ sum[0] = Zero /\ \A i \in 1..Len(s) : sum[i] = sum[i - 1] \oplus s[i]
           /\ SumOf(s) = sum[Len(s)]
  BY <1>1, SumUnfolds
<1> DEFINE T == {i \in 0..Len(s) : sum[i] \in NotNegative
                                     /\ ((\E j \in 1..i : Positive(s[j])) => Positive(sum[i]))}
<1>3. 0 \in T
  BY <1>1, <1>2, PositiveIsNotNegative
<1>4. ASSUME NEW i \in 1..Len(s), i - 1 \in T PROVE i \in T
  <2>1. sum[i] = sum[i - 1] \oplus s[i] /\ s[i] \in NotNegative /\ i \in 0..Len(s)
    BY <1>1, <1>2
  <2>2. sum[i - 1] \in NotNegative /\ ((\E j \in 1..(i - 1) : Positive(s[j])) => Positive(sum[i - 1]))
    BY <1>4
  <2>3. sum[i] \in NotNegative /\ (Positive(sum[i - 1]) \/ Positive(s[i]) => Positive(sum[i]))
    BY <2>1, <2>2, SignOfSum
  <2>4. (\E j \in 1..i : Positive(s[j])) => Positive(s[i]) \/ (\E j \in 1..(i - 1) : Positive(s[j]))
    OBVIOUS
  <2> QED
    BY <2>1, <2>2, <2>3, <2>4
<1> HIDE DEF T
<1>5. \A i \in 0..Len(s) : i \in T
  BY <1>1, <1>3, <1>4, InductionAlong
<1>6. Len(s) \in T
  BY <1>1, <1>5
<1> QED
  BY <1>2, <1>6 DEF T

-----------------------------------------------------------------------------
(* The tools that look up a formula *)

\* The arguments other than the operation and a list of resistances are numbers.
NoNumbers == {"operation", "resistances"}
AllNumbers(a) == \A n \in DOMAIN a \ NoNumbers : a[n] \in Fractions

\* What an accepted argument is.
Fits(class, n, a) ==
  n \notin NoNumbers =>
    /\ a[n] \in Fractions /\ a[n] \in Quantities
    /\ class = "positive" => Positive(a[n]) /\ a[n] # Zero
    /\ class = "nonnegative" => a[n] \in NotNegative
    /\ class = "nonzero" => a[n] # Zero

\* The arguments of an accepted call are what its operation needs.
LEMMA AcceptsFits ==
  ASSUME NEW needs, NEW op, NEW a, AllNumbers(a), Accepts(needs, op, a)
  PROVE  op \in DOMAIN needs /\ \A n \in DOMAIN needs[op] : Fits(needs[op][n], n, a)
<1>1. op \in DOMAIN needs /\ \A n \in DOMAIN needs[op] : n \in DOMAIN a /\ RequireNumber(needs[op][n], a[n])
  BY DEF Accepts
<1> SUFFICES ASSUME NEW n \in DOMAIN needs[op], n \notin NoNumbers PROVE Fits(needs[op][n], n, a)
  BY <1>1 DEF Fits
<1> DEFINE class == needs[op][n]
<1>2. a[n] \in Fractions /\ a[n] \in Quantities
  BY <1>1, FractionsAreQuantities DEF AllNumbers
<1>3. RequireNumber(class, a[n])
  BY <1>1
<1> HIDE DEF class
<1>4. /\ class = "positive" => Positive(a[n])
      /\ class = "nonnegative" => ~Negative(a[n])
      /\ class = "nonzero" => a[n] # Zero
  BY <1>3 DEF RequireNumber
<1> QED
  BY <1>2, <1>4, PositiveIsNotNegative DEF Fits, class, NotNegative

\* The sum of two squares is no negative number, and has a root.
LEMMA HypotenuseIs ==
  ASSUME NEW p \in Fractions, NEW q \in Fractions
  PROVE  /\ Square(p) \oplus Square(q) \in NotNegative
         /\ Sqrt(Square(p) \oplus Square(q)) \in Quantities
<1>1. Square(p) \oplus Square(q) \in NotNegative
  BY SignOfSquare, SignOfSum DEF Square
<1>2. Square(p) \oplus Square(q) \in Quantities /\ ~Negative(Square(p) \oplus Square(q))
  BY <1>1, FractionsAreQuantities DEF NotNegative
<1> QED
  BY <1>1, <1>2, RootIsQuantity

\* Every operation of kinematics, with numbers, ends in a value or in its own error.
LEMMA KinematicsAnswers ==
  ASSUME NEW op, NEW given, AllNumbers(given)
  PROVE  Answers(Kinematics(op, given))
<1> DEFINE a == WithDefault(given, "gravity", DefaultGravity)
<1>1. AllNumbers(a)
  BY WholeIsFraction DEF AllNumbers, WithDefault, NoNumbers, DefaultGravity
<1> HIDE DEF a
<1> SUFFICES ASSUME Accepts(KinematicsNeeds, op, a) PROVE Answers(Kinematics(op, given))
  BY DEF Kinematics, Answers, a
<1>2. op \in DOMAIN KinematicsNeeds /\ \A n \in DOMAIN KinematicsNeeds[op] : Fits(KinematicsNeeds[op][n], n, a)
  BY <1>1, AcceptsFits
<1>3. CASE op = "velocity"
  <2>1. {"acceleration", "initial_velocity", "time"} \subseteq DOMAIN KinematicsNeeds[op]
    BY <1>3 DEF KinematicsNeeds, Numbers, ++, Projectile
  <2>2. /\ a.acceleration \in Quantities /\ a.initial_velocity \in Quantities
        /\ a.time \in Quantities
    BY <1>2, <2>1 DEF Fits, NoNumbers
  <2>3. Answers(Finish((a.initial_velocity \oplus (a.acceleration \otimes a.time))))
    BY <2>2, ConstantsAreQuantities, SumIsQuantity, ProductIsQuantity, QuantityAnswers
  <2> QED
    BY <1>3, <2>3 DEF Kinematics, a, Travelled, Flight
<1>4. CASE op = "displacement"
  <2>1. {"acceleration", "initial_velocity", "time"} \subseteq DOMAIN KinematicsNeeds[op]
    BY <1>4 DEF KinematicsNeeds, Numbers, ++, Projectile
  <2>2. /\ a.acceleration \in Quantities /\ a.initial_velocity \in Quantities
        /\ a.time \in Quantities
    BY <1>2, <2>1 DEF Fits, NoNumbers
  <2>3. Answers(Finish(((a.initial_velocity \otimes a.time) \oplus (<<1, 2>> \otimes (a.acceleration \otimes Square(a.time))))))
    BY <2>2, ConstantsAreQuantities, SumIsQuantity, ProductIsQuantity, UnaryIsQuantity, QuantityAnswers
  <2> QED
    BY <1>4, <2>3 DEF Kinematics, a, Travelled, Flight
<1>5. CASE op = "final_velocity_from_displacement"
  <2>1. {"acceleration", "displacement", "initial_velocity"} \subseteq DOMAIN KinematicsNeeds[op]
    BY <1>5 DEF KinematicsNeeds, Numbers, ++, Projectile
  <2>2. /\ a.acceleration \in Quantities /\ a.displacement \in Quantities
        /\ a.initial_velocity \in Quantities
    BY <1>2, <2>1 DEF Fits, NoNumbers
  <2>3. Square(a.initial_velocity) \oplus (Two \otimes (a.acceleration \otimes a.displacement)) \in Quantities
    BY <2>2, ConstantsAreQuantities, SumIsQuantity, ProductIsQuantity, UnaryIsQuantity
  <2> DEFINE radicand == Square(a.initial_velocity) \oplus (Two \otimes (a.acceleration \otimes a.displacement))
  <2>4. Kinematics(op, given) = IF Negative(radicand) THEN Refused ELSE Finish(Sqrt(radicand))
    BY <1>5 DEF Kinematics, a
  <2> HIDE DEF radicand
  <2>5. ~Negative(radicand) => Sqrt(radicand) \in Quantities
    BY <2>3, RootIsQuantity DEF radicand
  <2> QED
    BY <2>4, <2>5, QuantityAnswers DEF Answers
<1>6. CASE op = "acceleration"
  <2>1. /\ {"final_velocity", "initial_velocity", "time"} \subseteq DOMAIN KinematicsNeeds[op]
        /\ KinematicsNeeds[op]["time"] = "nonzero"
    BY <1>6 DEF KinematicsNeeds, Numbers, ++, Projectile
  <2>2. /\ a.final_velocity \in Quantities /\ a.initial_velocity \in Quantities
        /\ a.time \in Quantities /\ a.time # Zero
    BY <1>2, <2>1 DEF Fits, NoNumbers
  <2>3. Answers(Finish(((a.final_velocity \ominus a.initial_velocity) \oslash a.time)))
    BY <2>2, ConstantsAreQuantities, DifferenceIsQuantity, QuotientIsQuantity, QuantityAnswers
  <2> QED
    BY <1>6, <2>3 DEF Kinematics, a, Travelled, Flight
<1>7. CASE op = "time_from_velocity"
  <2>1. /\ {"acceleration", "final_velocity", "initial_velocity"} \subseteq DOMAIN KinematicsNeeds[op]
        /\ KinematicsNeeds[op]["acceleration"] = "nonzero"
    BY <1>7 DEF KinematicsNeeds, Numbers, ++, Projectile
  <2>2. /\ a.acceleration \in Quantities /\ a.final_velocity \in Quantities
        /\ a.initial_velocity \in Quantities /\ a.acceleration # Zero
    BY <1>2, <2>1 DEF Fits, NoNumbers
  <2>3. Answers(Finish(((a.final_velocity \ominus a.initial_velocity) \oslash a.acceleration)))
    BY <2>2, ConstantsAreQuantities, DifferenceIsQuantity, QuotientIsQuantity, QuantityAnswers
  <2> QED
    BY <1>7, <2>3 DEF Kinematics, a, Travelled, Flight
<1>8. CASE op = "projectile_time"
  <2>1. /\ {"gravity", "initial_speed", "launch_angle_degrees"} \subseteq DOMAIN KinematicsNeeds[op]
        /\ KinematicsNeeds[op]["gravity"] = "positive"
    BY <1>8 DEF KinematicsNeeds, Numbers, ++, Projectile
  <2>2. /\ a.gravity \in Quantities /\ a.initial_speed \in Quantities
        /\ a.launch_angle_degrees \in Quantities /\ a.gravity # Zero
    BY <1>2, <2>1 DEF Fits, NoNumbers
  <2>3. Answers(Finish(((Two \otimes (a.initial_speed \otimes Sin(a.launch_angle_degrees))) \oslash a.gravity)))
    BY <2>2, ConstantsAreQuantities, ProductIsQuantity, QuotientIsQuantity, SineIsQuantity, QuantityAnswers
  <2> QED
    BY <1>8, <2>3 DEF Kinematics, a, Travelled, Flight
<1>9. CASE op = "projectile_range"
  <2>1. /\ {"gravity", "initial_speed", "launch_angle_degrees"} \subseteq DOMAIN KinematicsNeeds[op]
        /\ KinematicsNeeds[op]["gravity"] = "positive"
    BY <1>9 DEF KinematicsNeeds, Numbers, ++, Projectile
  <2>2. /\ a.gravity \in Quantities /\ a.initial_speed \in Quantities
        /\ a.launch_angle_degrees \in Quantities /\ a.gravity # Zero
    BY <1>2, <2>1 DEF Fits, NoNumbers
  <2>3. Answers(Finish(((Square(a.initial_speed) \otimes Sin(Two \otimes a.launch_angle_degrees)) \oslash a.gravity)))
    BY <2>2, ConstantsAreQuantities, ProductIsQuantity, QuotientIsQuantity, SineIsQuantity, UnaryIsQuantity, QuantityAnswers
  <2> QED
    BY <1>9, <2>3 DEF Kinematics, a, Travelled, Flight
<1>10. CASE op = "projectile_max_height"
  <2>1. /\ {"gravity", "initial_speed", "launch_angle_degrees"} \subseteq DOMAIN KinematicsNeeds[op]
        /\ KinematicsNeeds[op]["gravity"] = "positive"
    BY <1>10 DEF KinematicsNeeds, Numbers, ++, Projectile
  <2>2. /\ a.gravity \in Quantities /\ a.initial_speed \in Quantities
        /\ a.launch_angle_degrees \in Quantities /\ a.gravity # Zero
    BY <1>2, <2>1 DEF Fits, NoNumbers
  <2>3. Answers(Finish((Square(a.initial_speed \otimes Sin(a.launch_angle_degrees)) \oslash (Two \otimes a.gravity))))
    BY <2>2, ConstantsAreQuantities, ProductIsQuantity, QuotientIsQuantity, SineIsQuantity, UnaryIsQuantity, QuantityAnswers
  <2> QED
    BY <1>10, <2>3 DEF Kinematics, a, Travelled, Flight
<1>11. op \in {"velocity", "displacement", "final_velocity_from_displacement", "acceleration", "time_from_velocity", "projectile_time", "projectile_range", "projectile_max_height"}
  BY <1>2 DEF KinematicsNeeds
<1> QED
  BY <1>3, <1>4, <1>5, <1>6, <1>7, <1>8, <1>9, <1>10, <1>11

\* Every operation of dynamics.
LEMMA DynamicsAnswers ==
  ASSUME NEW op, NEW given, AllNumbers(given)
  PROVE  Answers(Dynamics(op, given))
<1> DEFINE a == WithDefault(given, "gravity", DefaultGravity)
<1>1. AllNumbers(a)
  BY WholeIsFraction DEF AllNumbers, WithDefault, NoNumbers, DefaultGravity
<1> HIDE DEF a
<1> SUFFICES ASSUME Accepts(DynamicsNeeds, op, a) PROVE Answers(Dynamics(op, given))
  BY DEF Dynamics, Answers, a
<1>2. op \in DOMAIN DynamicsNeeds /\ \A n \in DOMAIN DynamicsNeeds[op] : Fits(DynamicsNeeds[op][n], n, a)
  BY <1>1, AcceptsFits
<1>3. CASE op = "force"
  <2>1. {"acceleration", "mass"} \subseteq DOMAIN DynamicsNeeds[op]
    BY <1>3 DEF DynamicsNeeds, Numbers
  <2>2. a.acceleration \in Quantities /\ a.mass \in Quantities
    BY <1>2, <2>1 DEF Fits, NoNumbers
  <2>3. Answers(Finish((a.mass \otimes a.acceleration)))
    BY <2>2, ConstantsAreQuantities, ProductIsQuantity, QuantityAnswers
  <2> QED
    BY <1>3, <2>3 DEF Dynamics, a
<1>4. CASE op = "mass_from_force"
  <2>1. /\ {"acceleration", "force"} \subseteq DOMAIN DynamicsNeeds[op]
        /\ DynamicsNeeds[op]["acceleration"] = "positive"
    BY <1>4 DEF DynamicsNeeds, Numbers
  <2>2. a.acceleration \in Quantities /\ a.force \in Quantities /\ a.acceleration # Zero
    BY <1>2, <2>1 DEF Fits, NoNumbers
  <2>3. Answers(Finish((a.force \oslash a.acceleration)))
    BY <2>2, ConstantsAreQuantities, QuotientIsQuantity, QuantityAnswers
  <2> QED
    BY <1>4, <2>3 DEF Dynamics, a
<1>5. CASE op = "acceleration_from_force"
  <2>1. /\ {"force", "mass"} \subseteq DOMAIN DynamicsNeeds[op]
        /\ DynamicsNeeds[op]["mass"] = "positive"
    BY <1>5 DEF DynamicsNeeds, Numbers
  <2>2. a.force \in Quantities /\ a.mass \in Quantities /\ a.mass # Zero
    BY <1>2, <2>1 DEF Fits, NoNumbers
  <2>3. Answers(Finish((a.force \oslash a.mass)))
    BY <2>2, ConstantsAreQuantities, QuotientIsQuantity, QuantityAnswers
  <2> QED
    BY <1>5, <2>3 DEF Dynamics, a
<1>6. CASE op = "weight"
  <2>1. {"gravity", "mass"} \subseteq DOMAIN DynamicsNeeds[op]
    BY <1>6 DEF DynamicsNeeds, Numbers
  <2>2. a.gravity \in Quantities /\ a.mass \in Quantities
    BY <1>2, <2>1 DEF Fits, NoNumbers
  <2>3. Answers(Finish((a.mass \otimes a.gravity)))
    BY <2>2, ConstantsAreQuantities, ProductIsQuantity, QuantityAnswers
  <2> QED
    BY <1>6, <2>3 DEF Dynamics, a
<1>7. CASE op = "momentum"
  <2>1. {"mass", "velocity"} \subseteq DOMAIN DynamicsNeeds[op]
    BY <1>7 DEF DynamicsNeeds, Numbers
  <2>2. a.mass \in Quantities /\ a.velocity \in Quantities
    BY <1>2, <2>1 DEF Fits, NoNumbers
  <2>3. Answers(Finish((a.mass \otimes a.velocity)))
    BY <2>2, ConstantsAreQuantities, ProductIsQuantity, QuantityAnswers
  <2> QED
    BY <1>7, <2>3 DEF Dynamics, a
<1>8. CASE op = "kinetic_energy"
  <2>1. {"mass", "velocity"} \subseteq DOMAIN DynamicsNeeds[op]
    BY <1>8 DEF DynamicsNeeds, Numbers
  <2>2. a.mass \in Quantities /\ a.velocity \in Quantities
    BY <1>2, <2>1 DEF Fits, NoNumbers
  <2>3. Answers(Finish((<<1, 2>> \otimes (a.mass \otimes Square(a.velocity)))))
    BY <2>2, ConstantsAreQuantities, ProductIsQuantity, UnaryIsQuantity, QuantityAnswers
  <2> QED
    BY <1>8, <2>3 DEF Dynamics, a
<1>9. CASE op = "potential_energy"
  <2>1. {"gravity", "height", "mass"} \subseteq DOMAIN DynamicsNeeds[op]
    BY <1>9 DEF DynamicsNeeds, Numbers
  <2>2. a.gravity \in Quantities /\ a.height \in Quantities /\ a.mass \in Quantities
    BY <1>2, <2>1 DEF Fits, NoNumbers
  <2>3. Answers(Finish((a.mass \otimes (a.gravity \otimes a.height))))
    BY <2>2, ConstantsAreQuantities, ProductIsQuantity, QuantityAnswers
  <2> QED
    BY <1>9, <2>3 DEF Dynamics, a
<1>10. CASE op = "work"
  <2>1. {"angle_degrees", "displacement", "force"} \subseteq DOMAIN DynamicsNeeds[op]
    BY <1>10 DEF DynamicsNeeds, Numbers
  <2>2. a.angle_degrees \in Quantities /\ a.displacement \in Quantities /\ a.force \in Quantities
    BY <1>2, <2>1 DEF Fits, NoNumbers
  <2>3. Answers(Finish((a.force \otimes (a.displacement \otimes Cos(a.angle_degrees)))))
    BY <2>2, ConstantsAreQuantities, ProductIsQuantity, SineIsQuantity, QuantityAnswers
  <2> QED
    BY <1>10, <2>3 DEF Dynamics, a
<1>11. CASE op = "power"
  <2>1. /\ {"time", "work"} \subseteq DOMAIN DynamicsNeeds[op]
        /\ DynamicsNeeds[op]["time"] = "positive"
    BY <1>11 DEF DynamicsNeeds, Numbers
  <2>2. a.time \in Quantities /\ a.work \in Quantities /\ a.time # Zero
    BY <1>2, <2>1 DEF Fits, NoNumbers
  <2>3. Answers(Finish((a.work \oslash a.time)))
    BY <2>2, ConstantsAreQuantities, QuotientIsQuantity, QuantityAnswers
  <2> QED
    BY <1>11, <2>3 DEF Dynamics, a
<1>12. op \in {"force", "mass_from_force", "acceleration_from_force", "weight", "momentum", "kinetic_energy", "potential_energy", "work", "power"}
  BY <1>2 DEF DynamicsNeeds
<1> QED
  BY <1>3, <1>4, <1>5, <1>6, <1>7, <1>8, <1>9, <1>10, <1>11, <1>12

\* Every operation of statics.
LEMMA StaticsAnswers ==
  ASSUME NEW op, NEW a, AllNumbers(a)
  PROVE  Answers(Statics(op, a))
<1>1. AllNumbers(a)
  OBVIOUS
<1> SUFFICES ASSUME Accepts(StaticsNeeds, op, a) PROVE Answers(Statics(op, a))
  BY DEF Statics, Answers
<1>2. op \in DOMAIN StaticsNeeds /\ \A n \in DOMAIN StaticsNeeds[op] : Fits(StaticsNeeds[op][n], n, a)
  BY <1>1, AcceptsFits
<1>3. CASE op = "force_components"
  <2>1. {"magnitude"} \subseteq DOMAIN StaticsNeeds[op]
    BY <1>3 DEF StaticsNeeds, Numbers, NonNegative, ++
  <2>2. a.magnitude \in Quantities
    BY <1>2, <2>1 DEF Fits, NoNumbers
  <2> QED
    BY <1>3 DEF Statics, Answers
<1>4. CASE op = "resultant_force"
  <2>1. {"fx", "fy"} \subseteq DOMAIN StaticsNeeds[op]
    BY <1>4 DEF StaticsNeeds, Numbers, NonNegative, ++
  <2>2. a.fx \in Quantities /\ a.fy \in Quantities
    BY <1>2, <2>1 DEF Fits, NoNumbers
  <2>3. a.fx \in Fractions /\ a.fy \in Fractions
    BY <1>2, <2>1 DEF Fits, NoNumbers
  <2>4. Sqrt(Square(a.fx) \oplus Square(a.fy)) \in Quantities
    BY <2>3, HypotenuseIs
  <2>5. Statics(op, a) = Finish(Sqrt(Square(a.fx) \oplus Square(a.fy)))
    BY <1>4 DEF Statics
  <2> QED
    BY <2>4, <2>5, QuantityAnswers
<1>5. CASE op = "resultant_angle"
  <2>1. {"fx", "fy"} \subseteq DOMAIN StaticsNeeds[op]
    BY <1>5 DEF StaticsNeeds, Numbers, NonNegative, ++
  <2>2. a.fx \in Quantities /\ a.fy \in Quantities
    BY <1>2, <2>1 DEF Fits, NoNumbers
  <2>3. Atan2(a.fy, a.fx) \in {Zero, Whole(180), Whole(90), Whole(-90), Inexact}
    BY DEF Atan2
  <2>4. Atan2(a.fy, a.fx) \in Quantities
    BY <2>3, ConstantsAreQuantities
  <2>5. Statics(op, a) = Refused \/ Statics(op, a) = Finish(Atan2(a.fy, a.fx))
    BY <1>5 DEF Statics
  <2> QED
    BY <2>4, <2>5, QuantityAnswers DEF Answers
<1>6. CASE op = "moment_2d"
  <2>1. {"fx", "fy", "x", "y"} \subseteq DOMAIN StaticsNeeds[op]
    BY <1>6 DEF StaticsNeeds, Numbers, NonNegative, ++
  <2>2. a.fx \in Quantities /\ a.fy \in Quantities /\ a.x \in Quantities /\ a.y \in Quantities
    BY <1>2, <2>1 DEF Fits, NoNumbers
  <2>3. Answers(Finish(((a.x \otimes a.fy) \ominus (a.y \otimes a.fx))))
    BY <2>2, ConstantsAreQuantities, DifferenceIsQuantity, ProductIsQuantity, QuantityAnswers
  <2> QED
    BY <1>6, <2>3 DEF Statics
<1>7. CASE op = "moment_from_force"
  <2>1. {"angle_degrees", "force", "perpendicular_distance"} \subseteq DOMAIN StaticsNeeds[op]
    BY <1>7 DEF StaticsNeeds, Numbers, NonNegative, ++
  <2>2. /\ a.angle_degrees \in Quantities /\ a.force \in Quantities
        /\ a.perpendicular_distance \in Quantities
    BY <1>2, <2>1 DEF Fits, NoNumbers
  <2>3. Answers(Finish((a.force \otimes (a.perpendicular_distance \otimes Sin(a.angle_degrees)))))
    BY <2>2, ConstantsAreQuantities, ProductIsQuantity, SineIsQuantity, QuantityAnswers
  <2> QED
    BY <1>7, <2>3 DEF Statics
<1>8. CASE op = "equilibrium_force"
  <2>1. {"fx_sum", "fy_sum"} \subseteq DOMAIN StaticsNeeds[op]
    BY <1>8 DEF StaticsNeeds, Numbers, NonNegative, ++
  <2>2. a.fx_sum \in Quantities /\ a.fy_sum \in Quantities
    BY <1>2, <2>1 DEF Fits, NoNumbers
  <2> QED
    BY <1>8 DEF Statics, Answers
<1>9. CASE op = "equilibrium_check"
  <2>1. {"fx_sum", "fy_sum"} \subseteq DOMAIN StaticsNeeds[op]
    BY <1>9 DEF StaticsNeeds, Numbers, NonNegative, ++
  <2>2. a.fx_sum \in Quantities /\ a.fy_sum \in Quantities
    BY <1>2, <2>1 DEF Fits, NoNumbers
  <2> QED
    BY <1>9 DEF Statics, Answers
<1>10. op \in {"force_components", "resultant_force", "resultant_angle", "moment_2d", "moment_from_force", "equilibrium_force", "equilibrium_check"}
  BY <1>2 DEF StaticsNeeds
<1> QED
  BY <1>3, <1>4, <1>5, <1>6, <1>7, <1>8, <1>9, <1>10

\* The operations of strength_of_materials that divide by no product.
LEMMA StrengthOfMaterialsAnswers ==
  ASSUME NEW op, NEW a, AllNumbers(a), <<"strength_of_materials", op>> \notin DividesByProduct
  PROVE  Answers(StrengthOfMaterials(op, a))
<1>1. AllNumbers(a)
  OBVIOUS
<1> SUFFICES ASSUME Accepts(StrengthNeeds, op, a) PROVE Answers(StrengthOfMaterials(op, a))
  BY DEF StrengthOfMaterials, Answers
<1>2. op \in DOMAIN StrengthNeeds /\ \A n \in DOMAIN StrengthNeeds[op] : Fits(StrengthNeeds[op][n], n, a)
  BY <1>1, AcceptsFits
<1>3. CASE op = "normal_stress"
  <2>1. /\ {"area", "force"} \subseteq DOMAIN StrengthNeeds[op]
        /\ StrengthNeeds[op]["area"] = "positive"
    BY <1>3 DEF StrengthNeeds, Numbers, AllPositive, ++
  <2>2. a.area \in Quantities /\ a.force \in Quantities /\ a.area # Zero
    BY <1>2, <2>1 DEF Fits, NoNumbers
  <2>3. Answers(Finish((a.force \oslash a.area)))
    BY <2>2, ConstantsAreQuantities, QuotientIsQuantity, QuantityAnswers
  <2> QED
    BY <1>3, <2>3 DEF StrengthOfMaterials
<1>4. CASE op = "shear_stress"
  <2>1. /\ {"area", "force"} \subseteq DOMAIN StrengthNeeds[op]
        /\ StrengthNeeds[op]["area"] = "positive"
    BY <1>4 DEF StrengthNeeds, Numbers, AllPositive, ++
  <2>2. a.area \in Quantities /\ a.force \in Quantities /\ a.area # Zero
    BY <1>2, <2>1 DEF Fits, NoNumbers
  <2>3. Answers(Finish((a.force \oslash a.area)))
    BY <2>2, ConstantsAreQuantities, QuotientIsQuantity, QuantityAnswers
  <2> QED
    BY <1>4, <2>3 DEF StrengthOfMaterials
<1>5. CASE op = "strain"
  <2>1. /\ {"elongation", "original_length"} \subseteq DOMAIN StrengthNeeds[op]
        /\ StrengthNeeds[op]["original_length"] = "positive"
    BY <1>5 DEF StrengthNeeds, Numbers, AllPositive, ++
  <2>2. /\ a.elongation \in Quantities /\ a.original_length \in Quantities
        /\ a.original_length # Zero
    BY <1>2, <2>1 DEF Fits, NoNumbers
  <2>3. Answers(Finish((a.elongation \oslash a.original_length)))
    BY <2>2, ConstantsAreQuantities, QuotientIsQuantity, QuantityAnswers
  <2> QED
    BY <1>5, <2>3 DEF StrengthOfMaterials
<1>7. CASE op = "hookes_law"
  <2>1. {"strain", "youngs_modulus"} \subseteq DOMAIN StrengthNeeds[op]
    BY <1>7 DEF StrengthNeeds, Numbers, AllPositive, ++
  <2>2. a.strain \in Quantities /\ a.youngs_modulus \in Quantities
    BY <1>2, <2>1 DEF Fits, NoNumbers
  <2>3. Answers(Finish((a.youngs_modulus \otimes a.strain)))
    BY <2>2, ConstantsAreQuantities, ProductIsQuantity, QuantityAnswers
  <2> QED
    BY <1>7, <2>3 DEF StrengthOfMaterials
<1>8. CASE op = "youngs_modulus"
  <2>1. /\ {"strain", "stress"} \subseteq DOMAIN StrengthNeeds[op]
        /\ StrengthNeeds[op]["strain"] = "positive"
    BY <1>8 DEF StrengthNeeds, Numbers, AllPositive, ++
  <2>2. a.strain \in Quantities /\ a.stress \in Quantities /\ a.strain # Zero
    BY <1>2, <2>1 DEF Fits, NoNumbers
  <2>3. Answers(Finish((a.stress \oslash a.strain)))
    BY <2>2, ConstantsAreQuantities, QuotientIsQuantity, QuantityAnswers
  <2> QED
    BY <1>8, <2>3 DEF StrengthOfMaterials
<1>9. CASE op = "factor_of_safety"
  <2>1. /\ {"failure_stress", "working_stress"} \subseteq DOMAIN StrengthNeeds[op]
        /\ StrengthNeeds[op]["working_stress"] = "positive"
    BY <1>9 DEF StrengthNeeds, Numbers, AllPositive, ++
  <2>2. /\ a.failure_stress \in Quantities /\ a.working_stress \in Quantities
        /\ a.working_stress # Zero
    BY <1>2, <2>1 DEF Fits, NoNumbers
  <2>3. Answers(Finish((a.failure_stress \oslash a.working_stress)))
    BY <2>2, ConstantsAreQuantities, QuotientIsQuantity, QuantityAnswers
  <2> QED
    BY <1>9, <2>3 DEF StrengthOfMaterials
<1>10. CASE op = "thermal_strain"
  <2>1. {"coefficient_of_expansion", "temperature_change"} \subseteq DOMAIN StrengthNeeds[op]
    BY <1>10 DEF StrengthNeeds, Numbers, AllPositive, ++
  <2>2. a.coefficient_of_expansion \in Quantities /\ a.temperature_change \in Quantities
    BY <1>2, <2>1 DEF Fits, NoNumbers
  <2>3. Answers(Finish((a.coefficient_of_expansion \otimes a.temperature_change)))
    BY <2>2, ConstantsAreQuantities, ProductIsQuantity, QuantityAnswers
  <2> QED
    BY <1>10, <2>3 DEF StrengthOfMaterials
<1>11. CASE op = "thermal_expansion"
  <2>1. {"coefficient_of_expansion", "length", "temperature_change"} \subseteq DOMAIN StrengthNeeds[op]
    BY <1>11 DEF StrengthNeeds, Numbers, AllPositive, ++
  <2>2. /\ a.coefficient_of_expansion \in Quantities /\ a.length \in Quantities
        /\ a.temperature_change \in Quantities
    BY <1>2, <2>1 DEF Fits, NoNumbers
  <2>3. Answers(Finish((a.coefficient_of_expansion \otimes (a.length \otimes a.temperature_change))))
    BY <2>2, ConstantsAreQuantities, ProductIsQuantity, QuantityAnswers
  <2> QED
    BY <1>11, <2>3 DEF StrengthOfMaterials
<1>12. CASE op = "bending_stress"
  <2>1. /\ {"area_moment_of_inertia", "distance_from_neutral_axis", "moment"} \subseteq DOMAIN StrengthNeeds[op]
        /\ StrengthNeeds[op]["area_moment_of_inertia"] = "positive"
    BY <1>12 DEF StrengthNeeds, Numbers, AllPositive, ++
  <2>2. /\ a.area_moment_of_inertia \in Quantities /\ a.distance_from_neutral_axis \in Quantities
        /\ a.moment \in Quantities /\ a.area_moment_of_inertia # Zero
    BY <1>2, <2>1 DEF Fits, NoNumbers
  <2>3. Answers(Finish(((a.moment \otimes a.distance_from_neutral_axis) \oslash a.area_moment_of_inertia)))
    BY <2>2, ConstantsAreQuantities, ProductIsQuantity, QuotientIsQuantity, QuantityAnswers
  <2> QED
    BY <1>12, <2>3 DEF StrengthOfMaterials
<1>14. op \in {"normal_stress", "shear_stress", "strain", "hookes_law", "youngs_modulus", "factor_of_safety", "thermal_strain", "thermal_expansion", "bending_stress"}
  BY <1>2 DEF DividesByProduct, StrengthNeeds
<1> QED
  BY <1>3, <1>4, <1>5, <1>7, <1>8, <1>9, <1>10, <1>11, <1>12, <1>14

\* Fluids at rest.
LEMMA FluidsAtRestIsQuantity ==
  ASSUME NEW op, NEW a, AllNumbers(a), Accepts(FluidsAtRestNeeds, op, a)
  PROVE  FluidsAtRest(op, a) \in Quantities
<1>1. AllNumbers(a)
  OBVIOUS
<1>2. op \in DOMAIN FluidsAtRestNeeds /\ \A n \in DOMAIN FluidsAtRestNeeds[op] : Fits(FluidsAtRestNeeds[op][n], n, a)
  BY <1>1, AcceptsFits
<1>3. CASE op = "pressure"
  <2>1. /\ {"area", "force"} \subseteq DOMAIN FluidsAtRestNeeds[op]
        /\ FluidsAtRestNeeds[op]["area"] = "positive"
    BY <1>3 DEF FluidsAtRestNeeds, NonNegative, ++
  <2>2. a.area \in Quantities /\ a.force \in Quantities /\ a.area # Zero
    BY <1>2, <2>1 DEF Fits, NoNumbers
  <2> QED
    BY <1>3, <2>2, ConstantsAreQuantities, QuotientIsQuantity DEF FluidsAtRest
<1>4. CASE op = "hydrostatic_pressure"
  <2>1. {"density", "depth", "gravity"} \subseteq DOMAIN FluidsAtRestNeeds[op]
    BY <1>4 DEF FluidsAtRestNeeds, NonNegative, ++
  <2>2. a.density \in Quantities /\ a.depth \in Quantities /\ a.gravity \in Quantities
    BY <1>2, <2>1 DEF Fits, NoNumbers
  <2> QED
    BY <1>4, <2>2, ConstantsAreQuantities, ProductIsQuantity DEF FluidsAtRest
<1>5. CASE op = "absolute_pressure"
  <2>1. {"atmospheric_pressure", "gauge_pressure"} \subseteq DOMAIN FluidsAtRestNeeds[op]
    BY <1>5 DEF FluidsAtRestNeeds, NonNegative, ++
  <2>2. a.atmospheric_pressure \in Quantities /\ a.gauge_pressure \in Quantities
    BY <1>2, <2>1 DEF Fits, NoNumbers
  <2> QED
    BY <1>5, <2>2, ConstantsAreQuantities, SumIsQuantity DEF FluidsAtRest
<1>6. CASE op = "gauge_pressure"
  <2>1. {"absolute_pressure", "atmospheric_pressure"} \subseteq DOMAIN FluidsAtRestNeeds[op]
    BY <1>6 DEF FluidsAtRestNeeds, NonNegative, ++
  <2>2. a.absolute_pressure \in Quantities /\ a.atmospheric_pressure \in Quantities
    BY <1>2, <2>1 DEF Fits, NoNumbers
  <2> QED
    BY <1>6, <2>2, ConstantsAreQuantities, DifferenceIsQuantity DEF FluidsAtRest
<1>7. CASE op = "density"
  <2>1. /\ {"mass", "volume"} \subseteq DOMAIN FluidsAtRestNeeds[op]
        /\ FluidsAtRestNeeds[op]["volume"] = "positive"
    BY <1>7 DEF FluidsAtRestNeeds, NonNegative, ++
  <2>2. a.mass \in Quantities /\ a.volume \in Quantities /\ a.volume # Zero
    BY <1>2, <2>1 DEF Fits, NoNumbers
  <2> QED
    BY <1>7, <2>2, ConstantsAreQuantities, QuotientIsQuantity DEF FluidsAtRest
<1>8. CASE op = "specific_weight"
  <2>1. {"density", "gravity"} \subseteq DOMAIN FluidsAtRestNeeds[op]
    BY <1>8 DEF FluidsAtRestNeeds, NonNegative, ++
  <2>2. a.density \in Quantities /\ a.gravity \in Quantities
    BY <1>2, <2>1 DEF Fits, NoNumbers
  <2> QED
    BY <1>8, <2>2, ConstantsAreQuantities, ProductIsQuantity DEF FluidsAtRest
<1>9. op \in {"pressure", "hydrostatic_pressure", "absolute_pressure", "gauge_pressure", "density", "specific_weight"}
  BY <1>2 DEF FluidsAtRestNeeds
<1> QED
  BY <1>3, <1>4, <1>5, <1>6, <1>7, <1>8, <1>9

\* Fluids in motion.
LEMMA FluidsInMotionIsQuantity ==
  ASSUME NEW op, NEW a, AllNumbers(a), Accepts(FluidsInMotionNeeds, op, a),
         op = "bernoulli_velocity" => ~Negative(VelocitySquared(a))
  PROVE  FluidsInMotion(op, a) \in Quantities
<1>1. AllNumbers(a)
  OBVIOUS
<1>2. op \in DOMAIN FluidsInMotionNeeds /\ \A n \in DOMAIN FluidsInMotionNeeds[op] : Fits(FluidsInMotionNeeds[op][n], n, a)
  BY <1>1, AcceptsFits
<1>3. CASE op = "continuity"
  <2>1. /\ {"area_1", "area_2", "velocity_1"} \subseteq DOMAIN FluidsInMotionNeeds[op]
        /\ FluidsInMotionNeeds[op]["area_2"] = "positive"
    BY <1>3 DEF FluidsInMotionNeeds, Numbers, NonNegative, AllPositive, ++
  <2>2. /\ a.area_1 \in Quantities /\ a.area_2 \in Quantities /\ a.velocity_1 \in Quantities
        /\ a.area_2 # Zero
    BY <1>2, <2>1 DEF Fits, NoNumbers
  <2> QED
    BY <1>3, <2>2, ConstantsAreQuantities, ProductIsQuantity, QuotientIsQuantity DEF FluidsInMotion
<1>4. CASE op = "volumetric_flow_rate"
  <2>1. {"area", "velocity"} \subseteq DOMAIN FluidsInMotionNeeds[op]
    BY <1>4 DEF FluidsInMotionNeeds, Numbers, NonNegative, AllPositive, ++
  <2>2. a.area \in Quantities /\ a.velocity \in Quantities
    BY <1>2, <2>1 DEF Fits, NoNumbers
  <2> QED
    BY <1>4, <2>2, ConstantsAreQuantities, ProductIsQuantity DEF FluidsInMotion
<1>5. CASE op = "mass_flow_rate"
  <2>1. {"density", "volumetric_flow_rate"} \subseteq DOMAIN FluidsInMotionNeeds[op]
    BY <1>5 DEF FluidsInMotionNeeds, Numbers, NonNegative, AllPositive, ++
  <2>2. a.density \in Quantities /\ a.volumetric_flow_rate \in Quantities
    BY <1>2, <2>1 DEF Fits, NoNumbers
  <2> QED
    BY <1>5, <2>2, ConstantsAreQuantities, ProductIsQuantity DEF FluidsInMotion
<1>6. CASE op = "dynamic_pressure"
  <2>1. {"density", "velocity"} \subseteq DOMAIN FluidsInMotionNeeds[op]
    BY <1>6 DEF FluidsInMotionNeeds, Numbers, NonNegative, AllPositive, ++
  <2>2. a.density \in Quantities /\ a.velocity \in Quantities
    BY <1>2, <2>1 DEF Fits, NoNumbers
  <2> QED
    BY <1>6, <2>2, ConstantsAreQuantities, ProductIsQuantity, UnaryIsQuantity DEF FluidsInMotion
<1>7. CASE op = "reynolds_number"
  <2>1. /\ {"characteristic_length", "density", "dynamic_viscosity", "velocity"} \subseteq DOMAIN FluidsInMotionNeeds[op]
        /\ FluidsInMotionNeeds[op]["dynamic_viscosity"] = "positive"
    BY <1>7 DEF FluidsInMotionNeeds, Numbers, NonNegative, AllPositive, ++
  <2>2. /\ a.characteristic_length \in Quantities /\ a.density \in Quantities
        /\ a.dynamic_viscosity \in Quantities /\ a.velocity \in Quantities
        /\ a.dynamic_viscosity # Zero
    BY <1>2, <2>1 DEF Fits, NoNumbers
  <2> QED
    BY <1>7, <2>2, ConstantsAreQuantities, ProductIsQuantity, QuotientIsQuantity DEF FluidsInMotion
<1>8. CASE op = "hydraulic_power"
  <2>1. {"density", "gravity", "head", "volumetric_flow_rate"} \subseteq DOMAIN FluidsInMotionNeeds[op]
    BY <1>8 DEF FluidsInMotionNeeds, Numbers, NonNegative, AllPositive, ++
  <2>2. /\ a.density \in Quantities /\ a.gravity \in Quantities /\ a.head \in Quantities
        /\ a.volumetric_flow_rate \in Quantities
    BY <1>2, <2>1 DEF Fits, NoNumbers
  <2> QED
    BY <1>8, <2>2, ConstantsAreQuantities, ProductIsQuantity DEF FluidsInMotion
<1>9. CASE op = "buoyant_force"
  <2>1. {"density", "displaced_volume", "gravity"} \subseteq DOMAIN FluidsInMotionNeeds[op]
    BY <1>9 DEF FluidsInMotionNeeds, Numbers, NonNegative, AllPositive, ++
  <2>2. a.density \in Quantities /\ a.displaced_volume \in Quantities /\ a.gravity \in Quantities
    BY <1>2, <2>1 DEF Fits, NoNumbers
  <2> QED
    BY <1>9, <2>2, ConstantsAreQuantities, ProductIsQuantity DEF FluidsInMotion
<1>10. CASE op = "bernoulli_velocity"
  <2>1. /\ {"density", "elevation_1", "elevation_2", "gravity", "pressure_1", "pressure_2", "velocity_1"} \subseteq DOMAIN FluidsInMotionNeeds[op]
        /\ FluidsInMotionNeeds[op]["density"] = "positive"
    BY <1>10 DEF FluidsInMotionNeeds, Numbers, NonNegative, AllPositive, ++
  <2>2. /\ a.density \in Quantities /\ a.elevation_1 \in Quantities /\ a.elevation_2 \in Quantities
        /\ a.gravity \in Quantities /\ a.pressure_1 \in Quantities /\ a.pressure_2 \in Quantities
        /\ a.velocity_1 \in Quantities /\ a.density # Zero
    BY <1>2, <2>1 DEF Fits, NoNumbers
  <2>3. VelocitySquared(a) \in Quantities
    BY <2>2, ConstantsAreQuantities, SumIsQuantity, DifferenceIsQuantity, ProductIsQuantity, QuotientIsQuantity, UnaryIsQuantity
       DEF VelocitySquared
  <2> QED
    BY <1>10, <2>3, RootIsQuantity DEF FluidsInMotion
<1>11. op \in {"continuity", "volumetric_flow_rate", "mass_flow_rate", "dynamic_pressure", "reynolds_number", "hydraulic_power", "buoyant_force", "bernoulli_velocity"}
  BY <1>2 DEF FluidsInMotionNeeds
<1> QED
  BY <1>3, <1>4, <1>5, <1>6, <1>7, <1>8, <1>9, <1>10, <1>11

\* Every operation of fluid_mechanics.
LEMMA FluidMechanicsAnswers ==
  ASSUME NEW op, NEW a, AllNumbers(a)
  PROVE  Answers(FluidMechanics(op, a))
BY FluidsAtRestIsQuantity, FluidsInMotionIsQuantity, QuantityAnswers DEF FluidMechanics, Answers

\* The ideal gas.
LEMMA IdealGasIsQuantity ==
  ASSUME NEW op, NEW a, AllNumbers(a), Accepts(IdealGasNeeds, op, a),
         <<"thermodynamics", op>> \notin DividesByProduct
  PROVE  IdealGas(op, a) \in Quantities
<1>1. AllNumbers(a)
  OBVIOUS
<1>2. op \in DOMAIN IdealGasNeeds /\ \A n \in DOMAIN IdealGasNeeds[op] : Fits(IdealGasNeeds[op][n], n, a)
  BY <1>1, AcceptsFits
<1>3. CASE op = "ideal_gas_pressure"
  <2>1. /\ {"gas_constant", "moles", "temperature", "volume"} \subseteq DOMAIN IdealGasNeeds[op]
        /\ IdealGasNeeds[op]["volume"] = "positive"
    BY <1>3 DEF IdealGasNeeds, AllPositive, ++
  <2>2. /\ a.gas_constant \in Quantities /\ a.moles \in Quantities /\ a.temperature \in Quantities
        /\ a.volume \in Quantities /\ a.volume # Zero
    BY <1>2, <2>1 DEF Fits, NoNumbers
  <2> QED
    BY <1>3, <2>2, ConstantsAreQuantities, ProductIsQuantity, QuotientIsQuantity DEF IdealGas
<1>4. CASE op = "ideal_gas_volume"
  <2>1. /\ {"gas_constant", "moles", "pressure", "temperature"} \subseteq DOMAIN IdealGasNeeds[op]
        /\ IdealGasNeeds[op]["pressure"] = "positive"
    BY <1>4 DEF IdealGasNeeds, AllPositive, ++
  <2>2. /\ a.gas_constant \in Quantities /\ a.moles \in Quantities /\ a.pressure \in Quantities
        /\ a.temperature \in Quantities /\ a.pressure # Zero
    BY <1>2, <2>1 DEF Fits, NoNumbers
  <2> QED
    BY <1>4, <2>2, ConstantsAreQuantities, ProductIsQuantity, QuotientIsQuantity DEF IdealGas
<1>8. CASE op = "specific_gas_constant"
  <2>1. /\ {"molar_mass", "universal_gas_constant"} \subseteq DOMAIN IdealGasNeeds[op]
        /\ IdealGasNeeds[op]["molar_mass"] = "positive"
    BY <1>8 DEF IdealGasNeeds, AllPositive, ++
  <2>2. /\ a.molar_mass \in Quantities /\ a.universal_gas_constant \in Quantities
        /\ a.molar_mass # Zero
    BY <1>2, <2>1 DEF Fits, NoNumbers
  <2> QED
    BY <1>8, <2>2, ConstantsAreQuantities, QuotientIsQuantity DEF IdealGas
<1>9. op \in {"ideal_gas_pressure", "ideal_gas_volume", "specific_gas_constant"}
  BY <1>2 DEF DividesByProduct, IdealGasNeeds
<1> QED
  BY <1>3, <1>4, <1>8, <1>9

\* Heat and work.
LEMMA HeatIsQuantity ==
  ASSUME NEW op, NEW a, AllNumbers(a), Accepts(HeatNeeds, op, a),
         <<"thermodynamics", op>> \notin DividesByProduct
  PROVE  Heat(op, a) \in Quantities
<1>1. AllNumbers(a)
  OBVIOUS
<1>2. op \in DOMAIN HeatNeeds /\ \A n \in DOMAIN HeatNeeds[op] : Fits(HeatNeeds[op][n], n, a)
  BY <1>1, AcceptsFits
<1>3. CASE op = "heat_transfer"
  <2>1. {"mass", "specific_heat", "temperature_change"} \subseteq DOMAIN HeatNeeds[op]
    BY <1>3 DEF HeatNeeds, Numbers, NonNegative, AllPositive, ++
  <2>2. /\ a.mass \in Quantities /\ a.specific_heat \in Quantities
        /\ a.temperature_change \in Quantities
    BY <1>2, <2>1 DEF Fits, NoNumbers
  <2> QED
    BY <1>3, <2>2, ConstantsAreQuantities, ProductIsQuantity DEF Heat
<1>4. CASE op = "sensible_heat"
  <2>1. {"mass", "specific_heat_capacity", "temperature_change"} \subseteq DOMAIN HeatNeeds[op]
    BY <1>4 DEF HeatNeeds, Numbers, NonNegative, AllPositive, ++
  <2>2. /\ a.mass \in Quantities /\ a.specific_heat_capacity \in Quantities
        /\ a.temperature_change \in Quantities
    BY <1>2, <2>1 DEF Fits, NoNumbers
  <2> QED
    BY <1>4, <2>2, ConstantsAreQuantities, ProductIsQuantity DEF Heat
<1>5. CASE op = "latent_heat"
  <2>1. {"latent_heat", "mass"} \subseteq DOMAIN HeatNeeds[op]
    BY <1>5 DEF HeatNeeds, Numbers, NonNegative, AllPositive, ++
  <2>2. a.latent_heat \in Quantities /\ a.mass \in Quantities
    BY <1>2, <2>1 DEF Fits, NoNumbers
  <2> QED
    BY <1>5, <2>2, ConstantsAreQuantities, ProductIsQuantity DEF Heat
<1>6. CASE op = "thermal_efficiency"
  <2>1. /\ {"heat_input", "work_output"} \subseteq DOMAIN HeatNeeds[op]
        /\ HeatNeeds[op]["heat_input"] = "positive"
    BY <1>6 DEF HeatNeeds, Numbers, NonNegative, AllPositive, ++
  <2>2. a.heat_input \in Quantities /\ a.work_output \in Quantities /\ a.heat_input # Zero
    BY <1>2, <2>1 DEF Fits, NoNumbers
  <2> QED
    BY <1>6, <2>2, ConstantsAreQuantities, QuotientIsQuantity DEF Heat
<1>7. CASE op = "coefficient_of_performance_refrigerator"
  <2>1. /\ {"cooling_effect", "work_input"} \subseteq DOMAIN HeatNeeds[op]
        /\ HeatNeeds[op]["work_input"] = "positive"
    BY <1>7 DEF HeatNeeds, Numbers, NonNegative, AllPositive, ++
  <2>2. a.cooling_effect \in Quantities /\ a.work_input \in Quantities /\ a.work_input # Zero
    BY <1>2, <2>1 DEF Fits, NoNumbers
  <2> QED
    BY <1>7, <2>2, ConstantsAreQuantities, QuotientIsQuantity DEF Heat
<1>8. CASE op = "coefficient_of_performance_heat_pump"
  <2>1. /\ {"heating_effect", "work_input"} \subseteq DOMAIN HeatNeeds[op]
        /\ HeatNeeds[op]["work_input"] = "positive"
    BY <1>8 DEF HeatNeeds, Numbers, NonNegative, AllPositive, ++
  <2>2. a.heating_effect \in Quantities /\ a.work_input \in Quantities /\ a.work_input # Zero
    BY <1>2, <2>1 DEF Fits, NoNumbers
  <2> QED
    BY <1>8, <2>2, ConstantsAreQuantities, QuotientIsQuantity DEF Heat
<1>9. CASE op = "first_law_closed_system"
  <2>1. {"heat_transfer", "work_output"} \subseteq DOMAIN HeatNeeds[op]
    BY <1>9 DEF HeatNeeds, Numbers, NonNegative, AllPositive, ++
  <2>2. a.heat_transfer \in Quantities /\ a.work_output \in Quantities
    BY <1>2, <2>1 DEF Fits, NoNumbers
  <2> QED
    BY <1>9, <2>2, ConstantsAreQuantities, DifferenceIsQuantity DEF Heat
<1>11. op \in {"heat_transfer", "sensible_heat", "latent_heat", "thermal_efficiency", "coefficient_of_performance_refrigerator", "coefficient_of_performance_heat_pump", "first_law_closed_system"}
  BY <1>2 DEF DividesByProduct, HeatNeeds
<1> QED
  BY <1>3, <1>4, <1>5, <1>6, <1>7, <1>8, <1>9, <1>11

\* The operations of thermodynamics that divide by no product.
LEMMA ThermodynamicsAnswers ==
  ASSUME NEW op, NEW given, AllNumbers(given), <<"thermodynamics", op>> \notin DividesByProduct
  PROVE  Answers(Thermodynamics(op, given))
<1> DEFINE a == WithDefault(given, "gas_constant", UniversalGasConstant)
<1>1. AllNumbers(a)
  BY WholeIsFraction DEF AllNumbers, WithDefault, NoNumbers, UniversalGasConstant
<1> HIDE DEF a
<1>2. Accepts(IdealGasNeeds, op, a) => Answers(Finish(IdealGas(op, a)))
  BY <1>1, IdealGasIsQuantity, QuantityAnswers
<1>3. Accepts(HeatNeeds, op, a) => Answers(Finish(Heat(op, a)))
  BY <1>1, HeatIsQuantity, QuantityAnswers
<1> QED
  BY <1>2, <1>3 DEF Thermodynamics, Answers, a

-----------------------------------------------------------------------------
(* Circuits *)

\* A function on an initial interval is a sequence.
LEMMA FunctionIsSequence ==
  ASSUME NEW S, NEW n \in Nat, NEW f \in [1..n -> S]
  PROVE  f \in Seq(S) /\ Len(f) = n
<1>1. f \in Seq(S)
  OBVIOUS
<1>2. DOMAIN f = 1..n
  OBVIOUS
<1> QED
  BY <1>1, <1>2

\* Two of voltage, current and resistance are known only if one is not.
LEMMA OneIsUnknown ==
  ASSUME NEW a, TwoAreKnown(a)
  PROVE  ~(Electric \subseteq DOMAIN a)
<1> SUFFICES ASSUME Electric \subseteq DOMAIN a PROVE FALSE
  OBVIOUS
<1>1. Cardinality(Electric) = 2
  <2>1. Known(a) = Electric
    BY DEF Known
  <2> QED
    BY <2>1 DEF TwoAreKnown
<1>2. IsFiniteSet({"voltage"}) /\ Cardinality({"voltage"}) = 1
  BY FS_Singleton
<1>3. IsFiniteSet({"voltage"} \cup {"current"}) /\ Cardinality({"voltage"} \cup {"current"}) = 2
  <2> DEFINE S == {"voltage"}
  <2>1. "current" \notin S
    OBVIOUS
  <2>2. IsFiniteSet(S) /\ Cardinality(S) = 1
    BY <1>2
  <2> HIDE DEF S
  <2>3. IsFiniteSet(S \cup {"current"}) /\ Cardinality(S \cup {"current"}) = Cardinality(S) + 1
    BY <2>1, <2>2, FS_AddElement
  <2>4. IsFiniteSet(S \cup {"current"}) /\ Cardinality(S \cup {"current"}) = 2
    BY <2>2, <2>3
  <2> QED
    BY <2>4 DEF S
<1>4. Cardinality(({"voltage"} \cup {"current"}) \cup {"resistance"}) = 3
  <2> DEFINE S == {"voltage"} \cup {"current"}
  <2>1. "resistance" \notin S
    OBVIOUS
  <2>2. IsFiniteSet(S) /\ Cardinality(S) = 2
    BY <1>3
  <2> HIDE DEF S
  <2>3. Cardinality(S \cup {"resistance"}) = Cardinality(S) + 1
    BY <2>1, <2>2, FS_AddElement
  <2>4. Cardinality(S \cup {"resistance"}) = 3
    BY <2>2, <2>3
  <2> QED
    BY <2>4 DEF S
<1>5. ({"voltage"} \cup {"current"}) \cup {"resistance"} = Electric
  BY DEF Electric
<1> QED
  BY <1>1, <1>4, <1>5

\* Ohm's law gives the third quantity or refuses.
LEMMA OhmsLawAnswers ==
  ASSUME NEW a
  PROVE  Answers(OhmsLaw(a))
BY OneIsUnknown DEF OhmsLaw, Answers, Electric

\* So does the power.
LEMMA PowerAnswers ==
  ASSUME NEW a
  PROVE  Answers(Power(a))
BY DEF Power, Answers

\* The resistance of positive resistors in parallel has a positive reciprocal.
LEMMA CombinedAnswers ==
  ASSUME NEW op, NEW a, "resistances" \in DOMAIN a => a.resistances \in Seq(Fractions)
  PROVE  Answers(Combined(op, a))
<1> DEFINE s == a.resistances
           reciprocals == [i \in DOMAIN a.resistances |-> One \oslash a.resistances[i]]
<1> SUFFICES ASSUME "resistances" \in DOMAIN a, s # <<>>, \A i \in DOMAIN s : Positive(s[i])
             PROVE  Answers(Combined(op, a))
  BY DEF Combined, Answers
<1>1. s \in Seq(Fractions) /\ DOMAIN s = 1..Len(s) /\ Len(s) \in Nat /\ Len(s) # 0
  OBVIOUS
<1>2. \A i \in 1..Len(s) : s[i] \in Fractions
  BY <1>1
<1>3. SumOf(s) \in Quantities
  <2>1. s \in Seq(Quantities)
    BY <1>1, FractionsAreQuantities
  <2> QED
    BY <2>1, SumOfQuantities
<1>4. \A i \in 1..Len(s) : One \oslash s[i] \in NotNegative /\ Positive(One \oslash s[i])
  <2>1. One \in NotNegative /\ Positive(One)
    BY WholeIsFraction, PositiveIsNotNegative
  <2> QED
    BY <1>1, <1>2, <2>1, SignOfQuotient
<1>5. reciprocals \in [1..Len(s) -> NotNegative] /\ \A i \in 1..Len(s) : Positive(reciprocals[i])
  BY <1>1, <1>4
<1>6. Combined(op, a) = Finish(IF op = "series_resistance" THEN SumOf(s) ELSE One \oslash SumOf(reciprocals))
  BY DEF Combined
<1> HIDE DEF s, reciprocals
<1>7. reciprocals \in Seq(NotNegative) /\ Len(reciprocals) = Len(s)
  BY <1>1, <1>5, FunctionIsSequence
<1>8. SumOf(reciprocals) \in NotNegative /\ Positive(SumOf(reciprocals))
  BY <1>1, <1>5, <1>7, SumOfNotNegative
<1>9. One \oslash SumOf(reciprocals) \in Quantities
  <2>1. SumOf(reciprocals) \in Quantities /\ SumOf(reciprocals) # Zero
    BY <1>8, NotNegativeIs, FractionsAreQuantities
  <2> QED
    BY <2>1, ConstantsAreQuantities, QuotientIsQuantity
<1> QED
  BY <1>3, <1>6, <1>9, QuantityAnswers

\* The sum of two positive resistances divides.
LEMMA ShareIsQuantity ==
  ASSUME NEW whole \in Quantities, NEW part \in Fractions, NEW other \in Fractions,
         Positive(part), Positive(other)
  PROVE  Share(whole, part, other) \in Quantities
<1>1. part \oplus other \in NotNegative /\ Positive(part \oplus other)
  BY PositiveIsNotNegative, SignOfSum
<1>2. part \oplus other \in Quantities /\ part \oplus other # Zero /\ part \in Quantities
  BY <1>1, NotNegativeIs, FractionsAreQuantities
<1> QED
  BY <1>2, ProductIsQuantity, QuotientIsQuantity DEF Share

\* The dividers, the energy and the time constants.
LEMMA NetworkAnswers ==
  ASSUME NEW op, NEW a, AllNumbers(a), Accepts(CircuitNeeds, op, a)
  PROVE  Answers(Network(op, a))
<1>1. AllNumbers(a)
  OBVIOUS
<1>2. op \in DOMAIN CircuitNeeds /\ \A n \in DOMAIN CircuitNeeds[op] : Fits(CircuitNeeds[op][n], n, a)
  BY <1>1, AcceptsFits
<1>3. CASE op = "voltage_divider"
  <2>1. /\ {"input_voltage", "r1", "r2"} \subseteq DOMAIN CircuitNeeds[op]
        /\ CircuitNeeds[op]["r1"] = "positive"
        /\ CircuitNeeds[op]["r2"] = "positive"
    BY <1>3 DEF CircuitNeeds, NonNegative, AllPositive, ++
  <2>2. /\ a.input_voltage \in Quantities /\ a.r1 \in Quantities /\ a.r2 \in Quantities
        /\ a.r1 # Zero /\ a.r2 # Zero
    BY <1>2, <2>1 DEF Fits, NoNumbers
  <2>3. Answers(Finish(Share(a.input_voltage, a.r2, a.r1)))
    BY <1>2, <2>1, <2>2, ShareIsQuantity, QuantityAnswers DEF Fits, NoNumbers
  <2> QED
    BY <1>3, <2>3 DEF Network
<1>4. CASE op = "current_divider"
  <2>1. {"total_current"} \subseteq DOMAIN CircuitNeeds[op]
    BY <1>4 DEF CircuitNeeds, NonNegative, AllPositive, ++
  <2>2. a.total_current \in Quantities
    BY <1>2, <2>1 DEF Fits, NoNumbers
  <2> QED
    BY <1>4 DEF Network, Answers
<1>5. CASE op = "energy"
  <2>1. {"power", "time_seconds"} \subseteq DOMAIN CircuitNeeds[op]
    BY <1>5 DEF CircuitNeeds, NonNegative, AllPositive, ++
  <2>2. a.power \in Quantities /\ a.time_seconds \in Quantities
    BY <1>2, <2>1 DEF Fits, NoNumbers
  <2>3. Answers(Finish((a.power \otimes a.time_seconds)))
    BY <2>2, ConstantsAreQuantities, ProductIsQuantity, QuantityAnswers
  <2> QED
    BY <1>5, <2>3 DEF Network
<1>6. CASE op = "rc_time_constant"
  <2>1. {"capacitance_farads", "resistance_ohms"} \subseteq DOMAIN CircuitNeeds[op]
    BY <1>6 DEF CircuitNeeds, NonNegative, AllPositive, ++
  <2>2. a.capacitance_farads \in Quantities /\ a.resistance_ohms \in Quantities
    BY <1>2, <2>1 DEF Fits, NoNumbers
  <2>3. Answers(Finish((a.resistance_ohms \otimes a.capacitance_farads)))
    BY <2>2, ConstantsAreQuantities, ProductIsQuantity, QuantityAnswers
  <2> QED
    BY <1>6, <2>3 DEF Network
<1>7. CASE op = "rl_time_constant"
  <2>1. /\ {"inductance_henries", "resistance_ohms"} \subseteq DOMAIN CircuitNeeds[op]
        /\ CircuitNeeds[op]["resistance_ohms"] = "positive"
    BY <1>7 DEF CircuitNeeds, NonNegative, AllPositive, ++
  <2>2. /\ a.inductance_henries \in Quantities /\ a.resistance_ohms \in Quantities
        /\ a.resistance_ohms # Zero
    BY <1>2, <2>1 DEF Fits, NoNumbers
  <2>3. Answers(Finish((a.inductance_henries \oslash a.resistance_ohms)))
    BY <2>2, ConstantsAreQuantities, QuotientIsQuantity, QuantityAnswers
  <2> QED
    BY <1>7, <2>3 DEF Network
<1>8. op \in {"voltage_divider", "current_divider", "energy", "rc_time_constant", "rl_time_constant"}
  BY <1>2 DEF CircuitNeeds
<1> QED
  BY <1>3, <1>4, <1>5, <1>6, <1>7, <1>8

\* Every operation of circuit_analysis.
LEMMA CircuitAnalysisAnswers ==
  ASSUME NEW op, NEW a, AllNumbers(a), "resistances" \in DOMAIN a => a.resistances \in Seq(Fractions)
  PROVE  Answers(CircuitAnalysis(op, a))
<1>1. Answers(OhmsLaw(a)) /\ Answers(Power(a)) /\ Answers(Combined(op, a))
  BY OhmsLawAnswers, PowerAnswers, CombinedAnswers
<1>2. Accepts(CircuitNeeds, op, a) => Answers(Network(op, a))
  BY NetworkAnswers
<1> QED
  BY <1>1, <1>2 DEF CircuitAnalysis, Answers

-----------------------------------------------------------------------------
(* Vectors and complex numbers *)

\* The sum of the products of two vectors of one dimension.
LEMMA DotIsFraction ==
  ASSUME NEW u \in Seq(Fractions), NEW v \in Seq(Fractions), Len(u) = Len(v)
  PROVE  Dot(u, v) \in Fractions
<1> DEFINE f == [i \in DOMAIN u |-> u[i] \otimes v[i]]
<1>1. DOMAIN u = 1..Len(u) /\ Len(u) \in Nat /\ \A i \in 1..Len(u) : u[i] \in Fractions /\ v[i] \in Fractions
  OBVIOUS
<1>2. f \in [1..Len(u) -> Fractions]
  BY <1>1, FractionsAreClosed
<1>3. Dot(u, v) = SumOf(f)
  BY DEF Dot
<1> HIDE DEF f
<1>4. f \in Seq(Fractions)
  BY <1>1, <1>2, FunctionIsSequence
<1> QED
  BY <1>3, <1>4, SumOfFractions

\* The sum of squares, which is zero only when all of them are.
LEMMA DotOfItself ==
  ASSUME NEW u \in Seq(Fractions)
  PROVE  Dot(u, u) \in NotNegative /\ (~IsZero(u) => Positive(Dot(u, u)))
<1> DEFINE f == [i \in DOMAIN u |-> u[i] \otimes u[i]]
<1>1. DOMAIN u = 1..Len(u) /\ Len(u) \in Nat /\ \A i \in 1..Len(u) : u[i] \in Fractions
  OBVIOUS
<1>2. \A i \in 1..Len(u) : f[i] \in NotNegative /\ (u[i] # Zero => Positive(f[i]))
  BY <1>1, SignOfSquare
<1>3. f \in [1..Len(u) -> NotNegative]
  BY <1>1, <1>2
<1>4. Dot(u, u) = SumOf(f)
  BY DEF Dot
<1>5. ~IsZero(u) => \E i \in 1..Len(u) : Positive(f[i])
  BY <1>1, <1>2 DEF IsZero
<1> HIDE DEF f
<1>6. f \in Seq(NotNegative) /\ Len(f) = Len(u)
  BY <1>1, <1>3, FunctionIsSequence
<1> QED
  BY <1>4, <1>5, <1>6, SumOfNotNegative

\* The length of a vector, which divides unless the vector is zero.
LEMMA MagnitudeIsQuantity ==
  ASSUME NEW u \in Seq(Fractions)
  PROVE  VectorMagnitude(u) \in Quantities /\ (~IsZero(u) => VectorMagnitude(u) # Zero)
<1>1. Dot(u, u) \in Quantities /\ ~Negative(Dot(u, u)) /\ (~IsZero(u) => Dot(u, u) # Zero)
  BY DotOfItself, NotNegativeIs, FractionsAreQuantities DEF NotNegative
<1> QED
  BY <1>1, RootIsQuantity DEF VectorMagnitude

\* What schema validation admits as a vector and a scalar.
Vectors(a) ==
  /\ \A n \in {"vector", "left", "right"} \cap DOMAIN a : a[n] \in Seq(Fractions)
  /\ "scalar" \in DOMAIN a => a.scalar \in Fractions

\* Every operation of vector_math.
LEMMA VectorToolAnswers ==
  ASSUME NEW op, NEW a, Vectors(a)
  PROVE  Answers(VectorTool(op, a))
<1>1. Single(a) => Answers(Finish(VectorMagnitude(a.vector)))
  BY MagnitudeIsQuantity, QuantityAnswers DEF Single, Given, Vectors
<1>2. Alike(a) => a.left \in Seq(Fractions) /\ a.right \in Seq(Fractions) /\ Len(a.left) = Len(a.right)
  BY DEF Alike, Given, Vectors
<1>3. Alike(a) => Dot(a.left, a.right) \in Quantities
  BY <1>2, DotIsFraction, FractionsAreQuantities
<1>4. ASSUME Alike(a), ~IsZero(a.left), ~IsZero(a.right)
      PROVE  Answers(Finish(Acos(Cosine(a.left, a.right))))
  <2>1. /\ VectorMagnitude(a.left) \otimes VectorMagnitude(a.right) \in Quantities
        /\ VectorMagnitude(a.left) \otimes VectorMagnitude(a.right) # Zero
    BY <1>2, <1>4, MagnitudeIsQuantity, ProductIsQuantity
  <2>2. Cosine(a.left, a.right) \in Quantities
    BY <1>3, <1>4, <2>1, QuotientIsQuantity DEF Cosine
  <2>3. Acos(Cosine(a.left, a.right)) \in Quantities
    BY <2>2, ConstantsAreQuantities, QuantityParts, TaintedIsInexact DEF Acos, Tainted
  <2> QED
    BY <2>3, QuantityAnswers
<1>5. Alike(a) => Answers(Finish(Dot(a.left, a.right)))
  BY <1>3, QuantityAnswers
<1>6. Answers(Refused) /\ \A v : Answers(Value(v))
  BY DEF Answers
<1>7. CASE op \in {"magnitude", "dot", "angle"}
  BY <1>1, <1>4, <1>5, <1>6, <1>7 DEF VectorTool
<1>8. CASE op \notin {"magnitude", "dot", "angle"}
  BY <1>6, <1>8 DEF VectorTool
<1> QED
  BY <1>7, <1>8

ComplexNumbers == [real : Fractions, imaginary : Fractions]

\* Every operation of complex_math.
LEMMA ComplexToolAnswers ==
  ASSUME NEW op, NEW a, \A n \in {"value", "left", "right"} \cap DOMAIN a : a[n] \in ComplexNumbers
  PROVE  Answers(ComplexTool(op, a))
<1>1. Given(a, {"value"}) => Answers(Finish(Modulus(a.value)))
  BY HypotenuseIs, QuantityAnswers DEF Given, ComplexNumbers, Modulus
<1>2. Answers(Refused) /\ \A v : Answers(Value(v))
  BY DEF Answers
<1> QED
  BY <1>1, <1>2 DEF ComplexTool
-----------------------------------------------------------------------------
(* Probability *)

\* What goes from a first value on by steps in a set stays in the set.
LEMMA StaysIn ==
  ASSUME NEW n \in Nat, NEW S, NEW f, f[0] \in S, \A i \in 1..n : f[i - 1] \in S => f[i] \in S
  PROVE  \A i \in 0..n : f[i] \in S
<1> DEFINE T == {i \in 0..n : f[i] \in S}
<1>1. 0 \in T /\ \A i \in 1..n : i - 1 \in T => i \in T
  OBVIOUS
<1> HIDE DEF T
<1>2. \A i \in 0..n : i \in T
  BY <1>1, InductionAlong
<1> QED
  BY <1>2 DEF T

\* A power with a natural exponent.
LEMMA PowerIsQuantity ==
  ASSUME NEW q \in Quantities, NEW n \in Nat
  PROVE  PowerOf(q, n) \in Quantities
<1> DEFINE Body(f) == [i \in 0..n |-> IF i = 0 THEN One ELSE f[i - 1] \otimes q]
           power == CHOOSE f : f = Body(f)
           step == [i \in 1..n |-> [p \in Quantities |-> p \otimes q]]
<1>1. One \in Quantities /\ step \in [1..n -> [Quantities -> Quantities]]
  BY ConstantsAreQuantities, ProductIsQuantity
<1>2. \A i \in 1..n : \A p \in Quantities : step[i][p] = p \otimes q
  OBVIOUS
<1> HIDE DEF step
<1>3. PICK f \in [0..n -> Quantities] : Recursion(n, One, step, f)
  BY <1>1, RecursionExists
<1>4. f = Body(f)
  <2>1. ASSUME NEW i \in 0..n PROVE f[i] = IF i = 0 THEN One ELSE f[i - 1] \otimes q
    <3>1. i # 0 => i \in 1..n /\ i - 1 \in 0..n
      OBVIOUS
    <3> QED
      BY <1>2, <1>3, <3>1 DEF Recursion
  <2> QED
    BY <2>1
<1>5. power = Body(power)
  BY <1>4
<1>6. PowerOf(q, n) = power[n]
  BY DEF PowerOf
<1> HIDE DEF power
<1>7. Body(power)[0] = One /\ \A i \in 1..n : Body(power)[i] = power[i - 1] \otimes q
  OBVIOUS
<1> HIDE DEF Body
<1>8. power[0] \in Quantities /\ \A i \in 1..n : power[i - 1] \in Quantities => power[i] \in Quantities
  BY <1>1, <1>5, <1>7, ProductIsQuantity
<1>9. \A i \in 0..n : power[i] \in Quantities
  BY <1>8, StaysIn
<1> QED
  BY <1>6, <1>9

\* A binomial coefficient is a whole number.
LEMMA ChooseIsInteger ==
  ASSUME NEW n \in Nat, NEW k \in 0..n
  PROVE  Choose(n, k) \in Int
<1> DEFINE S == [0..n -> Int]
           Row(f, m) == [j \in 0..n |-> CASE j = 0 \/ j = m -> 1
                                          [] j > m -> 0
                                          [] OTHER -> f[m - 1][j - 1] + f[m - 1][j]]
           Body(f) == [m \in 0..n |-> Row(f, m)]
           row == CHOOSE f : f = Body(f)
           Next1(m, r) == [j \in 0..n |-> IF j = 0 \/ j = m THEN 1 ELSE IF j > m THEN 0 ELSE r[j - 1] + r[j]]
           base == [j \in 0..n |-> IF j = 0 THEN 1 ELSE 0]
           step == [m \in 1..n |-> [r \in S |-> Next1(m, r)]]
<1>1. base \in S
  OBVIOUS
<1>2. ASSUME NEW m \in 1..n, NEW r \in S PROVE Next1(m, r) \in S
  OBVIOUS
<1>3. step \in [1..n -> [S -> S]]
  BY <1>2
<1>4. \A m \in 1..n : \A r \in S : step[m][r] = Next1(m, r)
  OBVIOUS
<1>5. ASSUME NEW f PROVE Row(f, 0) = base /\ \A m \in 1..n : Row(f, m) = Next1(m, f[m - 1])
  <2>1. \A j \in 0..n : Row(f, 0)[j] = base[j]
    OBVIOUS
  <2>2. \A m \in 1..n : \A j \in 0..n : Row(f, m)[j] = Next1(m, f[m - 1])[j]
    OBVIOUS
  <2> QED
    BY <2>1, <2>2
<1> HIDE DEF step, base, Next1, S, Row
<1>6. PICK f \in [0..n -> S] : Recursion(n, base, step, f)
  BY <1>1, <1>3, RecursionExists
<1>7. f = Body(f)
  <2>1. ASSUME NEW m \in 0..n PROVE f[m] = Row(f, m)
    <3>1. m # 0 => m \in 1..n /\ m - 1 \in 0..n
      OBVIOUS
    <3> QED
      BY <1>4, <1>5, <1>6, <3>1 DEF Recursion
  <2> QED
    BY <2>1
<1>8. row = Body(row)
  BY <1>7
<1>9. Choose(n, k) = row[n][k]
  BY DEF Choose, Row
<1> HIDE DEF row
<1>10. \A m \in 0..n : Body(row)[m] = Row(row, m)
  OBVIOUS
<1> HIDE DEF Body
<1>11. row[0] \in S /\ \A m \in 1..n : row[m - 1] \in S => row[m] \in S
  BY <1>1, <1>2, <1>5, <1>8, <1>10
<1>12. \A m \in 0..n : row[m] \in S
  BY <1>11, StaysIn
<1> QED
  BY <1>9, <1>12 DEF S

\* What schema validation admits as the arguments of a distribution.
Counts(a) ==
  /\ \A n \in {"n", "k"} \cap DOMAIN a : a[n] \in Fractions /\ a[n][2] = 1
  /\ "p" \in DOMAIN a => a.p \in Fractions

\* probability raises an error that is not its own only when an argument is missing.
LEMMA ProbabilityAnswers ==
  ASSUME NEW op, NEW given, Counts(given)
  PROVE  \/ Answers(ProbabilityTool(op, given))
         \/ op = "binomial" /\ ~({"n", "k", "p"} \subseteq DOMAIN given)
         \/ op # "binomial" /\ ~({"x"} \subseteq DOMAIN given)
<1> DEFINE a == WithDefault(given, "stddev", One)
<1>1. /\ Counts(a)
      /\ {"n", "k", "p"} \subseteq DOMAIN given => Given(a, {"n", "k", "p"})
      /\ {"x"} \subseteq DOMAIN given => Given(a, {"x"})
  BY DEF Counts, Given, WithDefault
<1> HIDE DEF a
<1>2. ASSUME Given(a, {"n", "k", "p"}), Zero \preceq a.k, a.k \preceq a.n
      PROVE  Answers(Finish(Binomial(a.n[1], a.k[1], a.p)))
  <2> DEFINE n == a.n[1]  k == a.k[1]
  <2>1. a.n \in Fractions /\ a.n[2] = 1 /\ a.k \in Fractions /\ a.k[2] = 1 /\ a.p \in Quantities
    BY <1>1, <1>2, FractionsAreQuantities DEF Counts, Given
  <2>2. n \in Int /\ k \in Int
    BY <2>1, FractionParts
  <2>3. 0 <= k /\ k <= n
    BY <1>2, <2>1, <2>2 DEF \preceq, Zero, Whole
  <2>4. Binomial(a.n[1], a.k[1], a.p) = Binomial(n, k, a.p)
    OBVIOUS
  <2> HIDE DEF n, k
  <2>5. n \in Nat /\ k \in 0..n /\ k \in Nat /\ n - k \in Nat
    BY <2>2, <2>3
  <2>6. Whole(Choose(n, k)) \in Quantities
    BY <2>5, ChooseIsInteger, ConstantsAreQuantities
  <2>7. One \ominus a.p \in Quantities
    BY <2>1, ConstantsAreQuantities, DifferenceIsQuantity
  <2>8. PowerOf(a.p, k) \in Quantities /\ PowerOf(One \ominus a.p, n - k) \in Quantities
    BY <2>1, <2>5, <2>7, PowerIsQuantity
  <2>9. Binomial(n, k, a.p) \in Quantities
    BY <2>6, <2>8, ProductIsQuantity DEF Binomial
  <2> QED
    BY <2>4, <2>9, QuantityAnswers
<1>3. Answers(Refused) /\ \A v : Answers(Value(v))
  BY DEF Answers
<1>4. CASE op = "binomial"
  BY <1>1, <1>2, <1>3, <1>4 DEF ProbabilityTool, a
<1>5. CASE op # "binomial"
  BY <1>1, <1>3, <1>5 DEF ProbabilityTool, a
<1> QED
  BY <1>4, <1>5

-----------------------------------------------------------------------------
(* Matrices *)

\* A set of natural numbers that is not empty has a least element.
LEMMA LeastExists ==
  ASSUME NEW T, T \subseteq Nat, T # {}
  PROVE  \E i \in T : \A j \in T : i <= j
<1> SUFFICES ASSUME \A i \in T : \E j \in T : ~(i <= j) PROVE FALSE
  OBVIOUS
<1> DEFINE U == {k \in Nat : \A i \in 0..k : i \notin T}
<1>1. 0 \in U
  OBVIOUS
<1>2. ASSUME NEW k \in Nat, k \in U PROVE k + 1 \in U
  <2>1. \A i \in 0..k : i \notin T
    BY <1>2
  <2>2. k + 1 \notin T
    BY <2>1
  <2> QED
    BY <2>1, <2>2
<1> HIDE DEF U
<1>3. \A k \in Nat : k \in U
  BY <1>1, <1>2, SetInduction
<1>4. \A k \in Nat : k \notin T
  BY <1>3 DEF U
<1> QED
  BY <1>4

\* The first element of a set of places.
LEMMA FirstIs ==
  ASSUME NEW T, T \subseteq Nat, T # {}, NEW i, i = CHOOSE j \in T : \A k \in T : j <= k
  PROVE  i \in T /\ \A k \in T : i <= k
BY LeastExists

\* Among finitely many fractions there is a largest.
LEMMA LargestExists ==
  ASSUME NEW p \in Nat, NEW l \in Nat, NEW f, \A i \in p..(p + l) : f[i] \in Fractions
  PROVE  \E r \in p..(p + l) : \A s \in p..(p + l) : f[s] \preceq f[r]
<1> DEFINE Bounds(k, r) == r \in p..(p + k) /\ \A s \in p..(p + k) : f[s] \preceq f[r]
           T == {k \in 0..l : \E r : Bounds(k, r)}
<1>1. 0 \in T
  <2>1. p \in p..(p + 0) /\ \A s \in p..(p + 0) : s = p
    OBVIOUS
  <2>2. f[p] \preceq f[p]
    BY OrderIsTotal
  <2>3. Bounds(0, p)
    BY <2>1, <2>2
  <2> QED
    BY <2>3
<1>2. ASSUME NEW k \in 1..l, k - 1 \in T PROVE k \in T
  <2>1. PICK r : Bounds(k - 1, r)
    BY <1>2
  <2> DEFINE t == p + k
  <2>2. /\ r \in p..(p + l) /\ t \in p..(p + l) /\ r \in p..t /\ t \in p..t
        /\ \A s \in p..t : s = t \/ (s \in p..(p + (k - 1)) /\ s \in p..(p + l))
    BY <2>1
  <2>3. f[r] \in Fractions /\ f[t] \in Fractions
    BY <2>2
  <2>4. CASE f[r] \preceq f[t]
    <3>1. ASSUME NEW s \in p..t PROVE f[s] \preceq f[t]
      <4>1. CASE s = t
        BY <2>3, <4>1, OrderIsTotal
      <4>2. CASE s \in p..(p + (k - 1)) /\ s \in p..(p + l)
        <5>1. f[s] \in Fractions /\ f[s] \preceq f[r]
          BY <2>1, <4>2
        <5> QED
          BY <2>3, <2>4, <5>1, OrderIsTransitive
      <4> QED
        BY <2>2, <4>1, <4>2
    <3> QED
      BY <2>2, <3>1
  <2>5. CASE ~(f[r] \preceq f[t])
    <3>1. f[t] \preceq f[r]
      BY <2>3, <2>5, OrderIsTotal
    <3> QED
      BY <2>1, <2>2, <3>1
  <2> QED
    BY <2>4, <2>5
<1> HIDE DEF T
<1>3. \A k \in 0..l : k \in T
  BY <1>1, <1>2, InductionAlong
<1>4. l \in T
  BY <1>3
<1> QED
  BY <1>4 DEF T

Matrices(n) == [1..n -> [1..n -> Fractions]]

\* The pivot is at or below the diagonal.
LEMMA PivotIsBelow ==
  ASSUME NEW n \in Nat, NEW m \in Matrices(n), NEW p \in 1..n, Len(m) = n
  PROVE  PivotRow(m, p) \in p..n
<1> DEFINE best == {r \in p..n : \A s \in p..n : Abs(m[s][p]) \preceq Abs(m[r][p])}
           f == [s \in p..n |-> Abs(m[s][p])]
<1>1. \A s \in p..n : m[s][p] \in Fractions
  BY DEF Matrices
<1>2. \A s \in p..n : Abs(m[s][p]) \in Fractions
  BY <1>1, IsItself, AbsIs DEF Is
<1>3. \A s \in p..n : f[s] \in Fractions
  BY <1>2
<1>4. \E r \in p..n : \A s \in p..n : f[s] \preceq f[r]
  <2> HIDE DEF f
  <2> DEFINE l == n - p
  <2>1. l \in Nat /\ p \in Nat /\ p + l = n
    OBVIOUS
  <2> HIDE DEF l
  <2>2. \A s \in p..(p + l) : f[s] \in Fractions
    BY <1>3, <2>1
  <2>3. \E r \in p..(p + l) : \A s \in p..(p + l) : f[s] \preceq f[r]
    BY <2>1, <2>2, LargestExists
  <2> QED
    BY <2>1, <2>3
<1>5. best # {} /\ best \subseteq Nat /\ best \subseteq p..n
  BY <1>4
<1>6. PivotRow(m, p) = CHOOSE r \in best : \A s \in best : r <= s
  BY DEF PivotRow
<1> HIDE DEF best
<1> QED
  BY <1>5, <1>6, FirstIs

\* Exchanging two rows of a matrix gives a matrix.
LEMMA ExchangedIsMatrix ==
  ASSUME NEW n \in Nat, NEW m \in Matrices(n), NEW i \in 1..n, NEW j \in 1..n
  PROVE  Exchanged(m, i, j) \in Matrices(n)
BY DEF Exchanged, Matrices

\* The elimination divides by a pivot that is not zero.
LEMMA EliminatedIsMatrix ==
  ASSUME NEW n \in Nat, NEW m \in Matrices(n), NEW p \in 1..n, m[p][p] # Zero
  PROVE  Eliminated(m, p) \in Matrices(n)
<1>1. \A r, c \in 1..n : m[r][c] \in Fractions
  BY DEF Matrices
<1>2. \A r, c \in 1..n : m[r][c] \ominus ((m[r][p] \oslash m[p][p]) \otimes m[p][c]) \in Fractions
  <2> SUFFICES ASSUME NEW r \in 1..n, NEW c \in 1..n
               PROVE  m[r][c] \ominus ((m[r][p] \oslash m[p][p]) \otimes m[p][c]) \in Fractions
    OBVIOUS
  <2>1. m[r][p] \oslash m[p][p] \in Fractions
    BY <1>1, QuotientIsFraction
  <2> QED
    BY <1>1, <2>1, FractionsAreClosed
<1>3. DOMAIN m = 1..n /\ \A r \in 1..n : DOMAIN m[r] = 1..n /\ m[r] \in [1..n -> Fractions]
  BY DEF Matrices
<1> DEFINE Row(r) == IF r <= p THEN m[r]
                     ELSE [c \in DOMAIN m[r] |->
                             IF c <= p THEN m[r][c]
                             ELSE m[r][c] \ominus ((m[r][p] \oslash m[p][p]) \otimes m[p][c])]
<1>4. ASSUME NEW r \in 1..n PROVE Row(r) \in [1..n -> Fractions]
  BY <1>1, <1>2, <1>3
<1>5. Eliminated(m, p) = [r \in 1..n |-> Row(r)]
  BY <1>3 DEF Eliminated
<1> HIDE DEF Row
<1> QED
  BY <1>4, <1>5 DEF Matrices

\* The determinant of a square matrix is a number.
LEMMA DeterminantIsQuantity ==
  ASSUME NEW n \in Nat, NEW m \in Matrices(n), Len(m) = n
  PROVE  Determinant(m) \in Quantities
<1> DEFINE S == [work : Matrices(n), determinant : Quantities]
           After(p, before) ==
             LET row == PivotRow(before.work, p)
                 work == Exchanged(before.work, p, row) IN
             IF before.determinant = Zero \/ work[p][p] = Zero
             THEN [before EXCEPT !.determinant = Zero]
             ELSE [work |-> Eliminated(work, p),
                   determinant |-> before.determinant \otimes (SignOf(row, p) \otimes work[p][p])]
           base == [work |-> m, determinant |-> One]
           Body(f) == [p \in 0..n |-> IF p = 0 THEN base ELSE After(p, f[p - 1])]
           after == CHOOSE f : f = Body(f)
           step == [p \in 1..n |-> [s \in S |-> After(p, s)]]
<1>1. base \in S
  BY ConstantsAreQuantities
<1>2. ASSUME NEW p \in 1..n, NEW before \in S PROVE After(p, before) \in S
  <2> DEFINE row == PivotRow(before.work, p)
             work == Exchanged(before.work, p, row)
             sign == SignOf(row, p)
  <2>1. before.work \in Matrices(n) /\ before.determinant \in Quantities
    OBVIOUS
  <2>2. Len(before.work) = n
    <3>1. DOMAIN before.work = 1..n /\ before.work \in Seq([1..n -> Fractions])
      BY <2>1, FunctionIsSequence DEF Matrices
    <3> QED
      BY <3>1
  <2>3. row \in p..n
    BY <2>1, <2>2, PivotIsBelow
  <2>4. work \in Matrices(n)
    BY <2>1, <2>3, ExchangedIsMatrix
  <2>5. sign \in Quantities
    BY ConstantsAreQuantities DEF SignOf
  <2>6. After(p, before) = IF before.determinant = Zero \/ work[p][p] = Zero
                           THEN [before EXCEPT !.determinant = Zero]
                           ELSE [work |-> Eliminated(work, p),
                                 determinant |-> before.determinant \otimes (sign \otimes work[p][p])]
    OBVIOUS
  <2> HIDE DEF row, work, sign, After
  <2>7. work[p][p] \in Quantities
    BY <2>4, FractionsAreQuantities DEF Matrices
  <2>8. before.determinant \otimes (sign \otimes work[p][p]) \in Quantities
    BY <2>1, <2>5, <2>7, ProductIsQuantity
  <2>9. work[p][p] # Zero => Eliminated(work, p) \in Matrices(n)
    BY <2>4, EliminatedIsMatrix
  <2> QED
    BY <2>1, <2>6, <2>8, <2>9, ConstantsAreQuantities
<1>3. step \in [1..n -> [S -> S]] /\ \A p \in 1..n : \A s \in S : step[p][s] = After(p, s)
  BY <1>2
<1>4. Determinant(m) = after[n].determinant
  BY DEF Determinant
<1> HIDE DEF step, base, After
<1>5. PICK f \in [0..n -> S] : Recursion(n, base, step, f)
  BY <1>1, <1>3, RecursionExists
<1>6. f = Body(f)
  <2>1. ASSUME NEW p \in 0..n PROVE f[p] = IF p = 0 THEN base ELSE After(p, f[p - 1])
    <3>1. p # 0 => p \in 1..n /\ p - 1 \in 0..n
      OBVIOUS
    <3>2. p # 0 => f[p - 1] \in S
      BY <3>1
    <3> HIDE DEF S
    <3> QED
      BY <1>3, <1>5, <3>1, <3>2 DEF Recursion
  <2> QED
    BY <2>1
<1>7. after = Body(after)
  BY <1>6
<1> HIDE DEF after
<1>8. Body(after)[0] = base /\ \A p \in 1..n : Body(after)[p] = After(p, after[p - 1])
  OBVIOUS
<1> HIDE DEF Body
<1>9. after[0] \in S /\ \A p \in 1..n : after[p - 1] \in S => after[p] \in S
  BY <1>1, <1>2, <1>7, <1>8
<1> HIDE DEF S
<1>10. \A p \in 0..n : after[p] \in S
  BY <1>9, StaysIn
<1>11. after[n] \in S
  BY <1>10
<1> QED
  BY <1>4, <1>11 DEF S

\* Every operation of matrix_math.
LEMMA MatrixToolAnswers ==
  ASSUME NEW op, NEW a, "matrix" \in DOMAIN a => a.matrix \in Seq(Seq(Fractions))
  PROVE  Answers(MatrixTool(op, a))
<1>1. ASSUME OneMatrix(a), SquareMatrix(a.matrix) PROVE Answers(Finish(Determinant(a.matrix)))
  <2> DEFINE m == a.matrix  n == Len(m)
  <2>1. m \in Seq(Seq(Fractions)) /\ n \in Nat /\ DOMAIN m = 1..n
    BY <1>1 DEF OneMatrix, Given
  <2>2. \A r \in 1..n : m[r] \in Seq(Fractions) /\ Len(m[r]) = n
    <3>1. n = Len(m[1]) /\ \A r \in DOMAIN m : Len(m[r]) = Len(m[1])
      BY <1>1 DEF SquareMatrix, Rectangular, Columns
    <3>2. \A r \in 1..n : m[r] \in Seq(Fractions)
      BY <2>1
    <3> HIDE DEF m, n
    <3> QED
      BY <2>1, <3>1, <3>2
  <2> HIDE DEF n
  <2>3. m \in Matrices(n)
    BY <2>1, <2>2 DEF Matrices
  <2> QED
    BY <2>1, <2>3, DeterminantIsQuantity, QuantityAnswers DEF n
<1>2. Answers(Refused) /\ \A v : Answers(Value(v))
  BY DEF Answers
<1>3. CASE op = "determinant"
  BY <1>1, <1>2, <1>3 DEF MatrixTool
<1>4. CASE op # "determinant"
  BY <1>2, <1>4 DEF MatrixTool
<1> QED
  BY <1>3, <1>4

-----------------------------------------------------------------------------
(* Sorting *)

\* The places that sorting puts no later than the i-th.
UpTo(keys, i) == {j \in DOMAIN keys : keys[j] \prec keys[i] \/ (keys[j] = keys[i] /\ j <= i)}

\* What comes earlier has the smaller place.
LEMMA PlacesAreOrdered ==
  ASSUME NEW keys \in Seq(Fractions), NEW i \in 1..Len(keys), NEW j \in 1..Len(keys), i # j,
         keys[i] \prec keys[j] \/ (keys[i] = keys[j] /\ i <= j)
  PROVE  PlaceOf(keys, i) < PlaceOf(keys, j)
<1> DEFINE n == Len(keys)
           S == UpTo(keys, i)
           T == UpTo(keys, j)
<1>1. n \in Nat /\ DOMAIN keys = 1..n /\ \A k \in 1..n : keys[k] \in Fractions
  OBVIOUS
<1>2. S \subseteq T
  <2> SUFFICES ASSUME NEW k \in 1..n, keys[k] \prec keys[i] \/ (keys[k] = keys[i] /\ k <= i)
               PROVE  keys[k] \prec keys[j] \/ (keys[k] = keys[j] /\ k <= j)
    BY <1>1 DEF UpTo
  <2>1. keys[k] \in Fractions /\ keys[i] \in Fractions /\ keys[j] \in Fractions
    BY <1>1
  <2>2. keys[k] \prec keys[i] /\ keys[i] \prec keys[j] => keys[k] \prec keys[j]
    BY <2>1, OrderIsTransitive
  <2> QED
    BY <2>2
<1>3. j \in T
  BY <1>1 DEF UpTo
<1>4. j \notin S
  <2>1. keys[i] \in Fractions /\ keys[j] \in Fractions
    BY <1>1
  <2>2. ~(keys[j] \prec keys[i])
    BY <2>1, OrderIsTotal
  <2>3. ~(keys[j] = keys[i] /\ j <= i)
    <3>1. keys[i] \prec keys[j] => keys[i] # keys[j]
      BY <2>1, OrderIsTotal
    <3> QED
      BY <3>1
  <2> QED
    BY <2>2, <2>3 DEF UpTo
<1>5. IsFiniteSet(T)
  <2>1. IsFiniteSet(1..n) /\ T \in SUBSET (1..n)
    BY <1>1, FS_Interval DEF UpTo
  <2> HIDE DEF T
  <2> QED
    BY <2>1, FS_Subset
<1>6. IsFiniteSet(S) /\ Cardinality(S) <= Cardinality(T) /\ Cardinality(S) # Cardinality(T)
  BY <1>2, <1>3, <1>4, <1>5, FS_Subset
<1>7. Cardinality(S) \in Nat /\ Cardinality(T) \in Nat
  BY <1>5, <1>6, FS_CardinalityType
<1>8. PlaceOf(keys, i) = Cardinality(S) /\ PlaceOf(keys, j) = Cardinality(T)
  BY DEF PlaceOf, UpTo
<1> QED
  BY <1>6, <1>7, <1>8

\* The places are those of the sequence.
LEMMA PlacesAreInside ==
  ASSUME NEW keys \in Seq(Fractions), NEW i \in 1..Len(keys)
  PROVE  PlaceOf(keys, i) \in 1..Len(keys)
<1> DEFINE n == Len(keys)
           S == UpTo(keys, i)
<1>1. n \in Nat /\ DOMAIN keys = 1..n
  OBVIOUS
<1>2. S \subseteq 1..n /\ i \in S
  BY <1>1 DEF UpTo
<1>3. IsFiniteSet(1..n) /\ Cardinality(1..n) = n
  BY <1>1, FS_Interval
<1> HIDE DEF n, S
<1>4. IsFiniteSet(S) /\ Cardinality(S) <= n /\ Cardinality(S) \in Nat
  <2>1. IsFiniteSet(S) /\ Cardinality(S) <= Cardinality(1..n)
    BY <1>2, <1>3, FS_Subset
  <2>2. Cardinality(S) \in Nat
    BY <2>1, FS_CardinalityType
  <2> QED
    BY <1>3, <2>1, <2>2
<1>5. Cardinality(S) # 0
  BY <1>2, <1>4, FS_EmptySet
<1>6. PlaceOf(keys, i) = Cardinality(S)
  BY DEF S, PlaceOf, UpTo
<1>7. PlaceOf(keys, i) \in 1..n
  BY <1>1, <1>4, <1>5, <1>6
<1> QED
  BY <1>7 DEF n

\* Which element comes to a place.
Chosen(keys, p) == CHOOSE i \in DOMAIN keys : PlaceOf(keys, i) = p

\* An element comes to each place, those with smaller keys first.
LEMMA SortingIsComplete ==
  ASSUME NEW keys \in Seq(Fractions)
  PROVE  /\ \A p \in 1..Len(keys) : Chosen(keys, p) \in 1..Len(keys) /\ PlaceOf(keys, Chosen(keys, p)) = p
         /\ \A p, q \in 1..Len(keys) : p < q => Chosen(keys, p) # Chosen(keys, q)
                                                /\ keys[Chosen(keys, p)] \preceq keys[Chosen(keys, q)]
<1> DEFINE n == Len(keys)
           place == [i \in 1..n |-> PlaceOf(keys, i)]
<1>1. n \in Nat /\ DOMAIN keys = 1..n /\ \A k \in 1..n : keys[k] \in Fractions
  OBVIOUS
<1>2. place \in [1..n -> 1..n]
  BY PlacesAreInside
<1>3. ASSUME NEW i \in 1..n, NEW j \in 1..n, i # j PROVE place[i] # place[j]
  <2>1. keys[i] \in Fractions /\ keys[j] \in Fractions
    BY <1>1
  <2>2. keys[i] \prec keys[j] \/ keys[i] = keys[j] \/ keys[j] \prec keys[i]
    BY <2>1, OrderIsTotal
  <2>3. \/ keys[i] \prec keys[j] \/ (keys[i] = keys[j] /\ i <= j)
        \/ keys[j] \prec keys[i] \/ (keys[j] = keys[i] /\ j <= i)
    BY <1>3, <2>2
  <2>4. PlaceOf(keys, i) < PlaceOf(keys, j) \/ PlaceOf(keys, j) < PlaceOf(keys, i)
    BY <1>3, <2>3, PlacesAreOrdered
  <2>5. PlaceOf(keys, i) \in 1..n /\ PlaceOf(keys, j) \in 1..n
    BY PlacesAreInside
  <2> QED
    BY <2>4, <2>5
<1>4. place \in Injection(1..n, 1..n)
  <2>1. \A i, j \in 1..n : place[i] = place[j] => i = j
    BY <1>3
  <2> HIDE DEF place, n
  <2> QED
    BY <1>2, <2>1 DEF Injection, IsInjective
<1>5. place \in Surjection(1..n, 1..n)
  BY <1>1, <1>4, FS_Interval, FS_Injection
<1>6. \A p \in 1..n : \E i \in 1..n : PlaceOf(keys, i) = p
  BY <1>5 DEF Surjection
<1>7. ASSUME NEW p \in 1..n PROVE Chosen(keys, p) \in 1..n /\ PlaceOf(keys, Chosen(keys, p)) = p
  BY <1>1, <1>6 DEF Chosen
<1>8. ASSUME NEW p \in 1..n, NEW q \in 1..n, p < q
      PROVE  Chosen(keys, p) # Chosen(keys, q) /\ keys[Chosen(keys, p)] \preceq keys[Chosen(keys, q)]
  <2> DEFINE i == Chosen(keys, p)  j == Chosen(keys, q)
  <2>1. i \in 1..n /\ j \in 1..n /\ PlaceOf(keys, i) = p /\ PlaceOf(keys, j) = q
    BY <1>7
  <2> HIDE DEF i, j
  <2>2. i # j
    BY <1>8, <2>1
  <2>3. ~(keys[j] \prec keys[i])
    <3> SUFFICES ASSUME keys[j] \prec keys[i] PROVE FALSE
      OBVIOUS
    <3>1. PlaceOf(keys, j) < PlaceOf(keys, i)
      BY <2>1, <2>2, PlacesAreOrdered
    <3> QED
      BY <1>8, <2>1, <3>1
  <2>4. keys[i] \preceq keys[j]
    BY <1>1, <2>1, <2>3, OrderIsTotal
  <2> QED
    BY <2>2, <2>4 DEF i, j
<1> QED
  BY <1>7, <1>8

\* Sorting by keys: a permutation of the elements.
LEMMA SortedIs ==
  ASSUME NEW keys \in Seq(Fractions), NEW s, DOMAIN s = DOMAIN keys
  PROVE  /\ DOMAIN Sorted(s, keys) = 1..Len(keys)
         /\ \A p \in 1..Len(keys) : Sorted(s, keys)[p] = s[Chosen(keys, p)]
<1>1. DOMAIN keys = 1..Len(keys)
  OBVIOUS
<1> QED
  BY <1>1 DEF Sorted, Chosen

\* A sorted sequence has the elements of the sequence.
LEMMA OrderedIs ==
  ASSUME NEW s \in Seq(Fractions)
  PROVE  \A p \in 1..Len(s) : Chosen(s, p) \in 1..Len(s) /\ Ordered(s)[p] = s[Chosen(s, p)]
                              /\ Ordered(s)[p] \in Fractions
<1>1. \A p \in 1..Len(s) : Chosen(s, p) \in 1..Len(s) /\ Ordered(s)[p] = s[Chosen(s, p)]
  BY SortedIs, SortingIsComplete DEF Ordered
<1> QED
  BY <1>1

-----------------------------------------------------------------------------
(* Interpolation *)

\* Recursion from the first element up, and from the last one down.
Upward(n, base, step, f) == f[1] = base /\ \A i \in 2..n : f[i] = step[i][f[i - 1]]
Downward(n, base, step, f) == f[n] = base /\ \A i \in 1..(n - 1) : f[i] = step[i][f[i + 1]]

\* There is a function with a first value and a step from each value to the next.
LEMMA UpwardExists ==
  ASSUME NEW n \in Nat \ {0}, NEW S, NEW base \in S, NEW step \in [2..n -> [S -> S]]
  PROVE  \E f \in [1..n -> S] : Upward(n, base, step, f)
<1> DEFINE m == n - 1
           shifted == [i \in 1..m |-> step[i + 1]]
<1>1. m \in Nat /\ \A i \in 1..m : i + 1 \in 2..n
  OBVIOUS
<1>2. shifted \in [1..m -> [S -> S]]
  BY <1>1
<1>3. PICK g \in [0..m -> S] : Recursion(m, base, shifted, g)
  <2> HIDE DEF shifted, m
  <2> QED
    BY <1>1, <1>2, RecursionExists
<1> DEFINE f == [i \in 1..n |-> g[i - 1]]
<1>4. f \in [1..n -> S] /\ f[1] = g[0]
  OBVIOUS
<1>5. ASSUME NEW i \in 2..n PROVE f[i] = step[i][f[i - 1]]
  <2>1. i - 1 \in 1..m /\ i \in 1..n /\ i - 1 \in 1..n /\ (i - 1) + 1 = i
    OBVIOUS
  <2>2. g[i - 1] = shifted[i - 1][g[(i - 1) - 1]]
    BY <1>3, <2>1 DEF Recursion
  <2>3. shifted[i - 1] = step[i]
    BY <2>1
  <2> QED
    BY <2>1, <2>2, <2>3
<1> HIDE DEF f
<1>6. g[0] = base
  BY <1>3 DEF Recursion
<1> QED
  BY <1>4, <1>5, <1>6 DEF Upward

\* There is a function with a last value and a step from each value to the one before.
LEMMA DownwardExists ==
  ASSUME NEW n \in Nat \ {0}, NEW S, NEW base \in S, NEW step \in [1..(n - 1) -> [S -> S]]
  PROVE  \E f \in [1..n -> S] : Downward(n, base, step, f)
<1> DEFINE m == n - 1
           turned == [i \in 1..m |-> step[n - i]]
<1>1. m \in Nat /\ \A i \in 1..m : n - i \in 1..(n - 1)
  OBVIOUS
<1>2. turned \in [1..m -> [S -> S]]
  BY <1>1
<1>3. PICK g \in [0..m -> S] : Recursion(m, base, turned, g)
  <2> HIDE DEF turned, m
  <2> QED
    BY <1>1, <1>2, RecursionExists
<1> DEFINE f == [i \in 1..n |-> g[n - i]]
<1>4. f \in [1..n -> S] /\ f[n] = g[0]
  OBVIOUS
<1>5. ASSUME NEW i \in 1..(n - 1) PROVE f[i] = step[i][f[i + 1]]
  <2>1. n - i \in 1..m /\ i \in 1..n /\ i + 1 \in 1..n /\ n - (n - i) = i /\ (n - i) - 1 = n - (i + 1)
    OBVIOUS
  <2>2. g[n - i] = turned[n - i][g[(n - i) - 1]]
    BY <1>3, <2>1 DEF Recursion
  <2>3. turned[n - i] = step[i]
    BY <2>1
  <2> QED
    BY <2>1, <2>2, <2>3
<1> HIDE DEF f
<1>6. g[0] = base
  BY <1>3 DEF Recursion
<1> QED
  BY <1>4, <1>5, <1>6 DEF Downward

\* What goes by steps in a set from its first element on stays in it.
LEMMA StaysUpward ==
  ASSUME NEW n \in Nat \ {0}, NEW S, NEW f, f[1] \in S, \A i \in 2..n : f[i - 1] \in S => f[i] \in S
  PROVE  \A i \in 1..n : f[i] \in S
<1> DEFINE m == n - 1
           g == [i \in 0..m |-> f[i + 1]]
<1>1. m \in Nat /\ g[0] \in S
  OBVIOUS
<1>2. \A i \in 1..m : g[i - 1] \in S => g[i] \in S
  <2> SUFFICES ASSUME NEW i \in 1..m, g[i - 1] \in S PROVE g[i] \in S
    OBVIOUS
  <2> DEFINE j == i + 1
  <2>1. j \in 2..n /\ j - 1 = i /\ g[i - 1] = f[i] /\ g[i] = f[j]
    OBVIOUS
  <2>2. f[j - 1] \in S => f[j] \in S
    BY <2>1
  <2> QED
    BY <2>1, <2>2
<1>3. \A i \in 0..m : g[i] \in S
  <2> HIDE DEF g, m
  <2> QED
    BY <1>1, <1>2, StaysIn
<1> SUFFICES ASSUME NEW i \in 1..n PROVE f[i] \in S
  OBVIOUS
<1>4. i - 1 \in 0..m /\ g[i - 1] = f[i]
  OBVIOUS
<1> QED
  BY <1>3, <1>4

\* And from its last element down.
LEMMA StaysDownward ==
  ASSUME NEW n \in Nat \ {0}, NEW S, NEW f, f[n] \in S, \A i \in 1..(n - 1) : f[i + 1] \in S => f[i] \in S
  PROVE  \A i \in 1..n : f[i] \in S
<1> DEFINE m == n - 1
           g == [i \in 0..m |-> f[n - i]]
<1>1. m \in Nat /\ g[0] \in S
  OBVIOUS
<1>2. \A i \in 1..m : g[i - 1] \in S => g[i] \in S
  <2> SUFFICES ASSUME NEW i \in 1..m, g[i - 1] \in S PROVE g[i] \in S
    OBVIOUS
  <2> DEFINE j == n - i
  <2>1. j \in 1..(n - 1) /\ j + 1 = n - (i - 1) /\ g[i - 1] = f[j + 1] /\ g[i] = f[j]
    OBVIOUS
  <2>2. f[j + 1] \in S => f[j] \in S
    BY <2>1
  <2> QED
    BY <2>1, <2>2
<1>3. \A i \in 0..m : g[i] \in S
  <2> HIDE DEF g, m
  <2> QED
    BY <1>1, <1>2, StaysIn
<1> SUFFICES ASSUME NEW i \in 1..n PROVE f[i] \in S
  OBVIOUS
<1>4. n - i \in 0..m /\ g[n - i] = f[i]
  OBVIOUS
<1> QED
  BY <1>3, <1>4

\* The points and the target that _prepare_data lets pass.
Points(xs, ys, x) ==
  /\ xs \in Seq(Fractions) /\ ys \in Seq(Fractions) /\ x \in Fractions
  /\ Len(xs) = Len(ys) /\ Len(xs) >= 2
  /\ \A i, j \in 1..Len(xs) : i # j => xs[i] # xs[j]
  /\ Smallest(xs) \preceq x /\ x \preceq Largest(xs)

\* The difference of two fractions is zero only if they are equal.
LEMMA DifferenceIsZero ==
  ASSUME NEW p \in Fractions, NEW q \in Fractions
  PROVE  p \ominus q \in Fractions /\ (p # q => p \ominus q # Zero) /\ (q \prec p => Positive(p \ominus q))
<1>1. PICK m, n, d : Is(p, m, d) /\ Is(q, n, d)
  BY IsItself, CommonDenominator
<1>2. Is(p \ominus q, m - n, d) /\ m \in Int /\ n \in Int
  <2>1. Is(p \ominus q, m - n, d)
    BY <1>1, DifferenceIs
  <2> QED
    BY <1>1, <2>1 DEF Is
<1>3. (p \ominus q = Zero <=> m - n = 0) /\ (Positive(p \ominus q) <=> m - n > 0)
  BY <1>2, SignIs
<1>4. (p = q <=> m = n) /\ (q \prec p <=> n < m)
  BY <1>1, OrderIs
<1>5. p \ominus q \in Fractions
  BY <1>2 DEF Is
<1> QED
  BY <1>2, <1>3, <1>4, <1>5

\* Among the points in the order given two neighbours have the target between them.
LEMMA NeighboursExist ==
  ASSUME NEW xs, NEW ys, NEW x, Points(xs, ys, x), x # xs[1]
  PROVE  \E i \in 1..(Len(xs) - 1) : Between(x, xs[i], xs[i + 1])
<1> SUFFICES ASSUME \A i \in 1..(Len(xs) - 1) : ~Between(x, xs[i], xs[i + 1]) PROVE FALSE
  OBVIOUS
<1> DEFINE n == Len(xs)
<1>1. n \in Nat /\ n >= 2 /\ x \in Fractions /\ \A i \in 1..n : xs[i] \in Fractions
  BY DEF Points
<1>2. ASSUME NEW i \in 1..(n - 1) PROVE (xs[i] \prec x => xs[i + 1] \prec x) /\ (x \prec xs[i] => x \prec xs[i + 1])
  <2>1. i \in 1..n /\ i + 1 \in 1..n /\ xs[i] \in Fractions /\ xs[i + 1] \in Fractions
    BY <1>1
  <2>2. ~Between(x, xs[i], xs[i + 1])
    OBVIOUS
  <2>3. /\ xs[i] \prec x => xs[i] \preceq x
        /\ x \prec xs[i] => x \preceq xs[i]
        /\ ~(xs[i + 1] \prec x) => x \preceq xs[i + 1]
        /\ ~(x \prec xs[i + 1]) => xs[i + 1] \preceq x
    BY <1>1, <2>1, OrderIsTotal
  <2> QED
    BY <2>2, <2>3 DEF Between
<1>3. /\ Chosen(xs, 1) \in 1..n /\ Smallest(xs) = xs[Chosen(xs, 1)]
      /\ Chosen(xs, n) \in 1..n /\ Largest(xs) = xs[Chosen(xs, n)]
  <2>1. xs \in Seq(Fractions) /\ 1 \in 1..n /\ n \in 1..n
    BY <1>1 DEF Points
  <2> QED
    BY <2>1, OrderedIs DEF Smallest, Largest
<1>4. xs[1] \prec x \/ x \prec xs[1]
  BY <1>1, OrderIsTotal
<1>5. CASE xs[1] \prec x
  <2> DEFINE U == {i \in 1..n : xs[i] \prec x}
             f == [i \in 1..n |-> i]
  <2>1. f[1] \in U
    BY <1>1, <1>5
  <2>2. \A i \in 2..n : f[i - 1] \in U => f[i] \in U
    <3> SUFFICES ASSUME NEW i \in 2..n, i - 1 \in U PROVE i \in U
      OBVIOUS
    <3> DEFINE j == i - 1
    <3>1. j \in 1..(n - 1) /\ j + 1 = i /\ xs[j] \prec x
      OBVIOUS
    <3>2. xs[j + 1] \prec x
      BY <1>2, <3>1
    <3> QED
      BY <3>1, <3>2
  <2>3. \A i \in 1..n : f[i] \in U
    <3>1. n \in Nat \ {0}
      BY <1>1
    <3> HIDE DEF U, f, n
    <3> QED
      BY <2>1, <2>2, <3>1, StaysUpward
  <2>4. xs[Chosen(xs, n)] \prec x
    BY <1>3, <2>3
  <2>5. x \preceq xs[Chosen(xs, n)]
    BY <1>3 DEF Points
  <2> QED
    BY <1>1, <1>3, <2>4, <2>5, OrderIsTotal
<1>6. CASE x \prec xs[1]
  <2> DEFINE U == {i \in 1..n : x \prec xs[i]}
             f == [i \in 1..n |-> i]
  <2>1. f[1] \in U
    BY <1>1, <1>6
  <2>2. \A i \in 2..n : f[i - 1] \in U => f[i] \in U
    <3> SUFFICES ASSUME NEW i \in 2..n, i - 1 \in U PROVE i \in U
      OBVIOUS
    <3> DEFINE j == i - 1
    <3>1. j \in 1..(n - 1) /\ j + 1 = i /\ x \prec xs[j]
      OBVIOUS
    <3>2. x \prec xs[j + 1]
      BY <1>2, <3>1
    <3> QED
      BY <3>1, <3>2
  <2>3. \A i \in 1..n : f[i] \in U
    <3>1. n \in Nat \ {0}
      BY <1>1
    <3> HIDE DEF U, f, n
    <3> QED
      BY <2>1, <2>2, <3>1, StaysUpward
  <2>4. x \prec xs[Chosen(xs, 1)]
    BY <1>3, <2>3
  <2>5. xs[Chosen(xs, 1)] \preceq x
    BY <1>3 DEF Points
  <2> QED
    BY <1>1, <1>3, <2>4, <2>5, OrderIsTotal
<1> QED
  BY <1>4, <1>5, <1>6

\* Linear interpolation divides by the width of an interval between two points.
LEMMA LinearIsQuantity ==
  ASSUME NEW xs, NEW ys, NEW x, Points(xs, ys, x)
  PROVE  Linear(xs, ys, x) \in Quantities
<1> DEFINE n == Len(xs)
           here == {i \in 1..(Len(xs) - 1) : Between(x, xs[i], xs[i + 1])}
           k == CHOOSE i \in here : \A j \in here : i <= j
<1>1. /\ n \in Nat /\ n >= 2 /\ x \in Fractions
      /\ \A i \in 1..n : xs[i] \in Fractions /\ ys[i] \in Fractions
      /\ \A i, j \in 1..n : i # j => xs[i] # xs[j]
  BY DEF Points
<1>2. CASE x = xs[1]
  <2>1. ys[1] \in Quantities
    BY <1>1, FractionsAreQuantities
  <2> QED
    BY <1>2, <2>1 DEF Linear
<1>3. CASE x # xs[1]
  <2>1. Linear(xs, ys, x) = ys[k] \oplus (((x \ominus xs[k]) \oslash (xs[k + 1] \ominus xs[k])) \otimes (ys[k + 1] \ominus ys[k]))
    BY <1>3 DEF Linear
  <2>2. here # {} /\ here \subseteq Nat
    <3>1. \E i \in 1..(Len(xs) - 1) : Between(x, xs[i], xs[i + 1])
      BY <1>3, NeighboursExist
    <3>2. here # {}
      BY <3>1
    <3>3. here \subseteq 1..(Len(xs) - 1)
      OBVIOUS
    <3>4. 1..(Len(xs) - 1) \subseteq Nat
      OBVIOUS
    <3> QED
      BY <3>2, <3>3, <3>4
  <2> HIDE DEF here
  <2>3. k \in here
    BY <2>2, FirstIs
  <2> HIDE DEF k
  <2>4. k \in 1..n /\ k + 1 \in 1..n /\ k # k + 1
    BY <1>1, <2>3 DEF here
  <2>5. /\ xs[k + 1] \ominus xs[k] \in Fractions /\ xs[k + 1] \ominus xs[k] # Zero
        /\ x \ominus xs[k] \in Fractions /\ ys[k + 1] \ominus ys[k] \in Fractions /\ ys[k] \in Fractions
    BY <1>1, <2>4, DifferenceIsZero
  <2>6. (x \ominus xs[k]) \oslash (xs[k + 1] \ominus xs[k]) \in Fractions
    BY <2>5, QuotientIsFraction
  <2> QED
    BY <2>1, <2>5, <2>6, FractionsAreClosed, FractionsAreQuantities
<1> QED
  BY <1>2, <1>3

\* The term of a point in Lagrange's form.
LagrangeTerm(xs, ys, x, i) ==
  LET n == Len(xs)
      product[j \in 0..n] ==
        CASE j = 0 -> ys[i]
          [] j = i -> product[j - 1]
          [] OTHER -> product[j - 1] \otimes ((x \ominus xs[j]) \oslash (xs[i] \ominus xs[j]))
  IN product[n]

\* It divides by the differences of its place from the others.
LEMMA LagrangeTermIsQuantity ==
  ASSUME NEW xs, NEW ys, NEW x, Points(xs, ys, x), NEW i \in 1..Len(xs)
  PROVE  LagrangeTerm(xs, ys, x, i) \in Quantities
<1> DEFINE n == Len(xs)
           Ratio(j) == (x \ominus xs[j]) \oslash (xs[i] \ominus xs[j])
           Body(f) == [j \in 0..n |->
             CASE j = 0 -> ys[i]
               [] j = i -> f[j - 1]
               [] OTHER -> f[j - 1] \otimes ((x \ominus xs[j]) \oslash (xs[i] \ominus xs[j]))]
           product == CHOOSE f : f = Body(f)
           After(j, q) == IF j = i THEN q ELSE q \otimes Ratio(j)
           step == [j \in 1..n |-> [q \in Quantities |-> After(j, q)]]
<1>1. /\ n \in Nat /\ x \in Fractions
      /\ \A j \in 1..n : xs[j] \in Fractions /\ ys[j] \in Fractions
      /\ \A j, k \in 1..n : j # k => xs[j] # xs[k]
  BY DEF Points
<1>2. ys[i] \in Quantities
  BY <1>1, FractionsAreQuantities
<1>3. ASSUME NEW j \in 1..n, j # i PROVE Ratio(j) \in Quantities
  <2>1. x \ominus xs[j] \in Fractions /\ xs[i] \ominus xs[j] \in Fractions /\ xs[i] \ominus xs[j] # Zero
    BY <1>1, <1>3, DifferenceIsZero
  <2> QED
    BY <2>1, QuotientIsFraction, FractionsAreQuantities
<1>4. ASSUME NEW j \in 1..n, NEW q \in Quantities PROVE After(j, q) \in Quantities
  BY <1>3, ProductIsQuantity
<1>5. ASSUME NEW f PROVE Body(f)[0] = ys[i] /\ \A j \in 1..n : Body(f)[j] = After(j, f[j - 1])
  BY <1>1
<1>6. step \in [1..n -> [Quantities -> Quantities]] /\ \A j \in 1..n : \A q \in Quantities : step[j][q] = After(j, q)
  BY <1>4
<1>7. LagrangeTerm(xs, ys, x, i) = product[n]
  BY DEF LagrangeTerm
<1>8. \A f : Body(f) = [j \in 0..n |-> Body(f)[j]]
  OBVIOUS
<1> HIDE DEF step, After, Body
<1>9. PICK f \in [0..n -> Quantities] : Recursion(n, ys[i], step, f)
  BY <1>1, <1>2, <1>6, RecursionExists
<1>10. f = Body(f)
  <2>1. ASSUME NEW j \in 0..n PROVE f[j] = Body(f)[j]
    <3>1. j # 0 => j \in 1..n /\ j - 1 \in 0..n
      BY <1>1
    <3> QED
      BY <1>5, <1>6, <1>9, <3>1 DEF Recursion
  <2> QED
    BY <1>8, <2>1
<1>11. product = Body(product)
  BY <1>10
<1> HIDE DEF product
<1>12. product[0] \in Quantities /\ \A j \in 1..n : product[j - 1] \in Quantities => product[j] \in Quantities
  BY <1>2, <1>4, <1>5, <1>11
<1>13. \A j \in 0..n : product[j] \in Quantities
  BY <1>1, <1>12, StaysIn
<1> QED
  BY <1>1, <1>7, <1>13

\* Lagrange's interpolant.
LEMMA LagrangeIsQuantity ==
  ASSUME NEW xs, NEW ys, NEW x, Points(xs, ys, x)
  PROVE  Lagrange(xs, ys, x) \in Quantities
<1> DEFINE terms == [i \in 1..Len(xs) |-> LagrangeTerm(xs, ys, x, i)]
<1>1. Len(xs) \in Nat
  BY DEF Points
<1>2. terms \in [1..Len(xs) -> Quantities]
  BY LagrangeTermIsQuantity
<1>3. Lagrange(xs, ys, x) = SumOf(terms)
  BY DEF Lagrange, LagrangeTerm
<1> HIDE DEF terms
<1>4. terms \in Seq(Quantities)
  BY <1>1, <1>2, FunctionIsSequence
<1> QED
  BY <1>3, <1>4, SumOfQuantities

\* A round of divided differences divides by differences of places.
LEMMA DividedIsTyped ==
  ASSUME NEW xs, NEW ys, NEW x, Points(xs, ys, x), NEW order \in 1..(Len(xs) - 1),
         NEW before \in [1..Len(xs) -> Fractions]
  PROVE  Divided(xs, before, order) \in [1..Len(xs) -> Fractions]
<1> DEFINE n == Len(xs)
<1>1. /\ n \in Nat /\ DOMAIN xs = 1..n
      /\ \A j \in 1..n : xs[j] \in Fractions
      /\ \A j, k \in 1..n : j # k => xs[j] # xs[k]
  BY DEF Points
<1>2. ASSUME NEW i \in 1..n, ~(i <= order)
      PROVE  (before[i] \ominus before[i - 1]) \oslash (xs[i] \ominus xs[i - order]) \in Fractions
  <2>1. i - 1 \in 1..n /\ i - order \in 1..n /\ i # i - order
    BY <1>1, <1>2
  <2>2. before[i] \ominus before[i - 1] \in Fractions
    BY <2>1, FractionsAreClosed
  <2>3. xs[i] \ominus xs[i - order] \in Fractions /\ xs[i] \ominus xs[i - order] # Zero
    BY <1>1, <2>1, DifferenceIsZero
  <2> QED
    BY <2>2, <2>3, QuotientIsFraction
<1> QED
  BY <1>1, <1>2 DEF Divided

\* Newton's coefficients, of round after round.
Rounds(xs, ys) ==
  LET n == Len(xs)
      round[order \in 0..(n - 1)] ==
        IF order = 0 THEN ys ELSE Divided(xs, round[order - 1], order)
  IN round[n - 1]

\* They are fractions.
LEMMA RoundsAreTyped ==
  ASSUME NEW xs, NEW ys, NEW x, Points(xs, ys, x)
  PROVE  Rounds(xs, ys) \in [1..Len(xs) -> Fractions]
<1> DEFINE n == Len(xs)
           m == n - 1
           S == [1..Len(xs) -> Fractions]
           Body(f) == [order \in 0..(n - 1) |->
                         IF order = 0 THEN ys ELSE Divided(xs, f[order - 1], order)]
           round == CHOOSE f : f = Body(f)
           step == [order \in 1..m |-> [s \in S |-> Divided(xs, s, order)]]
<1>1. m \in Nat /\ ys \in S
  BY DEF Points
<1>2. ASSUME NEW order \in 1..m, NEW s \in S PROVE Divided(xs, s, order) \in S
  BY DividedIsTyped
<1>3. step \in [1..m -> [S -> S]] /\ \A order \in 1..m : \A s \in S : step[order][s] = Divided(xs, s, order)
  BY <1>2
<1>4. ASSUME NEW f PROVE /\ Body(f) = [order \in 0..m |-> Body(f)[order]]
                         /\ m \in Nat => Body(f)[0] = ys
                         /\ \A order \in 1..m : Body(f)[order] = Divided(xs, f[order - 1], order)
  BY <1>1
<1>5. Rounds(xs, ys) = round[m]
  BY DEF Rounds
<1> HIDE DEF step, Body, m
<1>6. PICK f \in [0..m -> S] : Recursion(m, ys, step, f)
  <2> HIDE DEF S
  <2> QED
    BY <1>1, <1>3, RecursionExists
<1>7. f = Body(f)
  <2>1. ASSUME NEW order \in 0..m PROVE f[order] = Body(f)[order]
    <3>1. order # 0 => order \in 1..m /\ order - 1 \in 0..m
      BY <1>1
    <3>2. order # 0 => f[order - 1] \in S
      BY <3>1
    <3> HIDE DEF S
    <3> QED
      BY <1>1, <1>3, <1>4, <1>6, <3>1, <3>2 DEF Recursion
  <2> QED
    BY <1>4, <2>1
<1>8. round = Body(round)
  BY <1>7
<1> HIDE DEF round, S
<1>9. round[0] \in S /\ \A order \in 1..m : round[order - 1] \in S => round[order] \in S
  BY <1>1, <1>2, <1>4, <1>8
<1>10. \A order \in 0..m : round[order] \in S
  BY <1>1, <1>9, StaysIn
<1> QED
  BY <1>1, <1>5, <1>10 DEF S

\* Newton's interpolant.
LEMMA NewtonIsQuantity ==
  ASSUME NEW xs, NEW ys, NEW x, Points(xs, ys, x)
  PROVE  NewtonInterpolant(xs, ys, x) \in Quantities
<1> DEFINE n == Len(xs)
           coefficients == Rounds(xs, ys)
           Body(f) == [i \in 1..n |->
             IF i = n THEN coefficients[n]
             ELSE (f[i + 1] \otimes (x \ominus xs[i])) \oplus coefficients[i]]
           horner == CHOOSE f : f = Body(f)
           After(i, q) == (q \otimes (x \ominus xs[i])) \oplus coefficients[i]
           step == [i \in 1..(n - 1) |-> [q \in Fractions |-> After(i, q)]]
<1>1. n \in Nat \ {0} /\ x \in Fractions /\ \A i \in 1..n : xs[i] \in Fractions
  BY DEF Points
<1>2. coefficients \in [1..n -> Fractions]
  BY RoundsAreTyped
<1>3. NewtonInterpolant(xs, ys, x) = horner[1]
  BY DEF NewtonInterpolant, Rounds
<1> HIDE DEF coefficients
<1>4. ASSUME NEW i \in 1..(n - 1), NEW q \in Fractions PROVE After(i, q) \in Fractions
  <2>1. i \in 1..n
    BY <1>1
  <2> QED
    BY <1>1, <1>2, <2>1, FractionsAreClosed
<1>5. step \in [1..(n - 1) -> [Fractions -> Fractions]]
      /\ \A i \in 1..(n - 1) : \A q \in Fractions : step[i][q] = After(i, q)
  BY <1>4
<1>6. ASSUME NEW f PROVE /\ Body(f) = [i \in 1..n |-> Body(f)[i]]
                         /\ Body(f)[n] = coefficients[n]
                         /\ \A i \in 1..(n - 1) : Body(f)[i] = After(i, f[i + 1])
  BY <1>1
<1>7. coefficients[n] \in Fractions
  BY <1>1, <1>2
<1> HIDE DEF step, Body, After, n
<1>8. PICK f \in [1..n -> Fractions] : Downward(n, coefficients[n], step, f)
  BY <1>1, <1>5, <1>7, DownwardExists
<1>9. f = Body(f)
  <2>1. ASSUME NEW i \in 1..n PROVE f[i] = Body(f)[i]
    <3>1. i # n => i \in 1..(n - 1) /\ i + 1 \in 1..n
      BY <1>1
    <3>2. CASE i = n
      BY <1>6, <1>8, <3>2 DEF Downward
    <3>3. CASE i # n
      <4>1. f[i] = step[i][f[i + 1]] /\ f[i + 1] \in Fractions
        BY <1>8, <3>1, <3>3 DEF Downward
      <4> QED
        BY <1>5, <1>6, <3>1, <3>3, <4>1
    <3> QED
      BY <3>2, <3>3
  <2> QED
    BY <1>6, <2>1
<1>10. horner = Body(horner)
  BY <1>9
<1> HIDE DEF horner
<1>11. horner[n] \in Fractions /\ \A i \in 1..(n - 1) : horner[i + 1] \in Fractions => horner[i] \in Fractions
  BY <1>4, <1>6, <1>7, <1>10
<1>12. \A i \in 1..n : horner[i] \in Fractions
  BY <1>1, <1>11, StaysDownward
<1>13. horner[1] \in Fractions
  BY <1>1, <1>12
<1> QED
  BY <1>3, <1>13, FractionsAreQuantities

\* What is left of the diagonal of the tridiagonal system is not zero.
LEMMA DiagonalIsLeft ==
  ASSUME NEW p \in Fractions, NEW q \in Fractions, Positive(p), Positive(q)
  PROVE  LET diagonal == Two \otimes (p \oplus q)  factor == p \oslash diagonal IN
         /\ factor \in Fractions
         /\ diagonal \ominus (factor \otimes q) \in Fractions
         /\ diagonal \ominus (factor \otimes q) # Zero
<1> DEFINE diagonal == Two \otimes (p \oplus q)
           factor == p \oslash diagonal
<1>1. PICK m, k, d : Is(p, m, d) /\ Is(q, k, d)
  BY IsItself, CommonDenominator
<1>2. m \in Int /\ k \in Int /\ d \in Nat \ {0}
  BY <1>1 DEF Is
<1>3. m > 0 /\ k > 0
  BY <1>1, SignIs
<1> DEFINE l == 2 * (m + k)
<1>4. l \in Nat \ {0} /\ l > 0
  BY <1>2, <1>3
<1>5. Is(diagonal, l, d)
  <2>1. Is(p \oplus q, m + k, d)
    BY <1>1, SumIs
  <2>2. Is(Two, 2 * 1, 1)
    BY WholeIs DEF Two
  <2>3. Is(Two, 2, 1)
    BY <2>2
  <2>4. Is(diagonal, 2 * (m + k), 1 * d)
    BY <2>1, <2>3, ProductIs
  <2>5. 1 * d = d
    BY <1>2
  <2> QED
    BY <2>4, <2>5
<1> HIDE DEF diagonal, l
<1>6. Is(factor, m, l)
  BY <1>1, <1>4, <1>5, QuotientIs
<1> HIDE DEF factor
<1>7. Is(factor \otimes q, m * k, l * d)
  BY <1>1, <1>6, ProductIs
<1>8. Is(diagonal, l * l, l * d)
  BY <1>4, <1>5, IsScaled
<1>9. Is(diagonal \ominus (factor \otimes q), l * l - m * k, l * d)
  BY <1>7, <1>8, DifferenceIs
<1>10. l * l - m * k # 0
  <2>1. l * l = 4 * (m * m) + 8 * (m * k) + 4 * (k * k)
    BY <1>2 DEF l
  <2>2. m * m >= 0 /\ m * k > 0 /\ k * k >= 0 /\ m * m \in Int /\ m * k \in Int /\ k * k \in Int
    BY <1>2, <1>3
  <2> QED
    BY <2>1, <2>2
<1>11. factor \in Fractions /\ diagonal \ominus (factor \otimes q) \in Fractions
  BY <1>6, <1>9 DEF Is
<1>12. diagonal \ominus (factor \otimes q) # Zero
  BY <1>9, <1>10, SignIs
<1> QED
  BY <1>11, <1>12 DEF factor, diagonal

\* The positive widths of the intervals.
WidthsOf(n) == {h \in [1..(n - 1) -> Fractions] : \A i \in 1..(n - 1) : Positive(h[i])}

\* The first and the last row of the system have one on the diagonal.
LEMMA OuterRow ==
  /\ Zero \oslash One \in Fractions
  /\ One \ominus ((Zero \oslash One) \otimes Zero) \in Fractions
  /\ One \ominus ((Zero \oslash One) \otimes Zero) # Zero
<1>1. Zero \in Fractions /\ One \in Fractions /\ One # Zero
  BY WholeIsFraction, ConstantsAreQuantities
<1>2. Zero \oslash One \in Fractions
  BY <1>1, QuotientIsFraction
<1>3. (Zero \oslash One) \otimes Zero = Zero
  <2> DEFINE q == Zero \oslash One
  <2>1. Is(q, q[1], q[2]) /\ Is(Zero, 0, 1) /\ q[1] \in Int
    BY <1>2, IsItself, ZeroIs, FractionParts
  <2>2. Is(q \otimes Zero, q[1] * 0, q[2] * 1)
    BY <2>1, ProductIs
  <2>3. q[1] * 0 = 0
    BY <2>1
  <2> QED
    BY <2>2, <2>3, SignIs
<1> QED
  BY <1>1, <1>2, <1>3, DifferenceIsZero

\* The sweep down divides by the diagonals, and leaves diagonals to divide by.
LEMMA SweptIs ==
  ASSUME NEW n \in Nat, n >= 2, NEW h \in WidthsOf(n), NEW alpha \in [1..n -> Fractions]
  PROVE  /\ Swept(h, alpha).upper \in [1..n -> Fractions]
         /\ Swept(h, alpha).rhs \in [1..n -> Fractions]
         /\ Swept(h, alpha).diagonal \in [1..n -> Fractions]
         /\ \A i \in 1..n : Swept(h, alpha).diagonal[i] # Zero
<1> DEFINE Inner(i) == i \in 2..(n - 1)
           lower == [i \in 1..n |-> IF Inner(i) THEN h[i - 1] ELSE Zero]
           upper == [i \in 1..n |-> IF Inner(i) THEN h[i] ELSE Zero]
           diagonal == [i \in 1..n |-> IF Inner(i) THEN Two \otimes (h[i - 1] \oplus h[i]) ELSE One]
           factor == [i \in 1..n |-> lower[i] \oslash diagonal[i]]
           Body(f) == [i \in 1..n |->
                         IF i = 1 THEN alpha[1] ELSE alpha[i] \ominus (factor[i] \otimes f[i - 1])]
           rhs == CHOOSE f : f = Body(f)
           left == [i \in 1..n |-> diagonal[i] \ominus (factor[i] \otimes upper[i])]
           After(i, q) == alpha[i] \ominus (factor[i] \otimes q)
           step == [i \in 2..n |-> [q \in Fractions |-> After(i, q)]]
<1>1. h \in [1..(n - 1) -> Fractions] /\ (\A i \in 1..(n - 1) : Positive(h[i])) /\ n - 1 \in Nat
  BY DEF WidthsOf
<1>2. Len(h) + 1 = n
  <2>1. Len(h) = n - 1
    BY <1>1, FunctionIsSequence
  <2> QED
    BY <2>1
<1>3. Swept(h, alpha) = [upper |-> upper, rhs |-> rhs, diagonal |-> left]
  BY <1>2 DEF Swept
<1>4. ASSUME NEW i \in 1..n
      PROVE  upper[i] \in Fractions /\ factor[i] \in Fractions /\ left[i] \in Fractions /\ left[i] # Zero
  <2>1. CASE Inner(i)
    <3>1. i - 1 \in 1..(n - 1) /\ i \in 1..(n - 1)
      BY <2>1
    <3>2. h[i - 1] \in Fractions /\ h[i] \in Fractions /\ Positive(h[i - 1]) /\ Positive(h[i])
      BY <1>1, <3>1
    <3>3. lower[i] = h[i - 1] /\ upper[i] = h[i] /\ diagonal[i] = Two \otimes (h[i - 1] \oplus h[i])
      BY <2>1
    <3>4. factor[i] = lower[i] \oslash diagonal[i] /\ left[i] = diagonal[i] \ominus (factor[i] \otimes upper[i])
      OBVIOUS
    <3> HIDE DEF lower, upper, diagonal, factor, left
    <3> QED
      BY <3>2, <3>3, <3>4, DiagonalIsLeft
  <2>2. CASE ~Inner(i)
    <3>1. lower[i] = Zero /\ upper[i] = Zero /\ diagonal[i] = One
      BY <2>2
    <3>2. factor[i] = lower[i] \oslash diagonal[i] /\ left[i] = diagonal[i] \ominus (factor[i] \otimes upper[i])
      OBVIOUS
    <3> HIDE DEF lower, upper, diagonal, factor, left
    <3> QED
      BY <3>1, <3>2, OuterRow, WholeIsFraction
  <2> QED
    BY <2>1, <2>2
<1>5. upper \in [1..n -> Fractions] /\ left \in [1..n -> Fractions]
  <2>1. upper = [i \in 1..n |-> upper[i]] /\ left = [i \in 1..n |-> left[i]]
    OBVIOUS
  <2> HIDE DEF upper, left
  <2> QED
    BY <1>4, <2>1
<1> HIDE DEF upper, left, factor, lower, diagonal
<1>6. ASSUME NEW i \in 2..n, NEW q \in Fractions PROVE After(i, q) \in Fractions
  <2>1. i \in 1..n
    OBVIOUS
  <2>2. alpha[i] \in Fractions /\ factor[i] \in Fractions
    BY <1>4, <2>1
  <2> QED
    BY <2>2, FractionsAreClosed
<1>7. step \in [2..n -> [Fractions -> Fractions]] /\ \A i \in 2..n : \A q \in Fractions : step[i][q] = After(i, q)
  BY <1>6
<1>8. ASSUME NEW f PROVE /\ Body(f) = [i \in 1..n |-> Body(f)[i]]
                         /\ Body(f)[1] = alpha[1]
                         /\ \A i \in 2..n : Body(f)[i] = After(i, f[i - 1])
  OBVIOUS
<1>9. alpha[1] \in Fractions /\ n \in Nat \ {0}
  OBVIOUS
<1> HIDE DEF step, Body, After
<1>10. PICK f \in [1..n -> Fractions] : Upward(n, alpha[1], step, f)
  BY <1>7, <1>9, UpwardExists
<1>11. f = Body(f)
  <2>1. ASSUME NEW i \in 1..n PROVE f[i] = Body(f)[i]
    <3>1. CASE i = 1
      BY <1>8, <1>10, <3>1 DEF Upward
    <3>2. CASE i # 1
      <4>1. i \in 2..n /\ i - 1 \in 1..n
        BY <3>2
      <4>2. f[i] = step[i][f[i - 1]] /\ f[i - 1] \in Fractions
        BY <1>10, <4>1 DEF Upward
      <4> QED
        BY <1>7, <1>8, <4>1, <4>2
    <3> QED
      BY <3>1, <3>2
  <2> QED
    BY <1>8, <2>1
<1>12. rhs = Body(rhs)
  BY <1>11
<1> HIDE DEF rhs
<1>13. rhs[1] \in Fractions /\ \A i \in 2..n : rhs[i - 1] \in Fractions => rhs[i] \in Fractions
  BY <1>6, <1>8, <1>9, <1>12
<1>14. \A i \in 1..n : rhs[i] \in Fractions
  BY <1>9, <1>13, StaysUpward
<1>15. rhs \in [1..n -> Fractions]
  BY <1>8, <1>12, <1>14
<1> QED
  BY <1>3, <1>4, <1>5, <1>15

\* So the sweep up gives a curvature at each point.
LEMMA BackSubstitutedIs ==
  ASSUME NEW n \in Nat, n >= 2, NEW s, s.upper \in [1..n -> Fractions], s.rhs \in [1..n -> Fractions],
         s.diagonal \in [1..n -> Fractions], \A i \in 1..n : s.diagonal[i] # Zero
  PROVE  BackSubstituted(s) \in [1..n -> Fractions]
<1> DEFINE Body(f) == [i \in 1..n |->
                         IF i = n THEN s.rhs[n] \oslash s.diagonal[n]
                         ELSE (s.rhs[i] \ominus (s.upper[i] \otimes f[i + 1])) \oslash s.diagonal[i]]
           c == CHOOSE f : f = Body(f)
           base == s.rhs[n] \oslash s.diagonal[n]
           After(i, q) == (s.rhs[i] \ominus (s.upper[i] \otimes q)) \oslash s.diagonal[i]
           step == [i \in 1..(n - 1) |-> [q \in Fractions |-> After(i, q)]]
<1>1. Len(s.rhs) = n /\ n \in Nat \ {0} /\ n \in 1..n
  BY FunctionIsSequence
<1>2. BackSubstituted(s) = c
  BY <1>1 DEF BackSubstituted
<1>3. base \in Fractions
  <2>1. s.rhs[n] \in Fractions /\ s.diagonal[n] \in Fractions /\ s.diagonal[n] # Zero
    BY <1>1
  <2> QED
    BY <2>1, QuotientIsFraction
<1>4. ASSUME NEW i \in 1..(n - 1), NEW q \in Fractions PROVE After(i, q) \in Fractions
  <2>1. i \in 1..n
    OBVIOUS
  <2>2. s.rhs[i] \in Fractions /\ s.upper[i] \in Fractions /\ s.diagonal[i] \in Fractions /\ s.diagonal[i] # Zero
    BY <2>1
  <2>3. s.rhs[i] \ominus (s.upper[i] \otimes q) \in Fractions
    BY <2>2, FractionsAreClosed
  <2> QED
    BY <2>2, <2>3, QuotientIsFraction
<1>5. step \in [1..(n - 1) -> [Fractions -> Fractions]]
      /\ \A i \in 1..(n - 1) : \A q \in Fractions : step[i][q] = After(i, q)
  BY <1>4
<1>6. ASSUME NEW f PROVE /\ Body(f) = [i \in 1..n |-> Body(f)[i]]
                         /\ Body(f)[n] = base
                         /\ \A i \in 1..(n - 1) : Body(f)[i] = After(i, f[i + 1])
  BY <1>1
<1> HIDE DEF step, Body, After, base
<1>7. PICK f \in [1..n -> Fractions] : Downward(n, base, step, f)
  BY <1>1, <1>3, <1>5, DownwardExists
<1>8. f = Body(f)
  <2>1. ASSUME NEW i \in 1..n PROVE f[i] = Body(f)[i]
    <3>1. CASE i = n
      BY <1>6, <1>7, <3>1 DEF Downward
    <3>2. CASE i # n
      <4>1. i \in 1..(n - 1) /\ i + 1 \in 1..n
        BY <3>2
      <4>2. f[i] = step[i][f[i + 1]] /\ f[i + 1] \in Fractions
        BY <1>7, <4>1 DEF Downward
      <4> QED
        BY <1>5, <1>6, <4>1, <4>2
    <3> QED
      BY <3>1, <3>2
  <2> QED
    BY <1>6, <2>1
<1>9. c = Body(c)
  BY <1>8
<1> HIDE DEF c
<1>10. c[n] \in Fractions /\ \A i \in 1..(n - 1) : c[i + 1] \in Fractions => c[i] \in Fractions
  BY <1>3, <1>4, <1>6, <1>9
<1>11. \A i \in 1..n : c[i] \in Fractions
  BY <1>1, <1>10, StaysDownward
<1> QED
  BY <1>2, <1>6, <1>9, <1>11

\* The points in the order of their places.
LEMMA SortedPointsAre ==
  ASSUME NEW xs, NEW ys, NEW x, Points(xs, ys, x)
  PROVE  LET points == SortedPoints(xs, ys)  n == Len(xs) IN
         /\ Len(points) = n /\ DOMAIN points = 1..n
         /\ \A i \in 1..n : points[i][1] \in Fractions /\ points[i][2] \in Fractions
         /\ Widths(points) \in WidthsOf(n)
         /\ points[n][1] = Largest(xs)
<1> DEFINE points == SortedPoints(xs, ys)
           n == Len(xs)
           pairs == [i \in DOMAIN xs |-> <<xs[i], ys[i]>>]
<1>1. /\ n \in Nat /\ n >= 2 /\ n \in 1..n /\ DOMAIN xs = 1..n /\ xs \in Seq(Fractions)
      /\ \A i \in 1..n : xs[i] \in Fractions /\ ys[i] \in Fractions
      /\ \A i, j \in 1..n : i # j => xs[i] # xs[j]
  BY DEF Points
<1>2. DOMAIN pairs = DOMAIN xs /\ \A i \in 1..n : pairs[i] = <<xs[i], ys[i]>>
  BY <1>1
<1>3. points = Sorted(pairs, xs)
  BY DEF SortedPoints
<1> HIDE DEF pairs
<1>4. DOMAIN points = 1..n /\ \A p \in 1..n : points[p] = pairs[Chosen(xs, p)]
  BY <1>1, <1>2, <1>3, SortedIs
<1>5. ASSUME NEW p \in 1..n
      PROVE  points[p] = <<xs[Chosen(xs, p)], ys[Chosen(xs, p)]>> /\ Chosen(xs, p) \in 1..n
  BY <1>1, <1>2, <1>4, SortingIsComplete
<1> DEFINE pts == [p \in 1..n |-> <<xs[Chosen(xs, p)], ys[Chosen(xs, p)]>>]
<1>6. points = pts
  <2>1. points = [p \in 1..n |-> points[p]]
    BY <1>3, <1>4 DEF Sorted
  <2> QED
    BY <1>5, <2>1
<1>7. Len(points) = n
  <2>1. pts \in [1..n -> Fractions \X Fractions]
    BY <1>1, <1>5
  <2> HIDE DEF pts, points
  <2> QED
    BY <1>1, <1>6, <2>1, FunctionIsSequence
<1> HIDE DEF points
<1>8. ASSUME NEW i \in 1..n PROVE points[i][1] \in Fractions /\ points[i][2] \in Fractions
  BY <1>1, <1>5
<1>9. ASSUME NEW i \in 1..(n - 1)
      PROVE  Widths(points)[i] \in Fractions /\ Positive(Widths(points)[i])
  <2>1. i \in 1..n /\ i + 1 \in 1..n /\ i < i + 1
    BY <1>1
  <2>2. Widths(points)[i] = points[i + 1][1] \ominus points[i][1]
    BY <1>7 DEF Widths
  <2> DEFINE j == Chosen(xs, i)  k == Chosen(xs, i + 1)
  <2>3. j \in 1..n /\ k \in 1..n /\ points[i][1] = xs[j] /\ points[i + 1][1] = xs[k]
    BY <1>5, <2>1
  <2>4. j # k /\ xs[j] \preceq xs[k]
    BY <1>1, <2>1, SortingIsComplete
  <2> HIDE DEF j, k
  <2>5. xs[j] \prec xs[k]
    BY <1>1, <2>3, <2>4, OrderIsTotal
  <2> QED
    BY <1>1, <2>2, <2>3, <2>5, DifferenceIsZero
<1>10. Widths(points) \in WidthsOf(n)
  <2>1. Widths(points) = [i \in 1..(n - 1) |-> Widths(points)[i]]
    BY <1>7 DEF Widths
  <2> QED
    BY <1>9, <2>1 DEF WidthsOf
<1>11. points[n][1] = Largest(xs)
  <2>1. Largest(xs) = xs[Chosen(xs, n)]
    BY <1>1, OrderedIs DEF Largest
  <2> QED
    BY <1>1, <1>5, <2>1
<1> QED
  BY <1>4, <1>7, <1>8, <1>10, <1>11 DEF points

\* A place and the width of the interval to the next one.
LEMMA WidthLeadsOn ==
  ASSUME NEW p \in Fractions, NEW q \in Fractions
  PROVE  p \oplus (q \ominus p) = q
<1>1. PICK m, n, d : Is(p, m, d) /\ Is(q, n, d)
  BY IsItself, CommonDenominator
<1>2. m \in Int /\ n \in Int
  BY <1>1 DEF Is
<1>3. Is(p \oplus (q \ominus p), m + (n - m), d)
  BY <1>1, DifferenceIs, SumIs
<1>4. m + (n - m) = n
  BY <1>2
<1> QED
  BY <1>1, <1>3, <1>4, OrderIs

\* The curvatures of the spline.
LEMMA CurvaturesAreTyped ==
  ASSUME NEW n \in Nat, n >= 2, NEW points, DOMAIN points = 1..n, NEW h \in WidthsOf(n),
         \A i \in 1..n : points[i][1] \in Fractions /\ points[i][2] \in Fractions
  PROVE  Curvatures(points, h) \in [1..n -> Fractions]
<1> DEFINE Secant(i) == (points[i + 1][2] \ominus points[i][2]) \oslash h[i]
           alpha == [i \in DOMAIN points |->
                       IF i \in 2..Len(h) THEN Whole(3) \otimes (Secant(i) \ominus Secant(i - 1)) ELSE Zero]
<1>1. h \in [1..(n - 1) -> Fractions] /\ (\A i \in 1..(n - 1) : Positive(h[i])) /\ n - 1 \in Nat
  BY DEF WidthsOf
<1>2. Len(h) = n - 1
  BY <1>1, FunctionIsSequence
<1>3. ASSUME NEW i \in 1..(n - 1) PROVE Secant(i) \in Fractions
  <2>1. i \in 1..n /\ i + 1 \in 1..n
    OBVIOUS
  <2>2. points[i + 1][2] \ominus points[i][2] \in Fractions
    BY <2>1, FractionsAreClosed
  <2>3. h[i] \in Fractions /\ h[i] # Zero
    BY <1>1, PositiveIsNotNegative
  <2> QED
    BY <2>2, <2>3, QuotientIsFraction
<1>4. Curvatures(points, h) = BackSubstituted(Swept(h, alpha))
  BY DEF Curvatures
<1>5. ASSUME NEW i \in 1..n PROVE alpha[i] \in Fractions
  <2>1. CASE i \in 2..Len(h)
    <3>1. i \in 1..(n - 1) /\ i - 1 \in 1..(n - 1)
      BY <1>2, <2>1
    <3>2. Secant(i) \in Fractions /\ Secant(i - 1) \in Fractions
      BY <1>3, <3>1
    <3>3. alpha[i] = Whole(3) \otimes (Secant(i) \ominus Secant(i - 1))
      BY <2>1
    <3> HIDE DEF Secant, alpha
    <3>4. Secant(i) \ominus Secant(i - 1) \in Fractions
      BY <3>2, FractionsAreClosed
    <3> QED
      BY <3>3, <3>4, FractionsAreClosed, WholeIsFraction
  <2>2. CASE i \notin 2..Len(h)
    BY <2>2, WholeIsFraction
  <2> QED
    BY <2>1, <2>2
<1>6. alpha = [i \in 1..n |-> alpha[i]]
  OBVIOUS
<1> HIDE DEF alpha
<1>7. alpha \in [1..n -> Fractions]
  BY <1>5, <1>6
<1> QED
  BY <1>4, <1>7, SweptIs, BackSubstitutedIs

\* A polynomial on an interval from a place on.
IsPiece(p, x, width) ==
  /\ p.x = x /\ p.x \in Fractions /\ p.width = width
  /\ p.a \in Fractions /\ p.b \in Fractions /\ p.c \in Fractions /\ p.d \in Fractions

\* What each interval of the spline is described by.
LEMMA PiecesAreTyped ==
  ASSUME NEW n \in Nat, n >= 2, NEW points, NEW h \in WidthsOf(n), NEW c \in [1..n -> Fractions],
         \A i \in 1..n : points[i][1] \in Fractions /\ points[i][2] \in Fractions
  PROVE  /\ DOMAIN PiecesOf(points, h, c) = 1..(n - 1)
         /\ \A i \in 1..(n - 1) : IsPiece(PiecesOf(points, h, c)[i], points[i][1], h[i])
<1>1. h \in [1..(n - 1) -> Fractions] /\ (\A i \in 1..(n - 1) : Positive(h[i])) /\ DOMAIN h = 1..(n - 1)
  BY DEF WidthsOf
<1>2. ASSUME NEW i \in 1..(n - 1)
      PROVE  IsPiece(PiecesOf(points, h, c)[i], points[i][1], h[i])
  <2> DEFINE b == ((points[i + 1][2] \ominus points[i][2]) \oslash h[i])
                    \ominus ((h[i] \otimes ((Two \otimes c[i]) \oplus c[i + 1])) \oslash Whole(3))
             d == (c[i + 1] \ominus c[i]) \oslash (Whole(3) \otimes h[i])
  <2>1. i \in 1..n /\ i + 1 \in 1..n
    OBVIOUS
  <2>2. /\ c[i] \in Fractions /\ c[i + 1] \in Fractions /\ h[i] \in Fractions /\ h[i] # Zero /\ Positive(h[i])
        /\ points[i][1] \in Fractions /\ points[i][2] \in Fractions /\ points[i + 1][2] \in Fractions
    BY <1>1, <2>1, PositiveIsNotNegative
  <2>3. Whole(3) \in Fractions /\ Positive(Whole(3)) /\ Whole(3) # Zero /\ Two \in Fractions
    BY WholeIsFraction, PositiveIsNotNegative
  <2>4. b \in Fractions
    <3>1. (points[i + 1][2] \ominus points[i][2]) \oslash h[i] \in Fractions
      BY <2>2, FractionsAreClosed, QuotientIsFraction
    <3>2. h[i] \otimes ((Two \otimes c[i]) \oplus c[i + 1]) \in Fractions
      BY <2>2, <2>3, FractionsAreClosed
    <3>3. (h[i] \otimes ((Two \otimes c[i]) \oplus c[i + 1])) \oslash Whole(3) \in Fractions
      BY <2>3, <3>2, QuotientIsFraction
    <3> QED
      BY <3>1, <3>3, FractionsAreClosed
  <2>5. d \in Fractions
    <3>1. Whole(3) \otimes h[i] \in Fractions /\ Positive(Whole(3) \otimes h[i])
      BY <2>2, <2>3, FractionsAreClosed, SignOfProduct
    <3>2. Whole(3) \otimes h[i] # Zero
      BY <3>1, PositiveIsNotNegative
    <3> QED
      BY <2>2, <3>1, <3>2, FractionsAreClosed, QuotientIsFraction
  <2>6. PiecesOf(points, h, c)[i] = [x |-> points[i][1], a |-> points[i][2], width |-> h[i], c |-> c[i],
                                     b |-> b, d |-> d]
    BY <1>1 DEF PiecesOf
  <2> HIDE DEF b, d
  <2> QED
    BY <2>2, <2>4, <2>5, <2>6 DEF IsPiece
<1>3. DOMAIN PiecesOf(points, h, c) = 1..(n - 1)
  BY <1>1 DEF PiecesOf
<1> QED
  BY <1>2, <1>3

\* The target is in an interval of the spline, which gives its value.
LEMMA CubicSplineIsQuantity ==
  ASSUME NEW xs, NEW ys, NEW x, Points(xs, ys, x)
  PROVE  CubicSpline(xs, ys, x) \in Quantities
<1> DEFINE points == SortedPoints(xs, ys)
           n == Len(xs)
           h == Widths(points)
           c == Curvatures(points, h)
           pieces == PiecesOf(points, h, c)
           here == {i \in DOMAIN pieces : x \preceq (pieces[i].x \oplus pieces[i].width)}
           k == CHOOSE i \in here : \A j \in here : i <= j
<1>1. n \in Nat /\ n >= 2 /\ x \in Fractions /\ x \preceq Largest(xs)
  BY DEF Points
<1>2. /\ DOMAIN points = 1..n /\ Len(points) = n
      /\ \A i \in 1..n : points[i][1] \in Fractions /\ points[i][2] \in Fractions
      /\ h \in WidthsOf(n)
      /\ points[n][1] = Largest(xs)
  BY SortedPointsAre
<1>3. CubicSpline(xs, ys, x) = PieceAt(pieces[k], x \ominus pieces[k].x)
  BY DEF CubicSpline, Pieces, InPieces
<1>4. h = [i \in 1..(n - 1) |-> points[i + 1][1] \ominus points[i][1]]
  BY <1>2 DEF Widths
<1> HIDE DEF points, h, n
<1>5. c \in [1..n -> Fractions]
  BY <1>1, <1>2, CurvaturesAreTyped
<1> HIDE DEF c
<1>6. /\ DOMAIN pieces = 1..(n - 1)
      /\ \A i \in 1..(n - 1) :
           /\ pieces[i].x = points[i][1] /\ pieces[i].x \in Fractions /\ pieces[i].width = h[i]
           /\ pieces[i].a \in Fractions /\ pieces[i].b \in Fractions
           /\ pieces[i].c \in Fractions /\ pieces[i].d \in Fractions
  <2>1. DOMAIN pieces = 1..(n - 1) /\ \A i \in 1..(n - 1) : IsPiece(pieces[i], points[i][1], h[i])
    <3>1. n \in Nat /\ n >= 2 /\ h \in WidthsOf(n) /\ c \in [1..n -> Fractions]
      BY <1>1, <1>2, <1>5
    <3>2. \A i \in 1..n : points[i][1] \in Fractions /\ points[i][2] \in Fractions
      BY <1>2
    <3> QED
      BY ONLY <3>1, <3>2, PiecesAreTyped, Zenon
  <2> QED
    BY <2>1 DEF IsPiece
<1> HIDE DEF pieces
<1>7. n - 1 \in here
  <2> DEFINE l == n - 1
  <2>1. l \in 1..(n - 1) /\ l \in 1..n /\ l + 1 = n /\ n \in 1..n
    BY <1>1
  <2>2. pieces[l].x = points[l][1] /\ pieces[l].width = points[n][1] \ominus points[l][1]
    BY <1>4, <1>6, <2>1
  <2>3. pieces[l].x \oplus pieces[l].width = points[n][1]
    BY <1>2, <2>1, <2>2, WidthLeadsOn
  <2> QED
    BY <1>1, <1>2, <1>6, <2>1, <2>3
<1>8. here \subseteq Nat
  BY <1>1, <1>6
<1>9. k \in 1..(n - 1)
  <2>1. here \subseteq 1..(n - 1)
    BY <1>6
  <2> HIDE DEF here
  <2> QED
    BY <1>7, <1>8, <2>1, FirstIs
<1> HIDE DEF k, here
<1> DEFINE dx == x \ominus pieces[k].x
<1>10. dx \in Fractions /\ Square(dx) \in Fractions /\ dx \otimes Square(dx) \in Fractions
  BY <1>1, <1>6, <1>9, FractionsAreClosed DEF Square
<1> HIDE DEF dx
<1>11. PieceAt(pieces[k], dx) \in Fractions
  <2>1. /\ pieces[k].b \otimes dx \in Fractions
        /\ pieces[k].c \otimes Square(dx) \in Fractions
        /\ pieces[k].d \otimes (dx \otimes Square(dx)) \in Fractions
    BY <1>6, <1>9, <1>10, FractionsAreClosed
  <2>2. (pieces[k].c \otimes Square(dx)) \oplus (pieces[k].d \otimes (dx \otimes Square(dx))) \in Fractions
    BY <2>1, FractionsAreClosed
  <2>3. (pieces[k].b \otimes dx) \oplus ((pieces[k].c \otimes Square(dx)) \oplus (pieces[k].d \otimes (dx \otimes Square(dx))))
          \in Fractions
    BY <2>1, <2>2, FractionsAreClosed
  <2> QED
    BY <1>6, <1>9, <2>3, FractionsAreClosed DEF PieceAt
<1> QED
  BY <1>3, <1>11, FractionsAreQuantities DEF dx

\* What schema validation admits as points.
Samples(a) ==
  /\ {"x_values", "y_values"} \subseteq DOMAIN a
  /\ a.x_values \in Seq(Fractions) /\ a.y_values \in Seq(Fractions)
  /\ "x" \in DOMAIN a => a.x \in Fractions

\* Every operation of interpolation.
LEMMA InterpolationToolAnswers ==
  ASSUME NEW op, NEW a, Samples(a), "x" \in DOMAIN a
  PROVE  Answers(InterpolationTool(op, a))
<1>1. ASSUME NEW minimum \in {2, 4}, Prepared(a, minimum) PROVE Points(a.x_values, a.y_values, a.x)
  BY <1>1 DEF Prepared, Points, Samples
<1>2. ASSUME NEW minimum \in {2, 4}, Prepared(a, minimum)
      PROVE  /\ Answers(Finish(Linear(a.x_values, a.y_values, a.x)))
             /\ Answers(Finish(Lagrange(a.x_values, a.y_values, a.x)))
             /\ Answers(Finish(NewtonInterpolant(a.x_values, a.y_values, a.x)))
             /\ Answers(Finish(CubicSpline(a.x_values, a.y_values, a.x)))
  <2>1. Points(a.x_values, a.y_values, a.x)
    BY <1>1, <1>2
  <2> QED
    BY <2>1, LinearIsQuantity, LagrangeIsQuantity, NewtonIsQuantity, CubicSplineIsQuantity, QuantityAnswers
<1>3. Answers(Refused)
  BY DEF Answers
<1> QED
  BY <1>2, <1>3 DEF InterpolationTool

-----------------------------------------------------------------------------
(* Regression and statistics *)

\* The length of a sequence that is not empty divides.
LEMMA LengthDivides ==
  ASSUME NEW n \in Nat \ {0}
  PROVE  Whole(n) \in Fractions /\ Whole(n) # Zero /\ Positive(Whole(n))
BY WholeIsFraction, PositiveIsNotNegative

\* The mean of numbers is a number.
LEMMA MeanIsFraction ==
  ASSUME NEW s \in Seq(Fractions), s # <<>>
  PROVE  Mean(s) \in Fractions
<1>1. Len(s) \in Nat \ {0}
  OBVIOUS
<1> QED
  BY <1>1, LengthDivides, SumOfFractions, QuotientIsFraction DEF Mean

\* So are the differences from it.
LEMMA CentredIsTyped ==
  ASSUME NEW s \in Seq(Fractions), s # <<>>
  PROVE  Centred(s) \in Seq(Fractions) /\ Len(Centred(s)) = Len(s)
<1>1. Len(s) \in Nat /\ DOMAIN s = 1..Len(s) /\ \A i \in 1..Len(s) : s[i] \in Fractions
  OBVIOUS
<1>2. Centred(s) \in [1..Len(s) -> Fractions]
  BY <1>1, MeanIsFraction, FractionsAreClosed DEF Centred
<1> QED
  BY <1>1, <1>2, FunctionIsSequence

\* The variation is a sum of squares.
LEMMA VariationIs ==
  ASSUME NEW s \in Seq(Fractions), s # <<>>
  PROVE  Variation(s) \in NotNegative /\ Variation(s) \in Fractions
<1>1. Variation(s) = Dot(Centred(s), Centred(s))
  BY DEF Variation, SumOfProducts, Dot
<1> QED
  BY <1>1, CentredIsTyped, DotOfItself, NotNegativeIs

\* The covariation of two samples.
LEMMA CovariationIs ==
  ASSUME NEW s \in Seq(Fractions), NEW t \in Seq(Fractions), s # <<>>, Len(s) = Len(t)
  PROVE  SumOfProducts(Centred(s), Centred(t)) \in Fractions
<1>1. SumOfProducts(Centred(s), Centred(t)) = Dot(Centred(s), Centred(t))
  BY DEF SumOfProducts, Dot
<1>2. t # <<>>
  OBVIOUS
<1> QED
  BY <1>1, <1>2, CentredIsTyped, DotIsFraction

\* The operations of regression but the one that divides by a root of a product.
LEMMA RegressionToolAnswers ==
  ASSUME NEW op, NEW a, Samples(a), op # "correlation"
  PROVE  Answers(RegressionTool(op, a))
<1> DEFINE xs == a.x_values
           ys == a.y_values
           model == LinearModel(xs, ys)
<1>1. Answers(Refused) /\ \A v : Answers(Value(v))
  BY DEF Answers
<1> SUFFICES ASSUME ~(Len(xs) # Len(ys) \/ Len(xs) < 2) PROVE Answers(RegressionTool(op, a))
  BY <1>1 DEF RegressionTool
<1>2. /\ xs \in Seq(Fractions) /\ ys \in Seq(Fractions) /\ Len(xs) = Len(ys) /\ xs # <<>> /\ ys # <<>>
      /\ "x" \in DOMAIN a => a.x \in Fractions
  BY DEF Samples
<1>3. RegressionTool(op, a) =
        CASE op = "linear" -> IF Variation(xs) = Zero THEN Refused ELSE Value(model)
          [] op = "predict" ->
               IF "x" \notin DOMAIN a \/ Variation(xs) = Zero THEN Refused
               ELSE Finish(model.intercept \oplus (model.slope \otimes a.x))
          [] OTHER -> Refused
  BY DEF RegressionTool
<1> HIDE DEF xs, ys
<1>4. /\ Variation(xs) \in NotNegative /\ Variation(ys) \in NotNegative
      /\ Variation(xs) \in Fractions /\ Variation(ys) \in Fractions
      /\ SumOfProducts(Centred(xs), Centred(ys)) \in Fractions
      /\ Mean(xs) \in Fractions /\ Mean(ys) \in Fractions
  BY <1>2, VariationIs, CovariationIs, MeanIsFraction
<1>6. ASSUME Variation(xs) # Zero, "x" \in DOMAIN a
      PROVE  Answers(Finish(model.intercept \oplus (model.slope \otimes a.x)))
  <2> DEFINE slope == Slope(xs, ys)
             intercept == Mean(ys) \ominus (slope \otimes Mean(xs))
  <2>1. model.slope = slope /\ model.intercept = intercept
    BY DEF LinearModel, LineWith
  <2>2. slope \in Fractions
    BY <1>4, <1>6, QuotientIsFraction DEF Slope
  <2> HIDE DEF model, slope
  <2>3. intercept \in Fractions
    BY <1>4, <2>2, FractionsAreClosed
  <2> HIDE DEF intercept
  <2>4. intercept \oplus (slope \otimes a.x) \in Fractions
    BY <1>2, <1>6, <2>2, <2>3, FractionsAreClosed
  <2> QED
    BY <2>1, <2>4, FractionsAreQuantities, QuantityAnswers
<1> HIDE DEF model
<1> QED
  BY <1>1, <1>3, <1>6

\* The middle of the values in order.
LEMMA MedianIsFraction ==
  ASSUME NEW s \in Seq(Fractions), s # <<>>
  PROVE  Median(s) \in Fractions
<1> DEFINE data == Ordered(s)
           n == Len(s)
           middle == n \div 2
<1>1. n \in Nat \ {0}
  OBVIOUS
<1>2. \A p \in 1..n : data[p] \in Fractions
  BY OrderedIs
<1>3. Median(s) = IF n % 2 = 1 THEN data[middle + 1] ELSE (data[middle] \oplus data[middle + 1]) \oslash Two
  BY DEF Median
<1> HIDE DEF n, data
<1>4. n = 2 * (n \div 2) + (n % 2) /\ n % 2 \in 0..1 /\ n \div 2 \in Nat
  BY <1>1
<1> HIDE DEF middle
<1>5. middle \in Nat /\ n = 2 * middle + (n % 2)
  BY <1>4 DEF middle
<1>6. CASE n % 2 = 1
  BY <1>1, <1>2, <1>3, <1>5, <1>6
<1>7. CASE n % 2 = 0
  <2>1. middle \in 1..n /\ middle + 1 \in 1..n
    BY <1>1, <1>5, <1>7
  <2>2. data[middle] \oplus data[middle + 1] \in Fractions
    BY <1>2, <2>1, FractionsAreClosed
  <2>3. Two \in Fractions /\ Two # Zero
    BY WholeIsFraction, ConstantsAreQuantities
  <2> QED
    BY <1>3, <1>7, <2>2, <2>3, QuotientIsFraction
<1> QED
  BY <1>4, <1>6, <1>7

\* The values around the position of a percentile are there.
LEMMA PercentileIsFraction ==
  ASSUME NEW s \in Seq(Fractions), s # <<>>, NEW p \in Fractions, Zero \preceq p, p \preceq Whole(100)
  PROVE  Percentile(s, p) \in Fractions
<1> DEFINE data == Ordered(s)
           n == Len(s)
           position == (Whole(n - 1) \otimes p) \oslash Whole(100)
           lower == position[1] \div position[2]
           fraction == position \ominus Whole(lower)
<1>1. n \in Nat \ {0}
  OBVIOUS
<1>2. \A q \in 1..n : data[q] \in Fractions
  BY OrderedIs
<1>3. Percentile(s, p) = IF fraction = Zero THEN data[lower + 1]
                         ELSE data[lower + 1] \oplus (fraction \otimes (data[lower + 2] \ominus data[lower + 1]))
  BY DEF Percentile
<1> HIDE DEF n, data
<1> DEFINE m == p[1]  d == p[2]  l == n - 1
<1>4. m \in Int /\ d \in Nat \ {0} /\ l \in Nat /\ Is(p, m, d)
  <2>1. m \in Int /\ d \in Nat \ {0}
    BY FractionParts
  <2>2. l \in Nat
    BY <1>1
  <2>3. Is(p, m, d)
    BY IsItself
  <2> HIDE DEF m, d, l
  <2> QED
    BY <2>1, <2>2, <2>3
<1>5. 0 <= m /\ m <= 100 * d
  <2> HIDE DEF m, d
  <2>1. Is(Zero, 0, d)
    BY <1>4, ZeroIs
  <2>2. Is(Whole(100), 100 * d, d)
    BY <1>4, WholeIs
  <2>3. 100 * d \in Int
    BY <1>4
  <2>4. 0 <= m
    BY <1>4, <2>1, OrderIs
  <2>5. m <= 100 * d
    BY <1>4, <2>2, <2>3, OrderIs
  <2> QED
    BY <2>4, <2>5
<1> DEFINE e == 100 * d
<1>6. e \in Nat \ {0} /\ e > 0
  BY <1>4
<1>7. Is(position, l * m, e)
  <2>1. Is(Whole(l), l * 1, 1)
    BY <1>4, WholeIs
  <2>2. Is(Whole(l), l, 1)
    BY <1>4, <2>1
  <2> HIDE DEF m, d, l
  <2>3. Is(Whole(l) \otimes p, l * m, 1 * d)
    BY <1>4, <2>2, ProductIs
  <2>4. Is(Whole(l) \otimes p, l * m, d)
    BY <1>4, <2>3
  <2>5. Is(Whole(100), e, d)
    BY <1>4, WholeIs
  <2>6. Is((Whole(l) \otimes p) \oslash Whole(100), l * m, e)
    BY <1>6, <2>4, <2>5, QuotientIs
  <2> QED
    BY <2>6 DEF l
<1> HIDE DEF m, d, l, e, position
<1>8. l * m \in Int /\ 0 <= l * m /\ l * m <= l * e
  BY <1>4, <1>5 DEF e
<1>9. Is(Zero, 0, e) /\ Is(Whole(l), l * e, e)
  <2>1. Is(Zero, 0, e)
    BY <1>6, ZeroIs
  <2>2. Is(Whole(l), l * e, e)
    BY <1>4, <1>6, WholeIs
  <2> QED
    BY <2>1, <2>2
<1>10. Zero \preceq position /\ position \preceq Whole(l)
  BY <1>7, <1>8, <1>9, OrderIs
<1> DEFINE b == position[1]  c == position[2]
<1>11. position \in Fractions /\ b \in Int /\ c \in Nat \ {0}
  <2>1. position \in Fractions
    BY <1>7 DEF Is
  <2> QED
    BY <2>1, FractionParts
<1>12. 0 <= b /\ b <= l * c
  <2>1. 0 * c <= b * 1 /\ b * 1 <= l * c
    BY <1>10 DEF \preceq, Zero, Whole
  <2> HIDE DEF b, c
  <2> QED
    BY <1>4, <1>11, <2>1
<1>13. lower \in Int /\ c * lower <= b /\ b < c * lower + c
  <2> HIDE DEF b, c
  <2>1. b \div c \in Int /\ c * (b \div c) <= b /\ b < c * (b \div c) + c
    BY <1>11
  <2> QED
    BY <2>1 DEF b, c
<1>14. 0 <= lower /\ lower <= l /\ (lower = l => b = l * c)
  <2> HIDE DEF b, c, lower
  <2>1. 0 <= lower
    <3> SUFFICES ASSUME lower <= -1 PROVE FALSE
      BY <1>13
    <3>1. c * lower <= c * (-1)
      BY <1>11, <1>13
    <3> QED
      BY <1>11, <1>12, <1>13, <3>1
  <2>2. lower <= l
    <3> SUFFICES ASSUME lower >= l + 1 PROVE FALSE
      BY <1>4, <1>13
    <3>1. c * lower >= c * (l + 1)
      BY <1>4, <1>11, <1>13
    <3>2. c * (l + 1) = l * c + c
      BY <1>4, <1>11
    <3> QED
      BY <1>4, <1>11, <1>12, <1>13, <3>1, <3>2
  <2>3. ASSUME lower = l PROVE b = l * c
    <3>1. c * l = l * c /\ l * c \in Int
      BY <1>4, <1>11
    <3> QED
      BY <1>11, <1>12, <1>13, <2>3, <3>1
  <2> QED
    BY <2>1, <2>2, <2>3
<1>15. Whole(lower) \in Fractions /\ fraction \in Fractions
  BY <1>11, <1>13, WholeIsFraction, FractionsAreClosed
<1>16. lower = l => fraction = Zero
  <2> SUFFICES ASSUME lower = l PROVE fraction = Zero
    OBVIOUS
  <2>1. Whole(l) \in Fractions
    BY <1>4, WholeIsFraction
  <2>2. Whole(l) \preceq position
    <3>1. b = l * c
      BY <1>14
    <3>2. l * c <= b * 1
      <4> HIDE DEF b, c
      <4> QED
        BY <1>4, <1>11, <3>1
    <3> QED
      BY <3>2 DEF \preceq, Whole
  <2>3. position = Whole(l)
    BY <1>10, <1>11, <2>1, <2>2, OrderIsTotal
  <2>4. fraction = position \ominus position
    BY <2>3
  <2>5. Is(position \ominus position, l * m - l * m, e)
    BY <1>7, DifferenceIs
  <2>6. l * m - l * m = 0
    BY <1>8
  <2> QED
    BY <2>4, <2>5, <2>6, SignIs
<1> HIDE DEF lower, fraction
<1>17. lower + 1 \in 1..n /\ (fraction # Zero => lower + 2 \in 1..n)
  BY <1>1, <1>13, <1>14, <1>16 DEF l
<1> QED
  BY <1>2, <1>3, <1>15, <1>17, FractionsAreClosed

\* The root of the mean of the squares.
LEMMA RootMeanSquareIsQuantity ==
  ASSUME NEW s \in Seq(Fractions), s # <<>>
  PROVE  RootMeanSquare(s) \in Quantities
<1> DEFINE q == SumOfProducts(s, s) \oslash Whole(Len(s))
<1>1. Len(s) \in Nat \ {0}
  OBVIOUS
<1>2. SumOfProducts(s, s) \in NotNegative
  <2>1. SumOfProducts(s, s) = Dot(s, s)
    BY DEF SumOfProducts, Dot
  <2> QED
    BY <2>1, DotOfItself
<1>3. q \in NotNegative
  BY <1>1, <1>2, LengthDivides, SignOfQuotient
<1>4. q \in Quantities /\ ~Negative(q)
  BY <1>3, FractionsAreQuantities DEF NotNegative
<1>5. RootMeanSquare(s) = Sqrt(q)
  BY DEF RootMeanSquare
<1> QED
  BY <1>4, <1>5, RootIsQuantity

\* The variance and its root.
LEMMA VarianceIs ==
  ASSUME NEW s \in Seq(Fractions), s # <<>>, NEW sample \in BOOLEAN, sample => Len(s) >= 2
  PROVE  Variance(s, sample) \in Quantities /\ Sqrt(Variance(s, sample)) \in Quantities
<1> DEFINE n == IF sample THEN Len(s) - 1 ELSE Len(s)
<1>1. n \in Nat \ {0}
  <2>1. Len(s) \in Nat \ {0} /\ (Len(s) >= 2 => Len(s) - 1 \in Nat \ {0})
    OBVIOUS
  <2>2. CASE sample
    <3>1. Len(s) >= 2
      BY <2>2
    <3>2. n = Len(s) - 1
      BY <2>2, Zenon
    <3> QED
      BY <2>1, <3>1, <3>2
  <2>3. CASE ~sample
    <3>1. n = Len(s)
      BY <2>3, Zenon
    <3> QED
      BY <2>1, <3>1
  <2> QED
    BY <2>2, <2>3
<1>2. Variance(s, sample) = Variation(s) \oslash Whole(n)
  BY DEF Variance
<1> HIDE DEF n
<1>3. Variance(s, sample) \in NotNegative
  BY <1>1, <1>2, LengthDivides, VariationIs, SignOfQuotient
<1> QED
  BY <1>3, FractionsAreQuantities, RootIsQuantity DEF NotNegative

\* What schema validation admits as values.
Values(a) ==
  /\ "values" \in DOMAIN a /\ a.values \in Seq(Fractions)
  /\ "sample" \in DOMAIN a => a.sample \in BOOLEAN
  /\ "percentile" \in DOMAIN a => a.percentile \in Fractions

\* Every operation of statistics.
LEMMA StatisticsToolAnswers ==
  ASSUME NEW op, NEW given, Values(given)
  PROVE  Answers(StatisticsTool(op, given))
<1> DEFINE a == WithDefault(given, "sample", FALSE)
           s == a.values
<1>1. Answers(Refused) /\ \A v : Answers(Value(v))
  BY DEF Answers
<1>2. Values(a) /\ "sample" \in DOMAIN a
  BY DEF Values, WithDefault
<1> HIDE DEF a
<1>3. s \in Seq(Fractions) /\ a.sample \in BOOLEAN /\ ("percentile" \in DOMAIN a => a.percentile \in Fractions)
  BY <1>2 DEF Values
<1> SUFFICES ASSUME s # <<>> PROVE Answers(StatisticsTool(op, given))
  BY <1>1 DEF StatisticsTool, a
<1>4. Len(s) \in Nat \ {0} /\ 1 \in 1..Len(s) /\ Len(s) \in 1..Len(s)
  BY <1>3
<1>5. Answers(Finish(SumOf(s))) /\ Answers(Finish(Mean(s))) /\ Answers(Finish(Median(s)))
  BY <1>3, SumOfFractions, MeanIsFraction, MedianIsFraction, FractionsAreQuantities, QuantityAnswers
<1>6. ASSUME ~(a.sample /\ Len(s) < 2)
      PROVE  /\ Answers(Finish(Variance(s, a.sample)))
             /\ Answers(Finish(Sqrt(Variance(s, a.sample))))
  <2>1. a.sample => Len(s) >= 2
    BY <1>4, <1>6
  <2> QED
    BY <1>3, <2>1, VarianceIs, QuantityAnswers
<1>7. Answers(Finish(Largest(s) \ominus Smallest(s)))
  <2>1. Largest(s) \in Fractions /\ Smallest(s) \in Fractions
    BY <1>3, <1>4, OrderedIs DEF Largest, Smallest
  <2> QED
    BY <2>1, FractionsAreClosed, FractionsAreQuantities, QuantityAnswers
<1>8. ASSUME "percentile" \in DOMAIN a, Zero \preceq a.percentile, a.percentile \preceq Whole(100)
      PROVE  Answers(Finish(Percentile(s, a.percentile)))
  BY <1>3, <1>8, PercentileIsFraction, FractionsAreQuantities, QuantityAnswers
<1>9. Answers(Finish(RootMeanSquare(s)))
  BY <1>3, RootMeanSquareIsQuantity, QuantityAnswers
<1>10. CASE op \in {"sum", "mean", "median", "mode"}
  BY <1>1, <1>5, <1>10 DEF StatisticsTool, a
<1>11. CASE op \in {"variance", "standard_deviation", "stddev", "std"}
  <2>1. StatisticsTool(op, given) =
          IF a.sample /\ Len(s) < 2 THEN Refused
          ELSE Finish(IF op = "variance" THEN Variance(s, a.sample) ELSE Sqrt(Variance(s, a.sample)))
    BY <1>11 DEF StatisticsTool, a
  <2> QED
    BY <1>1, <1>6, <2>1
<1>12. CASE op \in {"min", "minimum", "max", "maximum", "range"}
  BY <1>1, <1>7, <1>12 DEF StatisticsTool, a
<1>13. CASE op \in {"percentile", "percent"}
  BY <1>1, <1>8, <1>13 DEF StatisticsTool, a
<1>14. CASE op = "rms"
  BY <1>9, <1>14 DEF StatisticsTool, a
<1>15. CASE op \notin {"sum", "mean", "median", "mode", "variance", "standard_deviation", "stddev", "std",
                       "min", "minimum", "max", "maximum", "range", "percentile", "percent", "rms"}
  BY <1>1, <1>15 DEF StatisticsTool, a
<1> QED
  BY <1>10, <1>11, <1>12, <1>13, <1>14, <1>15

\* Signal processing raises an error that is not its own only for a sample rate.
LEMMA SignalToolAnswers ==
  ASSUME NEW op, NEW a, a.values \in Seq(Fractions)
  PROVE  Answers(SignalTool(op, a)) \/ {"sample_rate"} \subseteq DOMAIN a
<1> DEFINE s == a.values
<1>1. Answers(Refused) /\ \A v : Answers(Value(v))
  BY DEF Answers
<1> SUFFICES ASSUME "sample_rate" \notin DOMAIN a, s # <<>> PROVE Answers(SignalTool(op, a))
  BY <1>1 DEF SignalTool
<1>2. Answers(Finish(RootMeanSquare(s)))
  BY RootMeanSquareIsQuantity, QuantityAnswers
<1> QED
  BY <1>1, <1>2 DEF SignalTool

\* The frequency domain raises no error that is not its own.
LEMMA FrequencyToolAnswers ==
  ASSUME NEW op, NEW a
  PROVE  Answers(FrequencyTool(op, a))
BY DEF FrequencyTool, Answers

-----------------------------------------------------------------------------
(* The bracketing methods *)

\* The arguments of a call, with the defaults, that has passed the checks of BeginBracketed.
BracketArguments(a) ==
  /\ a.expression.polynomial \in Seq(Fractions)
  /\ a.lower \in Fractions /\ a.upper \in Fractions
  /\ a.tolerance \in Fractions /\ Positive(a.tolerance)
  /\ a.max_iterations[1] \in Nat \ {0}

\* The work of a bracketing method, for the operation and the arguments of the call.
BracketWork(op, a) ==
  [method : {op}, a : Fractions, b : Fractions, fa : Fractions, fb : Fractions,
   iteration : 1..a.max_iterations[1], call : {a}]

\* Evaluating an expression at some places keeps a result, or is an error.
LEMMA AttemptIs ==
  ASSUME NEW f, NEW places, NEW r
  PROVE  \/ Attempt(f, places, r) = r
         \/ Attempt(f, places, r) = Refused
         \/ Attempt(f, places, r) = Crash /\ f.fault = "complex"
BY DEF Attempt

\* What an iteration or a beginning may lead to: an error, a root in the bracket, or work with
\* a bracket.
Narrows(w, r) ==
  \/ r = Refused
  \/ r = Crash /\ w.call.expression.fault = "complex"
  \/ \E x : r = Value(x) /\ IsRootIn(w, x)
  \/ \E v \in BracketWork(w.method, w.call) : r = Work(v) /\ Brackets(v)

\* So does evaluating the expression of the call on the way.
LEMMA AttemptNarrows ==
  ASSUME NEW w, NEW places, NEW r, Narrows(w, r)
  PROVE  Narrows(w, Attempt(w.call.expression, places, r))
<1> DEFINE q == Attempt(w.call.expression, places, r)
<1>1. q = r \/ q = Refused \/ (q = Crash /\ w.call.expression.fault = "complex")
  BY AttemptIs
<1> HIDE DEF q
<1>2. Narrows(w, q)
  BY <1>1 DEF Narrows
<1> QED
  BY <1>2 DEF q

\* One more iteration leaves the bracket alone.
LEMMA AgainNarrows ==
  ASSUME NEW op, NEW a, BracketArguments(a), NEW w, NEW v \in BracketWork(op, a), Brackets(v),
         w.method = op, w.call = a
  PROVE  Narrows(w, Again(v))
<1>1. v.iteration \in 1..a.max_iterations[1] /\ v.call = a /\ a.max_iterations[1] \in Nat
  BY DEF BracketWork, BracketArguments
<1>2. CASE v.iteration >= v.call.max_iterations[1]
  BY <1>2 DEF Again, Narrows
<1>3. CASE ~(v.iteration >= v.call.max_iterations[1])
  <2> DEFINE u == [v EXCEPT !.iteration = @ + 1]
  <2>1. v.iteration + 1 \in 1..a.max_iterations[1]
    BY <1>1, <1>3
  <2>2. u \in BracketWork(op, a)
    BY <2>1 DEF BracketWork
  <2>3. u.a = v.a /\ u.b = v.b /\ u.fa = v.fa /\ u.fb = v.fb /\ u.call = v.call
    BY DEF BracketWork
  <2>4. Again(v) = Work(u)
    BY <1>3 DEF Again
  <2> HIDE DEF u
  <2>5. Brackets(u)
    BY <2>3 DEF Brackets
  <2> QED
    BY <2>2, <2>4, <2>5 DEF Narrows
<1> QED
  BY <1>2, <1>3

\* A place strictly inside the bracket can take the place of the end with the same sign.
LEMMA LeftHalfBrackets ==
  ASSUME NEW op, NEW a, BracketArguments(a), NEW w \in BracketWork(op, a), Brackets(w),
         NEW c \in Fractions, w.a \prec c, c \prec w.b,
         OppositeSigns(w.fa, Evaluate(a.expression, c))
  PROVE  LET v == [w EXCEPT !.b = c, !.fb = Evaluate(a.expression, c)] IN
         v \in BracketWork(op, a) /\ Brackets(v)
<1> DEFINE fc == Evaluate(a.expression, c)
           v == [w EXCEPT !.b = c, !.fb = fc]
<1>1. fc \in Fractions
  BY EvaluateIsTyped DEF BracketArguments
<1> HIDE DEF fc
<1>2. v \in BracketWork(op, a)
  BY <1>1 DEF BracketWork
<1>3. v.a = w.a /\ v.b = c /\ v.fa = w.fa /\ v.fb = fc /\ v.call = a /\ w.call = a
  BY DEF BracketWork
<1>4. w.a \in Fractions /\ w.b \in Fractions
  BY DEF BracketWork
<1>5. /\ Lower(a) \preceq w.a /\ w.b \preceq Upper(a) /\ w.fa = Evaluate(a.expression, w.a)
  BY <1>3 DEF Brackets
<1>6. Upper(a) \in Fractions
  BY DEF Upper, BracketArguments
<1>7. c \preceq Upper(a)
  BY <1>4, <1>5, <1>6, OrderIsTotal, OrderIsTransitive
<1> HIDE DEF v
<1>8. Brackets(v)
  BY <1>3, <1>5, <1>7 DEF Brackets, fc
<1> QED
  BY <1>2, <1>8 DEF v, fc

\* The same on the other side.
LEMMA RightHalfBrackets ==
  ASSUME NEW op, NEW a, BracketArguments(a), NEW w \in BracketWork(op, a), Brackets(w),
         NEW c \in Fractions, w.a \prec c, c \prec w.b,
         OppositeSigns(Evaluate(a.expression, c), w.fb)
  PROVE  LET v == [w EXCEPT !.a = c, !.fa = Evaluate(a.expression, c)] IN
         v \in BracketWork(op, a) /\ Brackets(v)
<1> DEFINE fc == Evaluate(a.expression, c)
           v == [w EXCEPT !.a = c, !.fa = fc]
<1>1. fc \in Fractions
  BY EvaluateIsTyped DEF BracketArguments
<1> HIDE DEF fc
<1>2. v \in BracketWork(op, a)
  BY <1>1 DEF BracketWork
<1>3. v.a = c /\ v.b = w.b /\ v.fa = fc /\ v.fb = w.fb /\ v.call = a /\ w.call = a
  BY DEF BracketWork
<1>4. w.a \in Fractions /\ w.b \in Fractions
  BY DEF BracketWork
<1>5. /\ Lower(a) \preceq w.a /\ w.b \preceq Upper(a) /\ w.fb = Evaluate(a.expression, w.b)
  BY <1>3 DEF Brackets
<1>6. Lower(a) \in Fractions
  BY DEF Lower, BracketArguments
<1>7. Lower(a) \preceq c
  BY <1>4, <1>5, <1>6, OrderIsTotal, OrderIsTransitive
<1> HIDE DEF v
<1>8. Brackets(v)
  BY <1>3, <1>5, <1>7 DEF Brackets, fc
<1> QED
  BY <1>2, <1>8 DEF v, fc

\* Bisection halves the bracket.
LEMMA BisectNarrows ==
  ASSUME NEW op, NEW a, BracketArguments(a), NEW w \in BracketWork(op, a), Brackets(w)
  PROVE  Narrows(w, Bisect(w))
<1> DEFINE c == w.a \oplus ((w.b \ominus w.a) \oslash Two)
           fc == Evaluate(a.expression, c)
<1>1. /\ w.a \in Fractions /\ w.b \in Fractions /\ w.fa \in Fractions /\ w.fb \in Fractions
      /\ w.call = a /\ w.method = op
  BY DEF BracketWork
<1>2. w.a \prec w.b /\ OppositeSigns(w.fa, w.fb)
  BY DEF Brackets
<1>3. c \in Fractions /\ w.a \prec c /\ c \prec w.b
  BY <1>1, <1>2, MiddleIsInside
<1>4. fc = Evaluate(w.call.expression, c)
  BY <1>1
<1>5. fc \in Fractions
  BY <1>3, EvaluateIsTyped DEF BracketArguments
<1> DEFINE enough == Abs(fc) \preceq w.call.tolerance \/ (w.b \ominus w.a) \preceq w.call.tolerance
           left == [w EXCEPT !.b = c, !.fb = fc]
           right == [w EXCEPT !.a = c, !.fa = fc]
           result == IF enough THEN Value(c)
                     ELSE IF OppositeSigns(w.fa, fc) THEN Again(left) ELSE Again(right)
<1>6. Bisect(w) = Attempt(w.call.expression, {c}, result)
  BY <1>1 DEF Bisect
<1>7. ASSUME enough PROVE Narrows(w, result)
  <2>1. w.a \preceq c /\ c \preceq w.b
    BY <1>1, <1>3, OrderIsTotal
  <2> HIDE DEF c
  <2>2. IsRootIn(w, c)
    BY <1>1, <1>7, <2>1 DEF IsRootIn
  <2> QED
    BY <1>7, <2>2 DEF Narrows
<1>8. ASSUME ~enough, OppositeSigns(w.fa, fc) PROVE Narrows(w, result)
  <2>1. left \in BracketWork(op, a) /\ Brackets(left)
    BY <1>3, <1>8, LeftHalfBrackets
  <2> QED
    BY <1>1, <1>8, <2>1, AgainNarrows
<1>9. ASSUME ~enough, ~OppositeSigns(w.fa, fc) PROVE Narrows(w, result)
  <2>1. a.tolerance \in Fractions /\ Positive(a.tolerance) /\ ~(Abs(fc) \preceq a.tolerance)
    BY <1>1, <1>9 DEF BracketArguments
  <2>2. fc # Zero
    BY <1>5, <2>1, BeyondTolerance
  <2>3. OppositeSigns(fc, w.fb)
    BY <1>1, <1>2, <1>5, <1>9, <2>2, SignOfProduct
  <2>4. right \in BracketWork(op, a) /\ Brackets(right)
    BY <1>3, <2>3, RightHalfBrackets
  <2> QED
    BY <1>1, <1>9, <2>4, AgainNarrows
<1> HIDE DEF enough, result, c
<1>10. Narrows(w, result)
  BY <1>7, <1>8, <1>9
<1> QED
  BY <1>6, <1>10, AttemptNarrows

\* A difference of two numbers that differ can be divided by.
LEMMA DifferenceDivides ==
  ASSUME NEW p \in Fractions, NEW q \in Fractions, p # q, NEW r \in Fractions
  PROVE  r \oslash (p \ominus q) \in Fractions
<1>1. PICK k, m, n, d : Is(p, k, d) /\ Is(q, m, d) /\ Is(r, n, d)
  BY ThreeCommon
<1>2. k # m
  BY <1>1, OrderIs
<1>3. k - m # 0
  BY <1>1, <1>2 DEF Is
<1>4. Is(p \ominus q, k - m, d)
  BY <1>1, DifferenceIs
<1> QED
  BY <1>1, <1>3, <1>4, QuotientIs

\* What Brent's method tries lies strictly inside the bracket.
LEMMA CandidateIsInside ==
  ASSUME NEW op, NEW a, BracketArguments(a), NEW w \in BracketWork(op, a), Brackets(w)
  PROVE  Candidate(w) \in Fractions /\ w.a \prec Candidate(w) /\ Candidate(w) \prec w.b
<1> DEFINE secant == w.b \ominus ((w.fb \otimes (w.b \ominus w.a)) \oslash (w.fb \ominus w.fa))
           margin == a.tolerance \oslash Whole(100)
<1>1. /\ w.a \in Fractions /\ w.b \in Fractions /\ w.fa \in Fractions /\ w.fb \in Fractions
      /\ w.call = a /\ w.method = op
  BY DEF BracketWork
<1>2. w.a \prec w.b /\ OppositeSigns(w.fa, w.fb)
  BY DEF Brackets
<1>3. secant \in Fractions
  <2>1. w.fb # w.fa
    BY <1>1, <1>2, SignOfProduct
  <2>2. w.fb \otimes (w.b \ominus w.a) \in Fractions
    BY <1>1, FractionsAreClosed
  <2>3. (w.fb \otimes (w.b \ominus w.a)) \oslash (w.fb \ominus w.fa) \in Fractions
    BY <1>1, <2>1, <2>2, DifferenceDivides
  <2> QED
    BY <1>1, <2>3, FractionsAreClosed
<1>4. /\ w.a \oplus margin \in Fractions /\ w.a \prec w.a \oplus margin
      /\ w.b \ominus margin \in Fractions /\ w.b \ominus margin \prec w.b
  BY <1>1, MarginKeepsAway DEF BracketArguments
<1> HIDE DEF secant, margin
<1>5. Candidate(w) = IF secant \preceq (w.a \oplus margin) \/ (w.b \ominus margin) \preceq secant
                     THEN (w.a \oplus w.b) \oslash Two ELSE secant
  BY <1>1 DEF Candidate, secant, margin
<1>6. CASE secant \preceq (w.a \oplus margin) \/ (w.b \ominus margin) \preceq secant
  BY <1>1, <1>2, <1>5, <1>6, MiddleIsInside
<1>7. CASE ~(secant \preceq (w.a \oplus margin)) /\ ~((w.b \ominus margin) \preceq secant)
  <2>1. w.a \oplus margin \prec secant /\ secant \prec w.b \ominus margin
    BY <1>3, <1>4, <1>7, OrderIsTotal
  <2>2. w.a \prec secant /\ secant \prec w.b
    BY <1>1, <1>3, <1>4, <2>1, OrderIsTransitive
  <2> QED
    BY <1>3, <1>5, <1>7, <2>2
<1> QED
  BY <1>6, <1>7

\* Brent's method narrows the bracket.
LEMMA BrentNarrows ==
  ASSUME NEW op, NEW a, BracketArguments(a), NEW w \in BracketWork(op, a), Brackets(w)
  PROVE  Narrows(w, BrentIteration(w))
<1> DEFINE c == Candidate(w)
           fc == Evaluate(a.expression, c)
           middle == (w.a \oplus w.b) \oslash Two
           narrow == (w.b \ominus w.a) \preceq w.call.tolerance
           close == Abs(fc) \preceq w.call.tolerance
           left == [w EXCEPT !.b = c, !.fb = fc]
           right == [w EXCEPT !.a = c, !.fa = fc]
<1>1. /\ w.a \in Fractions /\ w.b \in Fractions /\ w.fa \in Fractions /\ w.fb \in Fractions
      /\ w.call = a /\ w.method = op
  BY DEF BracketWork
<1>2. w.a \prec w.b /\ OppositeSigns(w.fa, w.fb)
  BY DEF Brackets
<1>3. c \in Fractions /\ w.a \prec c /\ c \prec w.b
  BY CandidateIsInside
<1> HIDE DEF c
<1>4. fc \in Fractions
  BY <1>3, EvaluateIsTyped DEF BracketArguments
<1> DEFINE result == IF close THEN Value(c)
                     ELSE IF OppositeSigns(w.fa, fc) THEN Again(left)
                     ELSE IF OppositeSigns(w.fb, fc) THEN Again(right) ELSE Value(c)
<1>5. BrentIteration(w) = IF narrow THEN Value(middle) ELSE Attempt(w.call.expression, {c}, result)
  BY <1>1 DEF BrentIteration, c
<1>6. CASE narrow
  <2>1. middle \in Fractions /\ w.a \prec middle /\ middle \prec w.b
    BY <1>1, <1>2, MiddleIsInside
  <2> HIDE DEF middle
  <2>2. w.a \preceq middle /\ middle \preceq w.b
    BY <1>1, <2>1, OrderIsTotal
  <2>3. IsRootIn(w, middle)
    BY <1>6, <2>2 DEF IsRootIn
  <2> QED
    BY <1>5, <1>6, <2>3 DEF Narrows
<1>7. ASSUME close PROVE Narrows(w, result)
  <2>1. w.a \preceq c /\ c \preceq w.b
    BY <1>1, <1>3, OrderIsTotal
  <2>2. IsRootIn(w, c)
    BY <1>1, <1>7, <2>1 DEF IsRootIn
  <2> QED
    BY <1>7, <2>2 DEF Narrows
<1>8. ASSUME ~close, OppositeSigns(w.fa, fc) PROVE Narrows(w, result)
  <2>1. left \in BracketWork(op, a) /\ Brackets(left)
    BY <1>3, <1>8, LeftHalfBrackets
  <2> QED
    BY <1>1, <1>8, <2>1, AgainNarrows
<1>9. ASSUME ~close, ~OppositeSigns(w.fa, fc) PROVE Narrows(w, result)
  <2>1. a.tolerance \in Fractions /\ Positive(a.tolerance) /\ ~(Abs(fc) \preceq a.tolerance)
    BY <1>1, <1>9 DEF BracketArguments
  <2>2. fc # Zero
    BY <1>4, <2>1, BeyondTolerance
  <2>3. OppositeSigns(fc, w.fb) /\ OppositeSigns(w.fb, fc)
    BY <1>1, <1>2, <1>4, <1>9, <2>2, SignOfProduct
  <2>4. right \in BracketWork(op, a) /\ Brackets(right)
    BY <1>3, <2>3, RightHalfBrackets
  <2> QED
    BY <1>1, <1>9, <2>3, <2>4, AgainNarrows
<1> HIDE DEF narrow, close, result
<1>10. Narrows(w, Attempt(w.call.expression, {c}, result))
  BY <1>7, <1>8, <1>9, AttemptNarrows
<1> QED
  BY <1>5, <1>6, <1>10

\* They begin with a bracket, or answer with an end that is a zero.
LEMMA BeginBracketedIsSound ==
  ASSUME NEW op, NEW a, a.expression.polynomial \in Seq(Fractions),
         {"lower", "upper"} \subseteq DOMAIN a => a.lower \in Fractions /\ a.upper \in Fractions,
         a.tolerance \in Fractions, a.max_iterations \in Fractions
  PROVE  LET r == BeginBracketed(op, a) IN
         \/ r = Refused
         \/ r = Crash /\ a.expression.fault = "complex"
         \/ \E x : r = Value(x) /\ IsRootAtEnd(a, x) /\ Supplied(a, {"lower", "upper"})
         \/ \E w \in BracketWork(op, a) : r = Work(w) /\ BracketArguments(a) /\ Brackets(w)
<1> DEFINE lo == Lower(a)
           hi == Upper(a)
           flo == Evaluate(a.expression, lo)
           fhi == Evaluate(a.expression, hi)
           w == [method |-> op, a |-> lo, b |-> hi, fa |-> flo, fb |-> fhi, iteration |-> 1, call |-> a]
           begun == IF Positive(flo \otimes fhi) THEN Refused
                    ELSE IF flo = Zero THEN Value(lo) ELSE IF fhi = Zero THEN Value(hi) ELSE Work(w)
           Sound(r) == \/ r = Refused
                       \/ r = Crash /\ a.expression.fault = "complex"
                       \/ \E x : r = Value(x) /\ IsRootAtEnd(a, x) /\ Supplied(a, {"lower", "upper"})
                       \/ \E v \in BracketWork(op, a) : r = Work(v) /\ BracketArguments(a) /\ Brackets(v)
<1>1. CASE ~Supplied(a, {"lower", "upper"})
  BY <1>1 DEF BeginBracketed
<1>2. CASE Supplied(a, {"lower", "upper"}) /\ (~Limits(a) \/ a.lower = a.upper)
  BY <1>2 DEF BeginBracketed
<1>3. CASE Supplied(a, {"lower", "upper"}) /\ Limits(a) /\ a.lower # a.upper
  <2>1. BracketArguments(a)
    <3>1. a.lower \in Fractions /\ a.upper \in Fractions
      BY <1>3 DEF Supplied
    <3>2. Positive(a.tolerance) /\ a.max_iterations[1] > 0
      BY <1>3 DEF Limits, Positive
    <3>3. a.max_iterations[1] \in Int
      BY FractionParts
    <3> QED
      BY <3>1, <3>2, <3>3 DEF BracketArguments
  <2>2. lo \in Fractions /\ hi \in Fractions /\ lo \prec hi /\ lo \preceq lo /\ hi \preceq hi
    BY <1>3, <2>1, OrderIsTotal DEF Lower, Upper, BracketArguments
  <2>3. flo \in Fractions /\ fhi \in Fractions
    BY <2>1, <2>2, EvaluateIsTyped DEF BracketArguments
  <2>4. BeginBracketed(op, a) = Attempt(a.expression, {lo, hi}, begun)
    BY <1>3 DEF BeginBracketed
  <2> HIDE DEF lo, hi
  <2>5. Positive(flo \otimes fhi) => Sound(begun)
    OBVIOUS
  <2>6. ASSUME ~Positive(flo \otimes fhi), flo = Zero \/ fhi = Zero PROVE Sound(begun)
    <3>1. IsRootAtEnd(a, IF flo = Zero THEN lo ELSE hi)
      BY <2>6 DEF IsRootAtEnd, lo, hi
    <3>2. begun = Value(IF flo = Zero THEN lo ELSE hi)
      BY <2>6
    <3> HIDE DEF begun
    <3> QED
      BY <1>3, <3>1, <3>2
  <2>7. ASSUME ~Positive(flo \otimes fhi), flo # Zero, fhi # Zero PROVE Sound(begun)
    <3>1. w \in BracketWork(op, a)
      BY <2>1, <2>2, <2>3 DEF BracketWork, BracketArguments
    <3>2. OppositeSigns(flo, fhi)
      BY <2>3, <2>7, SignOfProduct
    <3>3. Brackets(w)
      BY <2>2, <3>2 DEF Brackets, lo, hi
    <3>4. begun = Work(w)
      BY <2>7
    <3> HIDE DEF w, begun
    <3> QED
      BY <2>1, <3>1, <3>3, <3>4
  <2> HIDE DEF begun, flo, fhi
  <2>8. Sound(begun)
    BY <2>5, <2>6, <2>7
  <2>9. \/ BeginBracketed(op, a) = begun
        \/ BeginBracketed(op, a) = Refused
        \/ BeginBracketed(op, a) = Crash /\ a.expression.fault = "complex"
    BY <2>4, AttemptIs
  <2> HIDE DEF w
  <2>10. Sound(BeginBracketed(op, a))
    BY <2>8, <2>9
  <2> QED
    BY <2>10
<1> QED
  BY <1>1, <1>2, <1>3

-----------------------------------------------------------------------------
(* The methods that count their iterations *)

\* The work of Newton's method and of the secant method.
CountedWork(op, a, w) ==
  /\ w = CASE op = "newton" -> [method |-> op, x |-> w.x, iteration |-> w.iteration, call |-> a]
           [] op = "secant" -> [method |-> op, x0 |-> w.x0, x1 |-> w.x1, iteration |-> w.iteration, call |-> a]
  /\ op \in {"newton", "secant"}
  /\ a.max_iterations[1] \in Nat
  /\ w.iteration \in 1..a.max_iterations[1]

\* Their iterations end, or one more is left.
LEMMA CountedIteration ==
  ASSUME NEW op, NEW a, NEW w, CountedWork(op, a, w)
  PROVE  LET r == Iterate(w) IN r.outcome = "work" => CountedWork(op, a, r.work)
<1>1. CASE op = "newton"
  <2>1. w = [method |-> op, x |-> w.x, iteration |-> w.iteration, call |-> a]
    BY <1>1 DEF CountedWork
  <2>2. w.method = op /\ w.call = a
    BY <2>1
  <2> DEFINE next == w.x \ominus (Evaluate(w.call.expression, w.x) \oslash NewtonSlope(w))
             v == [w EXCEPT !.x = next]
             u == [v EXCEPT !.iteration = @ + 1]
  <2>3. Iterate(w) = NewtonIteration(w)
    BY <1>1, <2>2 DEF Iterate
  <2>4. NewtonIteration(w) \in {Refused, Crash, Value(w.x), Value(next), Again(v)}
    BY DEF NewtonIteration, Attempt
  <2> HIDE DEF next
  <2>5. v.iteration = w.iteration /\ v.call = a
    BY <2>1
  <2>6. Again(v) = IF w.iteration >= a.max_iterations[1] THEN Refused ELSE Work(u)
    BY <2>5 DEF Again
  <2>7. u = [method |-> op, x |-> next, iteration |-> w.iteration + 1, call |-> a]
    <3>1. v = [method |-> op, x |-> next, iteration |-> w.iteration, call |-> a]
      BY <2>1
    <3> HIDE DEF v
    <3> QED
      BY <3>1
  <2>8. ~(w.iteration >= a.max_iterations[1]) => CountedWork(op, a, u)
    <3>1. u.x = next /\ u.iteration = w.iteration + 1
      BY <2>7
    <3> HIDE DEF u
    <3>2. ~(w.iteration >= a.max_iterations[1]) => w.iteration + 1 \in 1..a.max_iterations[1]
      BY DEF CountedWork
    <3> QED
      BY <1>1, <2>7, <3>1, <3>2 DEF CountedWork
  <2> HIDE DEF u, v
  <2> QED
    BY <2>3, <2>4, <2>6, <2>8 DEF Refused, Crash, Value, Work
<1>2. CASE op = "secant"
  <2>1. w = [method |-> op, x0 |-> w.x0, x1 |-> w.x1, iteration |-> w.iteration, call |-> a]
    BY <1>2 DEF CountedWork
  <2>2. w.method = op /\ w.call = a
    BY <2>1
  <2> DEFINE f0 == Evaluate(w.call.expression, w.x0)
             f1 == Evaluate(w.call.expression, w.x1)
             next == w.x1 \ominus ((f1 \otimes (w.x1 \ominus w.x0)) \oslash (f1 \ominus f0))
             v == [w EXCEPT !.x0 = w.x1, !.x1 = next]
             u == [v EXCEPT !.iteration = @ + 1]
  <2>3. Iterate(w) = SecantIteration(w)
    BY <1>2, <2>2 DEF Iterate
  <2>4. SecantIteration(w) \in {Refused, Crash, Value(w.x0), Value(w.x1), Value(next), Again(v)}
    BY DEF SecantIteration, Attempt
  <2> HIDE DEF next
  <2>5. v.iteration = w.iteration /\ v.call = a
    BY <2>1
  <2>6. Again(v) = IF w.iteration >= a.max_iterations[1] THEN Refused ELSE Work(u)
    BY <2>5 DEF Again
  <2>7. u = [method |-> op, x0 |-> w.x1, x1 |-> next, iteration |-> w.iteration + 1, call |-> a]
    <3>1. v = [method |-> op, x0 |-> w.x1, x1 |-> next, iteration |-> w.iteration, call |-> a]
      <4> DEFINE z == [w EXCEPT !.x0 = w.x1]
      <4>1. z = [method |-> op, x0 |-> w.x1, x1 |-> w.x1, iteration |-> w.iteration, call |-> a]
        BY <2>1
      <4>2. v = [z EXCEPT !.x1 = next]
        OBVIOUS
      <4> HIDE DEF v, z
      <4> QED
        BY <4>1, <4>2
    <3> HIDE DEF v
    <3> QED
      BY <3>1
  <2>8. ~(w.iteration >= a.max_iterations[1]) => CountedWork(op, a, u)
    <3>1. u.x0 = w.x1 /\ u.x1 = next /\ u.iteration = w.iteration + 1
      BY <2>7
    <3> HIDE DEF u
    <3>2. ~(w.iteration >= a.max_iterations[1]) => w.iteration + 1 \in 1..a.max_iterations[1]
      BY DEF CountedWork
    <3> QED
      BY <1>2, <2>7, <3>1, <3>2 DEF CountedWork
  <2> HIDE DEF u, v
  <2> QED
    BY <2>3, <2>4, <2>6, <2>8 DEF Refused, Crash, Value, Work
<1> QED
  BY <1>1, <1>2 DEF CountedWork

\* They begin with their first iteration, or not at all.
LEMMA BeginCounted ==
  ASSUME NEW a, a.max_iterations \in Fractions
  PROVE  /\ LET r == BeginNewton(a) IN r.outcome = "work" => CountedWork("newton", a, r.work)
         /\ LET r == BeginSecant(a) IN r.outcome = "work" => CountedWork("secant", a, r.work)
<1> DEFINE v == [method |-> "newton", x |-> a.initial_guess, iteration |-> 1, call |-> a]
           u == [method |-> "secant", x0 |-> a.initial_guess, x1 |-> a.second_guess,
                 iteration |-> 1, call |-> a]
<1>1. Limits(a) => a.max_iterations[1] \in Nat /\ 1 \in 1..a.max_iterations[1]
  <2>1. Limits(a) => a.max_iterations[1] > 0
    BY DEF Limits, Positive
  <2>2. a.max_iterations[1] \in Int
    BY FractionParts
  <2> QED
    BY <2>1, <2>2
<1>2. Limits(a) => CountedWork("newton", a, v) /\ CountedWork("secant", a, u)
  BY <1>1 DEF CountedWork
<1>3. BeginNewton(a) = Refused \/ (BeginNewton(a) = Work(v) /\ Limits(a))
  BY DEF BeginNewton
<1>4. BeginSecant(a) \in {Refused, Crash} \/ (BeginSecant(a) = Work(u) /\ Limits(a))
  BY DEF BeginSecant, Attempt
<1> HIDE DEF u, v
<1> QED
  BY <1>2, <1>3, <1>4 DEF Refused, Crash, Work

-----------------------------------------------------------------------------
(* The call of numerical_methods *)

\* The arguments as the schema and the types leave them.
NumericalArguments(a) ==
  /\ {"operation", "expression"} \subseteq DOMAIN a
  /\ a.expression.polynomial \in Seq(Fractions)
  /\ \A n \in {"lower", "upper", "tolerance", "max_iterations", "x", "step_size", "steps"}
               \cap DOMAIN a : a[n] \in Fractions

\* Work that is sound, for the operation, the expression, and the arguments with the defaults.
NumericalWork(op, e, w) ==
  /\ w.call.expression = e
  /\ \/ op \in Bracketing /\ w \in BracketWork(op, w.call) /\ BracketArguments(w.call) /\ Brackets(w)
     \/ op \in {"newton", "secant"} /\ CountedWork(op, w.call, w)

\* The four defaults of a numerical method.
LEMMA DefaultsFit ==
  ASSUME NEW given, NumericalArguments(given)
  PROVE  LET limited == WithDefault(WithDefault(given, "max_iterations", Whole(1000)), "tolerance", <<1, 1000>>)
             a == WithDefault(WithDefault(limited, "steps", Whole(100)), "step_size", <<1, 1000>>) IN
         /\ a.expression = given.expression /\ a.expression.polynomial \in Seq(Fractions)
         /\ {"lower", "upper"} \subseteq DOMAIN a =>
              /\ a.lower = given.lower /\ a.upper = given.upper
              /\ a.lower \in Fractions /\ a.upper \in Fractions
         /\ "x" \in DOMAIN a => a.x \in Fractions
         /\ a.tolerance \in Fractions /\ a.max_iterations \in Fractions
         /\ a.steps \in Fractions /\ a.step_size \in Fractions
<1> DEFINE b == WithDefault(given, "max_iterations", Whole(1000))
           c == WithDefault(b, "tolerance", <<1, 1000>>)
           d == WithDefault(c, "steps", Whole(100))
           e == WithDefault(d, "step_size", <<1, 1000>>)
<1>1. Whole(1000) \in Fractions /\ Whole(100) \in Fractions /\ <<1, 1000>> \in Fractions
  <2>1. 1 * 1 + 0 * 1000 = 1 /\ 0 \in Int /\ 1 \in Int /\ 1 \in Nat \ {0} /\ 1000 \in Int /\ 1000 \in Nat \ {0}
    OBVIOUS
  <2>2. <<1, 1000>> \in Fractions
    BY <2>1, LowestTerms
  <2> QED
    BY <2>2, WholeIsFraction
<1>2. /\ DOMAIN b = DOMAIN given \cup {"max_iterations"}
      /\ \A n \in DOMAIN given : b[n] = given[n]
      /\ "max_iterations" \notin DOMAIN given => b["max_iterations"] = Whole(1000)
  BY DEF WithDefault
<1> HIDE DEF b
<1>3. /\ DOMAIN c = DOMAIN b \cup {"tolerance"}
      /\ \A n \in DOMAIN b : c[n] = b[n]
      /\ "tolerance" \notin DOMAIN b => c["tolerance"] = <<1, 1000>>
  BY DEF WithDefault
<1> HIDE DEF c
<1>4. /\ DOMAIN d = DOMAIN c \cup {"steps"}
      /\ \A n \in DOMAIN c : d[n] = c[n]
      /\ "steps" \notin DOMAIN c => d["steps"] = Whole(100)
  BY DEF WithDefault
<1> HIDE DEF d
<1>5. /\ DOMAIN e = DOMAIN d \cup {"step_size"}
      /\ \A n \in DOMAIN d : e[n] = d[n]
      /\ "step_size" \notin DOMAIN d => e["step_size"] = <<1, 1000>>
  BY DEF WithDefault
<1> HIDE DEF e
<1>6. e["expression"] = given["expression"]
  BY <1>2, <1>3, <1>4, <1>5 DEF NumericalArguments
<1>7. ASSUME NEW n \in {"lower", "upper"}, n \in DOMAIN e PROVE e[n] = given[n] /\ e[n] \in Fractions
  BY <1>2, <1>3, <1>4, <1>5, <1>7 DEF NumericalArguments
<1>8. e["max_iterations"] \in Fractions
  <2>1. b["max_iterations"] \in Fractions
    BY <1>1, <1>2 DEF NumericalArguments
  <2> QED
    BY <1>2, <1>3, <1>4, <1>5, <2>1
<1>9. e["tolerance"] \in Fractions
  <2>1. c["tolerance"] \in Fractions
    BY <1>1, <1>2, <1>3 DEF NumericalArguments
  <2> QED
    BY <1>3, <1>4, <1>5, <2>1
<1>10. "x" \in DOMAIN e => e["x"] \in Fractions
  BY <1>2, <1>3, <1>4, <1>5 DEF NumericalArguments
<1>11. e["steps"] \in Fractions
  <2>1. d["steps"] \in Fractions
    BY <1>1, <1>2, <1>3, <1>4 DEF NumericalArguments
  <2> QED
    BY <1>4, <1>5, <2>1
<1>12. e["step_size"] \in Fractions
  BY <1>1, <1>2, <1>3, <1>4, <1>5 DEF NumericalArguments
<1> QED
  BY <1>6, <1>7, <1>8, <1>9, <1>10, <1>11, <1>12 DEF NumericalArguments, b, c, d, e

\* What a call of numerical_methods begins with.
LEMMA NumericalToolIsSound ==
  ASSUME NEW op, NEW given, NumericalArguments(given)
  PROVE  LET r == NumericalTool(op, given) IN
         /\ r.outcome = "work" => NumericalWork(op, given.expression, r.work)
         /\ (r.outcome = "value" /\ op \in Bracketing) => IsRootAtEnd(given, r.value)
<1> DEFINE limited == WithDefault(WithDefault(given, "max_iterations", Whole(1000)), "tolerance", <<1, 1000>>)
           a == WithDefault(WithDefault(limited, "steps", Whole(100)), "step_size", <<1, 1000>>)
<1>1. /\ a.expression = given.expression /\ a.expression.polynomial \in Seq(Fractions)
      /\ {"lower", "upper"} \subseteq DOMAIN a =>
              /\ a.lower = given.lower /\ a.upper = given.upper
              /\ a.lower \in Fractions /\ a.upper \in Fractions
      /\ a.tolerance \in Fractions /\ a.max_iterations \in Fractions
  BY DefaultsFit
<1>2. NumericalTool(op, given) =
        CASE op \in {"bisection", "brent"} -> BeginBracketed(op, a)
          [] op = "newton" -> BeginNewton(a)
          [] op = "secant" -> BeginSecant(a)
          [] op \in {"trapezoidal", "simpson"} -> Integrate(op, a)
          [] op \in Differences -> Differentiate(op, a)
          [] OTHER -> Refused
  BY DEF NumericalTool
<1> HIDE DEF a
<1>3. CASE op \in {"bisection", "brent"}
  <2>1. NumericalTool(op, given) = BeginBracketed(op, a)
    BY <1>2, <1>3 DEF Differences
  <2>2. \/ BeginBracketed(op, a) = Refused
        \/ BeginBracketed(op, a) = Crash
        \/ \E x : BeginBracketed(op, a) = Value(x) /\ IsRootAtEnd(a, x) /\ Supplied(a, {"lower", "upper"})
        \/ \E w \in BracketWork(op, a) : BeginBracketed(op, a) = Work(w) /\ BracketArguments(a) /\ Brackets(w)
    BY <1>1, BeginBracketedIsSound
  <2>3. ASSUME NEW x, IsRootAtEnd(a, x), Supplied(a, {"lower", "upper"}) PROVE IsRootAtEnd(given, x)
    BY <1>1, <2>3 DEF IsRootAtEnd, Supplied, Lower, Upper
  <2>4. ASSUME NEW w \in BracketWork(op, a), BracketArguments(a), Brackets(w) PROVE NumericalWork(op, given.expression, w)
    <3>1. w.call = a
      BY DEF BracketWork
    <3> QED
      BY <1>1, <1>3, <2>4, <3>1 DEF NumericalWork, Bracketing
  <2> QED
    BY <2>1, <2>2, <2>3, <2>4 DEF Refused, Crash, Value, Work
<1>4. CASE op = "newton"
  <2>1. NumericalTool(op, given) = BeginNewton(a)
    BY <1>2, <1>4 DEF Differences
  <2>2. ASSUME NEW w, CountedWork("newton", a, w) PROVE NumericalWork(op, given.expression, w)
    <3>1. w.call = a
      BY <2>2 DEF CountedWork
    <3> QED
      BY <1>1, <1>4, <2>2, <3>1 DEF NumericalWork
  <2> QED
    BY <1>1, <1>4, <2>1, <2>2, BeginCounted DEF Bracketing
<1>5. CASE op = "secant"
  <2>1. NumericalTool(op, given) = BeginSecant(a)
    BY <1>2, <1>5 DEF Differences
  <2>2. ASSUME NEW w, CountedWork("secant", a, w) PROVE NumericalWork(op, given.expression, w)
    <3>1. w.call = a
      BY <2>2 DEF CountedWork
    <3> QED
      BY <1>1, <1>5, <2>2, <3>1 DEF NumericalWork
  <2> QED
    BY <1>1, <1>5, <2>1, <2>2, BeginCounted DEF Bracketing
<1>6. CASE op \notin {"bisection", "brent", "newton", "secant"}
  <2>1. NumericalTool(op, given).outcome # "work"
    <3>1. NumericalTool(op, given) \in {Integrate(op, a), Differentiate(op, a), Refused}
      BY <1>2, <1>6
    <3>2. Integrate(op, a) \in {Refused, Crash} \/ \E q : Integrate(op, a) = Finish(q)
      BY DEF Integrate, Attempt
    <3>3. Differentiate(op, a) \in {Refused, Crash} \/ \E q : Differentiate(op, a) = Finish(q)
      BY DEF Differentiate, Attempt
    <3>4. ASSUME NEW q PROVE Finish(q).outcome \in {"crash", "value"}
      BY DEF Finish, Crash, Value
    <3> QED
      BY <3>1, <3>2, <3>3, <3>4 DEF Refused, Crash
  <2> QED
    BY <1>6, <2>1 DEF Bracketing
<1> QED
  BY <1>3, <1>4, <1>5, <1>6

\* An iteration of a numerical method.
LEMMA NumericalIterationIsSound ==
  ASSUME NEW op, NEW e, NEW w, NumericalWork(op, e, w)
  PROVE  LET r == Iterate(w) IN
         /\ w.method = op
         /\ r.outcome = "work" => NumericalWork(op, e, r.work)
         /\ (r.outcome = "value" /\ op \in Bracketing) => IsRootIn(w, r.value)
<1>1. w.call.expression = e
  BY DEF NumericalWork
<1>2. CASE op \in Bracketing /\ w \in BracketWork(op, w.call) /\ BracketArguments(w.call) /\ Brackets(w)
  <2>1. w.method = op
    BY <1>2 DEF BracketWork
  <2>2. Iterate(w) \in {Bisect(w), BrentIteration(w)}
    BY <1>2, <2>1 DEF Iterate, Bracketing
  <2>3. Narrows(w, Iterate(w))
    BY <1>2, <2>2, BisectNarrows, BrentNarrows
  <2>4. ASSUME NEW v \in BracketWork(w.method, w.call), Brackets(v) PROVE NumericalWork(op, e, v)
    <3>1. v.call = w.call
      BY DEF BracketWork
    <3> QED
      BY <1>1, <1>2, <2>1, <2>4, <3>1 DEF NumericalWork
  <2> QED
    BY <2>1, <2>3, <2>4 DEF Narrows, Refused, Crash, Value, Work
<1>3. CASE op \in {"newton", "secant"} /\ CountedWork(op, w.call, w)
  <2>1. w.method = op
    BY <1>3 DEF CountedWork
  <2>2. ASSUME NEW v, CountedWork(op, w.call, v) PROVE NumericalWork(op, e, v)
    <3>1. v.call = w.call
      BY <1>3, <2>2 DEF CountedWork
    <3> QED
      BY <1>1, <1>3, <2>2, <3>1 DEF NumericalWork
  <2> QED
    BY <1>3, <2>1, <2>2, CountedIteration DEF Bracketing
<1> QED
  BY <1>2, <1>3 DEF NumericalWork

-----------------------------------------------------------------------------
(* The solvers of differential equations *)

\* The work of a solver, for the operation and the arguments of the call.
SolverWork(op, a, w) ==
  /\ op \in {"euler", "rk4"}
  /\ w = [method |-> op, t |-> w.t, y |-> w.y, steps |-> w.steps, call |-> a]

\* A pass of the loop leaves such work, or ends.
LEMMA SolveStepIsSound ==
  ASSUME NEW op, NEW a, NEW w, SolverWork(op, a, w)
  PROVE  LET r == Iterate(w) IN r.outcome = "work" => SolverWork(op, a, r.work)
<1>1. /\ w = [method |-> op, t |-> w.t, y |-> w.y, steps |-> w.steps, call |-> a]
      /\ w.method \in {"euler", "rk4"}
  BY DEF SolverWork
<1>2. Iterate(w) = SolveStep(w)
  BY <1>1 DEF Iterate
<1>3. PICK t, y, places : SolveStep(w) = Attempt(w.call.expression, places, Advanced(w, t, y))
  BY DEF SolveStep
<1> DEFINE v == [w EXCEPT !.t = t, !.y = y, !.steps = @ + 1]
<1>4. SolveStep(w) \in {Refused, Crash, Advanced(w, t, y)}
  BY <1>3, AttemptIs
<1>5. Advanced(w, t, y) \in {Work(w), Work(v), Value([t |-> t, y |-> y, steps |-> w.steps + 1])}
  BY DEF Advanced
<1>6. v = [method |-> op, t |-> t, y |-> y, steps |-> w.steps + 1, call |-> a]
  <2> DEFINE n == w.steps
             p == [w EXCEPT !.t = t]
             q == [p EXCEPT !.y = y]
  <2>1. v = [q EXCEPT !.steps = n + 1]
    BY <1>1
  <2> HIDE DEF n
  <2>2. p = [method |-> op, t |-> t, y |-> w.y, steps |-> n, call |-> a]
    BY <1>1 DEF n
  <2> HIDE DEF p
  <2>3. q = [method |-> op, t |-> t, y |-> y, steps |-> n, call |-> a]
    BY <2>2
  <2> HIDE DEF q, v
  <2>4. v = [method |-> op, t |-> t, y |-> y, steps |-> n + 1, call |-> a]
    BY <2>1, <2>3
  <2> QED
    BY <2>4 DEF n
<1> HIDE DEF v
<1>7. v.t = t /\ v.y = y /\ v.steps = w.steps + 1
  BY <1>6
<1>8. SolverWork(op, a, v)
  BY <1>6, <1>7 DEF SolverWork
<1> QED
  BY <1>2, <1>4, <1>5, <1>8 DEF Refused, Crash, Value, Work

\* What a call begins with; only the estimate of the steps may raise an error that is not the
\* tool's own.
LEMMA BeginSolvingIsSound ==
  ASSUME NEW op, NEW a, NEW limit
  PROVE  LET r == BeginSolving(op, a, limit) IN
         /\ r.outcome \in {"refused", "value", "work"} \/ (r.outcome = "crash" /\ Overflows(a))
         /\ r.outcome = "work" => SolverWork(op, a, r.work)
<1> DEFINE w == [method |-> op, t |-> a.t0, y |-> a.y0, steps |-> 0, call |-> a]
           v == Value([t |-> a.t0, y |-> a.y0, steps |-> 0])
<1>1. \/ BeginSolving(op, a, limit) \in {Refused, v}
      \/ BeginSolving(op, a, limit) = Crash /\ Overflows(a)
      \/ BeginSolving(op, a, limit) = Work(w) /\ op \in {"euler", "rk4"}
  BY DEF BeginSolving
<1>2. w.t = a.t0 /\ w.y = a.y0 /\ w.steps = 0
  OBVIOUS
<1>3. op \in {"euler", "rk4"} => SolverWork(op, a, w)
  BY <1>2 DEF SolverWork
<1> HIDE DEF w
<1> QED
  BY <1>1, <1>3 DEF Refused, Crash, Value, Work

-----------------------------------------------------------------------------
(* Errors of an expression *)

\* A result that is no error but the tool's own or that of an expression that became complex.
Tolerable(e, r) ==
  r.outcome \in {"refused", "value", "work"} \/ (r.outcome = "crash" /\ e.fault = "complex")

\* The results of the tools are.
LEMMA ResultsAreTolerable ==
  ASSUME NEW e
  PROVE  /\ Tolerable(e, Refused)
         /\ \A v : Tolerable(e, Value(v)) /\ Tolerable(e, Work(v))
         /\ \A r : Answers(r) => Tolerable(e, r)
BY DEF Tolerable, Answers, Refused, Value, Work

\* Evaluating the expression leaves a result that is.
LEMMA AttemptIsTolerable ==
  ASSUME NEW e, NEW places, NEW r, Tolerable(e, r)
  PROVE  Tolerable(e, Attempt(e, places, r))
<1> DEFINE q == Attempt(e, places, r)
<1>1. q = r \/ q = Refused \/ (q = Crash /\ e.fault = "complex")
  BY AttemptIs
<1> HIDE DEF q
<1>2. Tolerable(e, q)
  BY <1>1 DEF Tolerable, Refused, Crash
<1> QED
  BY <1>2 DEF q

-----------------------------------------------------------------------------
(* Integrals and differences *)

\* Both ends of the interval are fractions.
LEMMA EndsAreFractions ==
  ASSUME NEW a, a.lower \in Fractions, a.upper \in Fractions
  PROVE  Lower(a) \in Fractions /\ Upper(a) \in Fractions
BY DEF Lower, Upper

\* The area under a polynomial.
LEMMA IntegralIsQuantity ==
  ASSUME NEW op, NEW a, a.expression.polynomial \in Seq(Fractions), a.lower \in Fractions, a.upper \in Fractions,
         a.steps \in Fractions, Positive(a.steps)
  PROVE  Integral(op, a) \in Quantities
<1> DEFINE n == a.steps[1]
           lo == Lower(a)
           h == (Upper(a) \ominus lo) \oslash Whole(n)
           F(i) == Evaluate(a.expression, lo \oplus (Whole(i) \otimes h))
           weight(i) == IF op = "simpson" THEN SimpsonWeight(i) ELSE 2
           terms == [i \in 1..(n - 1) |-> F(i) \otimes Whole(weight(i))]
           inner == SumOf(terms)
           last == IF op = "simpson" THEN 3 ELSE 2
           area == (h \otimes (F(0) \oplus (inner \oplus F(n)))) \oslash Whole(last)
<1>1. n \in Nat \ {0}
  <2>1. n \in Int
    BY FractionParts
  <2>2. n > 0
    BY DEF Positive
  <2> HIDE DEF n
  <2> QED
    BY <2>1, <2>2
<1>2. Whole(n) \in Fractions /\ Whole(n) # Zero
  BY <1>1, LengthDivides
<1>3. lo \in Fractions /\ Upper(a) \in Fractions
  BY EndsAreFractions
<1>4. h \in Fractions
  BY <1>2, <1>3, FractionsAreClosed, QuotientIsFraction
<1> HIDE DEF h, lo
<1>5. ASSUME NEW i \in Int PROVE F(i) \in Fractions
  <2>1. lo \oplus (Whole(i) \otimes h) \in Fractions
    BY <1>3, <1>4, WholeIsFraction, FractionsAreClosed
  <2> QED
    BY <2>1, EvaluateIsTyped
<1>6. ASSUME NEW i \in Int PROVE weight(i) \in Int
  BY DEF SimpsonWeight
<1> HIDE DEF F, weight
<1>7. terms \in [1..(n - 1) -> Fractions]
  BY <1>1, <1>5, <1>6, WholeIsFraction, FractionsAreClosed
<1>8. n - 1 \in Nat
  BY <1>1
<1> HIDE DEF terms
<1>9. inner \in Fractions
  BY <1>7, <1>8, FunctionIsSequence, SumOfFractions
<1> HIDE DEF inner
<1>10. Whole(last) \in Fractions /\ Whole(last) # Zero
  BY LengthDivides
<1> HIDE DEF last
<1>11. F(0) \in Fractions /\ F(n) \in Fractions
  BY <1>1, <1>5
<1> HIDE DEF n
<1>12. area \in Fractions
  <2>1. h \otimes (F(0) \oplus (inner \oplus F(n))) \in Fractions
    BY <1>4, <1>9, <1>11, FractionsAreClosed
  <2> QED
    BY <1>10, <2>1, QuotientIsFraction
<1>13. Integral(op, a) = CASE a.lower = a.upper -> Zero
                           [] a.lower # a.upper -> IF a.upper \prec a.lower THEN Neg(area) ELSE area
  BY DEF Integral, n, lo, h, F, inner, terms, weight, last
<1> HIDE DEF area
<1> QED
  BY <1>12, <1>13, FractionsAreQuantities, UnaryIsQuantity, ConstantsAreQuantities

\* The quotients of differences.
LEMMA DifferentiateIsTolerable ==
  ASSUME NEW op, NEW a, a.expression.polynomial \in Seq(Fractions), a.step_size \in Fractions,
         "x" \in DOMAIN a => a.x \in Fractions
  PROVE  Tolerable(a.expression, Differentiate(op, a))
<1> DEFINE h == a.step_size
           after == PlaceAfter(op, a)
           before == PlaceBefore(op, a)
           rise == Evaluate(a.expression, after) \ominus Evaluate(a.expression, before)
           run == IF op = "central_difference" THEN Two \otimes h ELSE h
<1>1. CASE ~Supplied(a, {"x"}) \/ ~Positive(h)
  BY <1>1, ResultsAreTolerable DEF Differentiate
<1>2. CASE Supplied(a, {"x"}) /\ Positive(h)
  <2>1. a.x \in Fractions /\ h \in Fractions /\ h # Zero
    BY <1>2, PositiveIsNotNegative DEF Supplied
  <2>2. after \in Fractions /\ before \in Fractions
    BY <2>1, FractionsAreClosed DEF PlaceAfter, PlaceBefore
  <2> HIDE DEF after, before
  <2>3. rise \in Quantities
    BY <2>2, EvaluateIsTyped, FractionsAreClosed, FractionsAreQuantities
  <2>4. run \in Quantities /\ run # Zero
    BY <2>1, ConstantsAreQuantities, FractionsAreQuantities, ProductIsQuantity
  <2>5. Differentiate(op, a) = Attempt(a.expression, {after, before}, Finish(rise \oslash run))
    BY <1>2 DEF Differentiate, after, before
  <2> HIDE DEF rise, run
  <2>6. Answers(Finish(rise \oslash run))
    BY <2>3, <2>4, QuotientIsQuantity, QuantityAnswers
  <2>7. Tolerable(a.expression, Finish(rise \oslash run))
    BY <2>6, ResultsAreTolerable
  <2> QED
    BY <2>5, <2>7, AttemptIsTolerable
<1> QED
  BY <1>1, <1>2

\* Where a numerical method begins, it raises no error but its own or that of an expression that
\* became complex.
LEMMA NumericalToolIsTolerable ==
  ASSUME NEW op, NEW given, NumericalArguments(given)
  PROVE  Tolerable(given.expression, NumericalTool(op, given))
<1> DEFINE limited == WithDefault(WithDefault(given, "max_iterations", Whole(1000)), "tolerance", <<1, 1000>>)
           a == WithDefault(WithDefault(limited, "steps", Whole(100)), "step_size", <<1, 1000>>)
<1>1. /\ a.expression = given.expression /\ a.expression.polynomial \in Seq(Fractions)
      /\ {"lower", "upper"} \subseteq DOMAIN a => a.lower \in Fractions /\ a.upper \in Fractions
      /\ "x" \in DOMAIN a => a.x \in Fractions
      /\ a.steps \in Fractions /\ a.step_size \in Fractions
  BY DefaultsFit
<1>2. NumericalTool(op, given) =
        CASE op \in {"bisection", "brent"} -> BeginBracketed(op, a)
          [] op = "newton" -> BeginNewton(a)
          [] op = "secant" -> BeginSecant(a)
          [] op \in {"trapezoidal", "simpson"} -> Integrate(op, a)
          [] op \in Differences -> Differentiate(op, a)
          [] OTHER -> Refused
  BY DEF NumericalTool
<1> HIDE DEF a
<1> DEFINE e == a.expression
           Ends(r) == Tolerable(e, r)
<1>3. Ends(Refused) /\ (\A v : Ends(Value(v))) /\ (\A w : Ends(Work(w)))
  BY ResultsAreTolerable
<1>4. \A places, r : Ends(r) => Ends(Attempt(a.expression, places, r))
  BY AttemptIsTolerable
<1> HIDE DEF Ends
<1>5. Ends(BeginBracketed(op, a))
  BY <1>3, <1>4 DEF BeginBracketed
<1>6. Ends(BeginNewton(a)) /\ Ends(BeginSecant(a))
  BY <1>3, <1>4 DEF BeginNewton, BeginSecant
<1>7. Ends(Integrate(op, a))
  <2>1. CASE Supplied(a, {"lower", "upper"}) /\ Positive(a.steps)
    <3>1. Integral(op, a) \in Quantities
      BY <1>1, <2>1, IntegralIsQuantity DEF Supplied
    <3>2. Ends(Finish(Integral(op, a)))
      BY <3>1, QuantityAnswers, ResultsAreTolerable DEF Ends
    <3> QED
      BY <1>3, <1>4, <3>2 DEF Integrate
  <2>2. CASE ~(Supplied(a, {"lower", "upper"}) /\ Positive(a.steps))
    BY <1>3, <2>2 DEF Integrate
  <2> QED
    BY <2>1, <2>2
<1>8. Ends(Differentiate(op, a))
  BY <1>1, DifferentiateIsTolerable DEF Ends
<1>9. Ends(NumericalTool(op, given))
  BY <1>2, <1>3, <1>5, <1>6, <1>7, <1>8
<1> QED
  BY <1>1, <1>9 DEF Ends

\* Nor does an iteration, of a numerical method or of a solver of differential equations.
LEMMA IterationsAreTolerable ==
  ASSUME NEW w, w.method \in {"bisection", "brent", "newton", "secant", "euler", "rk4"}
  PROVE  Tolerable(w.call.expression, Iterate(w))
<1> DEFINE Ends(r) == Tolerable(w.call.expression, r)
<1>1. Ends(Refused) /\ (\A v : Ends(Value(v))) /\ (\A v : Ends(Work(v)))
  BY ResultsAreTolerable
<1>2. \A places, r : Ends(r) => Ends(Attempt(w.call.expression, places, r))
  BY AttemptIsTolerable
<1> HIDE DEF Ends
<1>3. \A v : Ends(Again(v))
  BY <1>1 DEF Again
<1>4. Ends(Bisect(w))
  BY <1>1, <1>2, <1>3 DEF Bisect
<1>5. Ends(BrentIteration(w))
  BY <1>1, <1>2, <1>3 DEF BrentIteration
<1>6. Ends(NewtonIteration(w))
  BY <1>1, <1>2, <1>3 DEF NewtonIteration
<1>7. Ends(SecantIteration(w))
  BY <1>1, <1>2, <1>3 DEF SecantIteration
<1>8. \A t, y : Ends(Advanced(w, t, y))
  BY <1>1 DEF Advanced
<1>9. Ends(SolveStep(w))
  BY <1>2, <1>8 DEF SolveStep
<1>10. Ends(Iterate(w))
  BY <1>4, <1>5, <1>6, <1>7, <1>9 DEF Iterate
<1> QED
  BY <1>10 DEF Ends

-----------------------------------------------------------------------------
(* The calculator *)

\* What an expression with these operators may come to.
Results(ops) ==
  {Refused} \cup {Value(q) : q \in Quantities}
    \cup {r \in {Crash} : {"%", "**"} \subseteq ops}
    \cup {r \in {Value(Imaginary)} : "**" \in ops}

\* The results that are values, and those that are not.
LEMMA ResultsAre ==
  ASSUME NEW ops, NEW r \in Results(ops)
  PROVE  /\ r.outcome = "value" =>
              /\ r = Value(r.value)
              /\ r.value \in Quantities \/ (r.value = Imaginary /\ "**" \in ops)
         /\ r.outcome \in {"value", "refused"} \/ (r.outcome = "crash" /\ {"%", "**"} \subseteq ops)
BY DEF Results, Refused, Crash, Value

\* Quantities are among them.
LEMMA QuantityResults ==
  ASSUME NEW ops
  PROVE  /\ Refused \in Results(ops)
         /\ \A q \in Quantities : Value(q) \in Results(ops) /\ Finish(q) \in Results(ops)
         /\ "**" \in ops => Value(Imaginary) \in Results(ops)
         /\ {"%", "**"} \subseteq ops => Crash \in Results(ops)
<1>1. \A q \in Quantities : Finish(q) = Value(q)
  BY QuantityParts DEF Finish
<1> QED
  BY <1>1 DEF Results

\* A power with a whole exponent, unless it divides by zero.
LEMMA IntegerPowerIs ==
  ASSUME NEW q \in Quantities, NEW n \in Int
  PROVE  IntegerPower(q, n) \in Quantities \/ IntegerPower(q, n) = Undefined
<1>1. CASE n < 0
  <2>1. Magnitude(n) = -n /\ -n \in Nat
    BY <1>1 DEF Magnitude
  <2>2. IntegerPower(q, n) = One \oslash PowerOf(q, -n)
    BY <1>1, <2>1 DEF IntegerPower, PowerOf
  <2>3. PowerOf(q, -n) \in Quantities
    BY <2>1, PowerIsQuantity
  <2>4. CASE PowerOf(q, -n) = Zero
    BY <2>2, <2>4 DEF \oslash
  <2>5. CASE PowerOf(q, -n) # Zero
    BY <2>2, <2>3, <2>5, ConstantsAreQuantities, QuotientIsQuantity
  <2> QED
    BY <2>4, <2>5
<1>2. CASE ~(n < 0)
  <2>1. Magnitude(n) = n /\ n \in Nat
    BY <1>2 DEF Magnitude
  <2>2. IntegerPower(q, n) = PowerOf(q, n)
    BY <1>2, <2>1 DEF IntegerPower, PowerOf
  <2> QED
    BY <2>1, <2>2, PowerIsQuantity
<1> QED
  BY <1>1, <1>2

\* A power, which raises only what the calculator turns into its own error.
LEMMA RaisedIs ==
  ASSUME NEW q \in Quantities, NEW exponent \in Quantities, NEW ops, "**" \in ops
  PROVE  Raised(q, exponent) = Crash \/ Raised(q, exponent) \in Results(ops)
<1>1. CASE exponent[2] = 1
  <2>1. exponent[1] \in Int
    BY QuantityParts
  <2>2. Raised(q, exponent) = Finish(IntegerPower(q, exponent[1]))
    BY <1>1 DEF Raised
  <2>3. IntegerPower(q, exponent[1]) \in Quantities \/ IntegerPower(q, exponent[1]) = Undefined
    BY <2>1, IntegerPowerIs
  <2> QED
    BY <2>2, <2>3, QuantityResults DEF Finish
<1>2. CASE exponent[2] # 1 /\ Negative(q)
  <2>1. q # Zero
    BY <1>2 DEF Negative, Zero, Whole
  <2>2. Raised(q, exponent) = Value(Imaginary)
    BY <1>2, <2>1 DEF Raised
  <2> QED
    BY <2>2, QuantityResults
<1>3. CASE exponent[2] # 1 /\ ~Negative(q)
  <2>1. Raised(q, exponent) \in {Crash, Value(Zero), Value(Sqrt(q)), Value(Inexact)}
    BY <1>3 DEF Raised
  <2>2. Sqrt(q) \in Quantities /\ Zero \in Quantities /\ Inexact \in Quantities
    BY <1>3, RootIsQuantity, ConstantsAreQuantities
  <2> QED
    BY <2>1, <2>2, QuantityResults
<1> QED
  BY <1>1, <1>2, <1>3

\* A remainder.
LEMMA RemainderIs ==
  ASSUME NEW q \in Quantities, NEW r \in Quantities, r # Zero
  PROVE  Remainder(q, r) \in Quantities
<1> DEFINE ratio == q \oslash r
<1>1. ratio \in Quantities
  BY QuotientIsQuantity
<1>2. Remainder(q, r) = IF IsExact(ratio) THEN q \ominus (r \otimes Whole(ratio[1] \div ratio[2])) ELSE ratio
  BY DEF Remainder
<1> HIDE DEF ratio
<1>3. ASSUME IsExact(ratio) PROVE q \ominus (r \otimes Whole(ratio[1] \div ratio[2])) \in Quantities
  <2>1. ratio[1] \in Int /\ ratio[2] \in Nat \ {0}
    BY <1>1, <1>3, QuantityParts
  <2>2. ratio[1] \div ratio[2] \in Int
    BY <2>1
  <2> QED
    BY <2>2, ConstantsAreQuantities, ProductIsQuantity, DifferenceIsQuantity
<1> QED
  BY <1>1, <1>2, <1>3

\* One operator.
LEMMA OperatedIs ==
  ASSUME NEW ops, NEW op \in {"+", "-", "*", "/", "%", "**"}, op \in ops, NEW l, NEW r,
         l \in Quantities \/ (l = Imaginary /\ "**" \in ops),
         r \in Quantities \/ (r = Imaginary /\ "**" \in ops)
  PROVE  Operated(op, l, r) \in Results(ops)
<1>1. Refused \in Results(ops)
  BY QuantityResults
<1> DEFINE refused == \/ op = "**" /\ IsExact(r) /\ Whole(MaxPower) \prec Abs(r)
                      \/ op = "**" /\ l = Zero /\ r = Imaginary
                      \/ op \in {"/", "%"} /\ r = Zero
<1>2. CASE refused
  <2>1. Operated(op, l, r) = Refused
    BY <1>2 DEF Operated
  <2> QED
    BY <1>1, <2>1
<1> SUFFICES ASSUME ~refused PROVE Operated(op, l, r) \in Results(ops)
  BY <1>2
<1>3. CASE Imaginary \in {l, r}
  <2>1. Operated(op, l, r) = IF op = "%" THEN Crash ELSE Value(Imaginary)
    BY <1>3 DEF Operated
  <2>2. "**" \in ops
    <3>1. Imaginary \notin Quantities
      BY QuantityParts DEF Imaginary, IsExact, Inexact
    <3> QED
      BY <1>3, <3>1
  <2> QED
    BY <2>1, <2>2, QuantityResults
<1>4. CASE Imaginary \notin {l, r}
  <2>1. l \in Quantities /\ r \in Quantities
    BY <1>4
  <2>2. /\ op = "+" => Operated(op, l, r) = Finish(l \oplus r)
        /\ op = "-" => Operated(op, l, r) = Finish(l \ominus r)
        /\ op = "*" => Operated(op, l, r) = Finish(l \otimes r)
        /\ op = "/" => Operated(op, l, r) = Finish(l \oslash r)
        /\ op = "%" => Operated(op, l, r) = Finish(Remainder(l, r))
        /\ op = "**" => Operated(op, l, r) = IF Raised(l, r) = Crash THEN Refused ELSE Raised(l, r)
    BY <1>4 DEF Operated
  <2>3. CASE op \in {"+", "-", "*"}
    BY <2>1, <2>2, <2>3, SumIsQuantity, DifferenceIsQuantity, ProductIsQuantity, QuantityResults
  <2>4. CASE op \in {"/", "%"}
    BY <2>1, <2>2, <2>4, QuotientIsQuantity, RemainderIs, QuantityResults
  <2>5. CASE op = "**"
    BY <1>1, <2>1, <2>2, <2>5, RaisedIs
  <2> QED
    BY <2>3, <2>4, <2>5
<1> QED
  BY <1>3, <1>4

\* The kinds of a node.
LEMMA NodeIs ==
  ASSUME NEW e \in Expressions, NEW i \in 1..Len(e)
  PROVE  /\ Len(e) \in Nat \ {0} /\ DOMAIN e = 1..Len(e)
         /\ e[i].kind \in {"number", "unary", "binary", "other"}
         /\ e[i].kind = "number" => e[i].number \in Fractions
         /\ e[i].kind = "unary" => i - e[i].operand \in 1..(i - 1) /\ e[i].op \in Operators(e)
         /\ e[i].kind = "binary" => /\ i - e[i].left \in 1..(i - 1) /\ i - e[i].right \in 1..(i - 1)
                                    /\ e[i].op \in Operators(e)
<1>1. e \in Seq(Nodes) /\ e # <<>>
  BY DEF Expressions
<1>2. Len(e) \in Nat \ {0} /\ DOMAIN e = 1..Len(e) /\ e[i] \in Nodes
  BY <1>1
<1>3. /\ e[i].kind = "unary" => e[i].operand < i
      /\ e[i].kind = "binary" => e[i].left < i /\ e[i].right < i
  BY <1>2 DEF Expressions
<1>4. /\ e[i].kind \in {"number", "unary", "binary", "other"}
      /\ e[i].kind = "number" => e[i].number \in Fractions
      /\ e[i].kind = "unary" => e[i].operand \in Nat \ {0}
      /\ e[i].kind = "binary" => e[i].left \in Nat \ {0} /\ e[i].right \in Nat \ {0}
  BY <1>2 DEF Nodes
<1>5. e[i].kind \in {"unary", "binary"} => e[i].op \in Operators(e)
  BY <1>2 DEF Operators
<1> QED
  BY <1>2, <1>3, <1>4, <1>5

\* A node has a result when those before it have.
LEMMA NodeResultIs ==
  ASSUME NEW e \in Expressions, NEW i \in 1..Len(e), NEW result,
         \A j \in 1..(i - 1) : result[j] \in Results(Operators(e))
  PROVE  NodeResult(e, i, result) \in Results(Operators(e))
<1> DEFINE ops == Operators(e)
<1>1. Refused \in Results(ops)
  BY QuantityResults
<1>2. CASE e[i].kind \in {"number", "other"}
  BY <1>1, <1>2, NodeIs, FractionsAreQuantities, QuantityResults DEF NodeResult
<1>3. CASE e[i].kind = "unary"
  <2> DEFINE operand == result[i - e[i].operand]
  <2>1. operand \in Results(ops)
    BY <1>3, NodeIs
  <2>2. NodeResult(e, i, result) =
          IF e[i].op \notin {"+", "-"} THEN Refused
          ELSE IF operand.outcome # "value" \/ e[i].op = "+" \/ operand.value = Imaginary THEN operand
          ELSE Value(Neg(operand.value))
    BY <1>3 DEF NodeResult
  <2> HIDE DEF operand, ops
  <2>3. (operand.outcome = "value" /\ operand.value # Imaginary) => Value(Neg(operand.value)) \in Results(ops)
    BY <2>1, ResultsAre, UnaryIsQuantity, QuantityResults
  <2> QED
    BY <1>1, <2>1, <2>2, <2>3 DEF ops
<1>4. CASE e[i].kind = "binary"
  <2> DEFINE l == result[i - e[i].left]
             r == result[i - e[i].right]
  <2>1. l \in Results(ops) /\ r \in Results(ops) /\ e[i].op \in ops
    BY <1>4, NodeIs
  <2>2. NodeResult(e, i, result) =
          IF e[i].op \notin {"+", "-", "*", "/", "%", "**"} THEN Refused
          ELSE IF l.outcome # "value" THEN l
          ELSE IF r.outcome # "value" THEN r
          ELSE Operated(e[i].op, l.value, r.value)
    BY <1>4 DEF NodeResult
  <2> HIDE DEF l, r, ops
  <2>3. ASSUME e[i].op \in {"+", "-", "*", "/", "%", "**"}, l.outcome = "value", r.outcome = "value"
        PROVE  Operated(e[i].op, l.value, r.value) \in Results(ops)
    <3>1. l.value \in Quantities \/ (l.value = Imaginary /\ "**" \in ops)
      BY <2>1, <2>3, ResultsAre
    <3>2. r.value \in Quantities \/ (r.value = Imaginary /\ "**" \in ops)
      BY <2>1, <2>3, ResultsAre
    <3> QED
      BY <2>1, <2>3, <3>1, <3>2, OperatedIs
  <2> QED
    BY <1>1, <2>1, <2>2, <2>3 DEF ops
<1> QED
  BY <1>2, <1>3, <1>4, NodeIs

\* The result of a node depends on the nodes before it alone.
LEMMA NodeResultLooksBack ==
  ASSUME NEW e \in Expressions, NEW i \in 1..Len(e), NEW f, NEW g, \A j \in 1..(i - 1) : f[j] = g[j]
  PROVE  NodeResult(e, i, f) = NodeResult(e, i, g)
<1>1. CASE e[i].kind \in {"number", "other"}
  BY <1>1 DEF NodeResult
<1>2. CASE e[i].kind = "unary"
  <2>1. f[i - e[i].operand] = g[i - e[i].operand]
    BY <1>2, NodeIs
  <2> QED
    BY <1>2, <2>1 DEF NodeResult
<1>3. CASE e[i].kind = "binary"
  <2>1. f[i - e[i].left] = g[i - e[i].left] /\ f[i - e[i].right] = g[i - e[i].right]
    BY <1>3, NodeIs
  <2> QED
    BY <1>3, <2>1 DEF NodeResult
<1> QED
  BY <1>1, <1>2, <1>3, NodeIs

\* The recursion has a solution.
LEMMA NodeResultsExist ==
  ASSUME NEW e \in Expressions
  PROVE  \E f : f = [i \in 1..Len(e) |-> NodeResult(e, i, f)]
<1> DEFINE n == Len(e)
           R == Results(Operators(e))
           S == [1..n -> R]
           base == [i \in 1..n |-> Refused]
           step == [i \in 1..n |-> [s \in S |-> [j \in 1..n |-> IF j = i THEN NodeResult(e, i, s) ELSE s[j]]]]
<1>1. n \in Nat
  BY DEF Expressions
<1>2. base \in S
  BY QuantityResults
<1>3. step \in [1..n -> [S -> S]]
  <2> SUFFICES ASSUME NEW i \in 1..n, NEW s \in S, NEW j \in 1..n
               PROVE  (IF j = i THEN NodeResult(e, i, s) ELSE s[j]) \in R
    OBVIOUS
  <2>1. \A k \in 1..(i - 1) : s[k] \in R
    BY <1>1
  <2>2. NodeResult(e, i, s) \in R
    BY <2>1, NodeResultIs
  <2> QED
    BY <2>2
<1>4. ASSUME NEW i \in 1..n, NEW s \in S
      PROVE  step[i][s] = [j \in 1..n |-> IF j = i THEN NodeResult(e, i, s) ELSE s[j]]
  OBVIOUS
<1> HIDE DEF n, S, base, step
<1>5. PICK h \in [0..n -> S] : Recursion(n, base, step, h)
  BY <1>1, <1>2, <1>3, RecursionExists
<1>6. ASSUME NEW i \in 1..n
      PROVE  /\ i - 1 \in 0..n /\ i \in 0..n
             /\ h[i] = [j \in 1..n |-> IF j = i THEN NodeResult(e, i, h[i - 1]) ELSE h[i - 1][j]]
  <2>1. i - 1 \in 0..n /\ i \in 0..n
    BY <1>1
  <2>2. h[i] = step[i][h[i - 1]] /\ h[i - 1] \in S
    BY <1>5, <2>1 DEF Recursion
  <2> QED
    BY <1>4, <2>1, <2>2
<1> DEFINE T == {k \in 0..n : \A j \in 1..k : h[k][j] = h[j][j]}
<1>7. \A k \in 0..n : k \in T
  <2>1. 0 \in T
    BY <1>1
  <2>2. ASSUME NEW k \in 1..n, k - 1 \in T PROVE k \in T
    <3> SUFFICES ASSUME NEW j \in 1..k PROVE h[k][j] = h[j][j]
      BY <1>1
    <3>1. CASE j = k
      BY <3>1
    <3>2. CASE j # k
      <4>1. j \in 1..(k - 1) /\ j \in 1..n
        BY <1>1, <3>2
      <4>2. h[k] = [i \in 1..n |-> IF i = k THEN NodeResult(e, k, h[k - 1]) ELSE h[k - 1][i]]
        BY <1>6
      <4>3. h[k][j] = h[k - 1][j]
        BY <3>2, <4>1, <4>2
      <4> QED
        BY <2>2, <4>1, <4>3
    <3> QED
      BY <3>1, <3>2
  <2> HIDE DEF T
  <2> QED
    BY <1>1, <2>1, <2>2, InductionAlong
<1> DEFINE f == [i \in 1..n |-> h[i][i]]
<1>8. ASSUME NEW i \in 1..n PROVE f[i] = NodeResult(e, i, f)
  <2>1. f[i] = NodeResult(e, i, h[i - 1])
    BY <1>6
  <2>2. i - 1 \in T
    BY <1>6, <1>7
  <2>3. \A j \in 1..(i - 1) : h[i - 1][j] = f[j]
    <3> SUFFICES ASSUME NEW j \in 1..(i - 1) PROVE h[i - 1][j] = f[j]
      OBVIOUS
    <3>1. j \in 1..n
      BY <1>1
    <3> QED
      BY <2>2, <3>1
  <2> HIDE DEF f
  <2>4. NodeResult(e, i, h[i - 1]) = NodeResult(e, i, f)
    BY <2>3, NodeResultLooksBack DEF n
  <2> QED
    BY <2>1, <2>4 DEF f
<1>9. f = [i \in 1..n |-> f[i]]
  OBVIOUS
<1> HIDE DEF f
<1>10. f = [i \in 1..n |-> NodeResult(e, i, f)]
  BY <1>8, <1>9
<1> QED
  BY <1>10 DEF n

\* An expression comes to one of the results of its operators.
LEMMA EvaluatedIs ==
  ASSUME NEW e \in Expressions
  PROVE  Evaluated(e) \in Results(Operators(e))
<1> DEFINE n == Len(e)
           R == Results(Operators(e))
           Body(f) == [i \in 1..n |-> NodeResult(e, i, f)]
           result == CHOOSE f : f = Body(f)
<1>1. n \in Nat \ {0} /\ DOMAIN e = 1..n
  BY DEF Expressions
<1>2. Evaluated(e) = result[n]
  <2>1. result = CHOOSE f : f = [i \in DOMAIN e |-> NodeResult(e, i, f)]
    BY <1>1
  <2> HIDE DEF result
  <2> QED
    BY <2>1 DEF Evaluated
<1>3. \E f : f = Body(f)
  BY NodeResultsExist
<1> HIDE DEF Body
<1>4. result = Body(result)
  BY <1>3
<1>5. ASSUME NEW i \in 1..n PROVE result[i] = NodeResult(e, i, result)
  BY <1>4 DEF Body
<1> DEFINE T == {k \in 0..n : \A j \in 1..k : result[j] \in R}
<1> HIDE DEF result, R
<1>6. \A k \in 0..n : k \in T
  <2>1. 0 \in T
    BY <1>1
  <2>2. ASSUME NEW k \in 1..n, k - 1 \in T PROVE k \in T
    <3>1. \A j \in 1..(k - 1) : result[j] \in R
      BY <2>2
    <3>2. NodeResult(e, k, result) \in R
      BY <3>1, NodeResultIs DEF R
    <3>3. result[k] \in R
      BY <1>5, <3>2
    <3>4. \A j \in 1..k : j = k \/ j \in 1..(k - 1)
      BY <1>1
    <3> QED
      BY <1>1, <3>1, <3>3, <3>4
  <2> HIDE DEF T, n
  <2> QED
    BY <1>1, <2>1, <2>2, InductionAlong
<1>7. n \in T /\ n \in 1..n
  BY <1>1, <1>6
<1> QED
  BY <1>2, <1>7 DEF R

\* The calculator raises an error that is not its own only for the remainder of a power.
LEMMA CalculatorAnswers ==
  ASSUME NEW a, a.expression \in Expressions
  PROVE  LET r == CalculatorTool(a) IN
         /\ r.outcome \in {"value", "refused", "crash"}
         /\ r.outcome = "crash" => {"%", "**"} \subseteq Operators(a.expression)
<1> DEFINE result == Evaluated(a.expression)
<1>1. result \in Results(Operators(a.expression))
  BY EvaluatedIs
<1>2. CalculatorTool(a) \in {Refused, result}
  BY DEF CalculatorTool
<1> QED
  BY <1>1, <1>2, ResultsAre DEF Refused

-----------------------------------------------------------------------------
(* The schemas *)

\* The arguments that the descriptor of a tool declares.
Declared(tool) == tool.required ++ tool.optional

\* Two declarations together.
LEMMA TogetherIs ==
  ASSUME NEW f, NEW g
  PROVE  /\ DOMAIN (f ++ g) = DOMAIN f \cup DOMAIN g
         /\ \A n \in DOMAIN f : (f ++ g)[n] = f[n]
         /\ \A n \in DOMAIN g : n \notin DOMAIN f => (f ++ g)[n] = g[n]
BY DEF ++

\* Names of one type.
LEMMA TypedIs ==
  ASSUME NEW type, NEW names
  PROVE  DOMAIN Typed(type, names) = names /\ \A n \in names : Typed(type, names)[n] = type
BY DEF Typed

\* A tool that takes nothing but numbers beside the operation.
TakesNumbers(tool) == tool.required = Operation /\ \E names : tool.optional = Typed("number", names)

\* Everything else that it declares is a number.
LEMMA NumbersDeclared ==
  ASSUME NEW tool, TakesNumbers(tool)
  PROVE  \A n \in DOMAIN Declared(tool) \ {"operation"} : Declared(tool)[n] = "number"
<1>1. PICK names : tool.optional = Typed("number", names)
  BY DEF TakesNumbers
<1>2. tool.required = Operation /\ DOMAIN Operation = {"operation"}
  BY DEF TakesNumbers, Operation
<1> SUFFICES ASSUME NEW n \in DOMAIN Declared(tool), n # "operation" PROVE Declared(tool)[n] = "number"
  OBVIOUS
<1> DEFINE numbers == Typed("number", names)
<1>3. Declared(tool) = Operation ++ numbers
  BY <1>1, <1>2 DEF Declared
<1>4. \A m \in DOMAIN numbers : numbers[m] = "number"
  BY TypedIs
<1> HIDE DEF numbers
<1>5. /\ DOMAIN (Operation ++ numbers) = DOMAIN Operation \cup DOMAIN numbers
      /\ \A m \in DOMAIN numbers : m \notin DOMAIN Operation => (Operation ++ numbers)[m] = numbers[m]
  BY TogetherIs
<1>6. n \in DOMAIN numbers /\ n \notin DOMAIN Operation
  BY <1>2, <1>3, <1>5
<1> QED
  BY <1>3, <1>4, <1>5, <1>6

FormulaTools ==
  {"kinematics", "dynamics", "statics", "strength_of_materials", "fluid_mechanics", "thermodynamics"}

\* The tools that look up formulas take numbers.
LEMMA FormulaSchemas ==
  ASSUME NEW tool \in FormulaTools
  PROVE  \A n \in DOMAIN Declared(Registry[tool]) \ {"operation"} : Declared(Registry[tool])[n] = "number"
<1>1. CASE tool = "kinematics"
  <2>1. Registry[tool] = KinematicsTool
    BY <1>1 DEF Registry
  <2>2. TakesNumbers(KinematicsTool)
    BY DEF TakesNumbers, KinematicsTool, Tool
  <2> QED
    BY <2>1, <2>2, NumbersDeclared
<1>2. CASE tool = "dynamics"
  <2>1. Registry[tool] = DynamicsTool
    BY <1>2 DEF Registry
  <2>2. TakesNumbers(DynamicsTool)
    BY DEF TakesNumbers, DynamicsTool, Tool
  <2> QED
    BY <2>1, <2>2, NumbersDeclared
<1>3. CASE tool = "statics"
  <2>1. Registry[tool] = StaticsTool
    BY <1>3 DEF Registry
  <2>2. TakesNumbers(StaticsTool)
    BY DEF TakesNumbers, StaticsTool, Tool
  <2> QED
    BY <2>1, <2>2, NumbersDeclared
<1>4. CASE tool = "strength_of_materials"
  <2>1. Registry[tool] = StrengthOfMaterialsTool
    BY <1>4 DEF Registry
  <2>2. TakesNumbers(StrengthOfMaterialsTool)
    BY DEF TakesNumbers, StrengthOfMaterialsTool, Tool
  <2> QED
    BY <2>1, <2>2, NumbersDeclared
<1>5. CASE tool = "fluid_mechanics"
  <2>1. Registry[tool] = FluidMechanicsTool
    BY <1>5 DEF Registry
  <2>2. TakesNumbers(FluidMechanicsTool)
    BY DEF TakesNumbers, FluidMechanicsTool, Tool
  <2> QED
    BY <2>1, <2>2, NumbersDeclared
<1>6. CASE tool = "thermodynamics"
  <2>1. Registry[tool] = ThermodynamicsTool
    BY <1>6 DEF Registry
  <2>2. TakesNumbers(ThermodynamicsTool)
    BY DEF TakesNumbers, ThermodynamicsTool, Tool
  <2> QED
    BY <2>1, <2>2, NumbersDeclared
<1> QED
  BY <1>1, <1>2, <1>3, <1>4, <1>5, <1>6 DEF FormulaTools

\* Circuit analysis takes numbers, and a list of resistances.
LEMMA CircuitSchema ==
  /\ Declared(Registry["circuit_analysis"])["resistances"] = "array"
  /\ \A n \in DOMAIN Declared(Registry["circuit_analysis"]) \ NoNumbers :
       Declared(Registry["circuit_analysis"])[n] = "number"
<1> DEFINE tool == CircuitAnalysisTool
           numbers == Typed("number", {"voltage", "current", "resistance", "input_voltage", "r1", "r2",
                                       "total_current", "power", "time_seconds", "resistance_ohms",
                                       "capacitance_farads", "inductance_henries"})
           list == [resistances |-> "array"]
<1>1. Registry["circuit_analysis"] = tool
  BY DEF Registry
<1>2. tool.required = Operation /\ tool.optional = numbers ++ list
  BY DEF CircuitAnalysisTool, Tool
<1>3. DOMAIN Operation = {"operation"} /\ DOMAIN list = {"resistances"} /\ list["resistances"] = "array"
  BY DEF Operation
<1>4. \A n \in DOMAIN numbers : numbers[n] = "number" /\ n # "resistances"
  BY TypedIs
<1> HIDE DEF tool, numbers, list
<1>5. /\ DOMAIN (numbers ++ list) = DOMAIN numbers \cup {"resistances"}
      /\ (numbers ++ list)["resistances"] = "array"
      /\ \A n \in DOMAIN numbers : (numbers ++ list)[n] = "number"
  <2>1. /\ DOMAIN (numbers ++ list) = DOMAIN numbers \cup DOMAIN list
        /\ \A n \in DOMAIN numbers : (numbers ++ list)[n] = numbers[n]
        /\ \A n \in DOMAIN list : n \notin DOMAIN numbers => (numbers ++ list)[n] = list[n]
    BY TogetherIs
  <2> QED
    BY <1>3, <1>4, <2>1
<1>6. /\ DOMAIN Declared(tool) = {"operation"} \cup DOMAIN (numbers ++ list)
      /\ \A n \in DOMAIN (numbers ++ list) : n # "operation" => Declared(tool)[n] = (numbers ++ list)[n]
  BY <1>2, <1>3, TogetherIs DEF Declared
<1> QED
  BY <1>1, <1>5, <1>6 DEF NoNumbers

\* What the descriptors of the other tools declare of the arguments that their handlers compute with.
LEMMA VectorSchema ==
  /\ \A n \in {"vector", "left", "right"} : Declared(Registry["vector_math"])[n] = "array"
  /\ Declared(Registry["vector_math"])["scalar"] = "number"
BY DEF Registry, VectorMath, Tool, Declared, Typed, Operation, ++

\* Those of matrix_math.
LEMMA MatrixSchema ==
  Declared(Registry["matrix_math"])["matrix"] = "array"
BY DEF Registry, MatrixMath, Tool, Declared, Typed, Operation, ++

\* Those of complex_math.
LEMMA ComplexSchema ==
  \A n \in {"value", "left", "right"} : Declared(Registry["complex_math"])[n] = "object"
BY DEF Registry, ComplexMath, Tool, Declared, Typed, Operation, ++

\* Those of probability.
LEMMA ProbabilitySchema ==
  /\ \A n \in {"n", "k"} : Declared(Registry["probability"])[n] = "integer"
  /\ Declared(Registry["probability"])["p"] = "number"
BY DEF Registry, Probability, Tool, Declared, Typed, Operation, ++

\* Those of interpolation.
LEMMA InterpolationSchema ==
  /\ {"x_values", "y_values", "x"} \subseteq DOMAIN Registry["interpolation"].required
  /\ \A n \in {"x_values", "y_values"} : Declared(Registry["interpolation"])[n] = "array"
  /\ Declared(Registry["interpolation"])["x"] = "number"
BY DEF Registry, Interpolation, Tool, Declared, Typed, Operation, Nothing, ++

\* Those of regression.
LEMMA RegressionSchema ==
  /\ {"x_values", "y_values"} \subseteq DOMAIN Registry["regression"].required
  /\ \A n \in {"x_values", "y_values"} : Declared(Registry["regression"])[n] = "array"
  /\ Declared(Registry["regression"])["x"] = "number"
BY DEF Registry, Regression, Tool, Declared, Typed, Operation, ++

\* Those of statistics.
LEMMA StatisticsSchema ==
  /\ "values" \in DOMAIN Registry["statistics"].required
  /\ Declared(Registry["statistics"])["values"] = "array"
  /\ Declared(Registry["statistics"])["sample"] = "boolean"
  /\ Declared(Registry["statistics"])["percentile"] = "number"
BY DEF Registry, Statistics, Tool, Declared, Operation, ++

\* Those of signal_processing.
LEMMA SignalSchema ==
  /\ "values" \in DOMAIN Registry["signal_processing"].required
  /\ Declared(Registry["signal_processing"])["values"] = "array"
BY DEF Registry, SignalProcessing, Tool, Declared, Operation, ++

\* Those of the calculator.
LEMMA CalculatorSchema ==
  "expression" \in DOMAIN Registry["calculator"].required
BY DEF Registry, Calculator, Tool

\* Those of numerical_methods.
LEMMA NumericalSchema ==
  /\ DOMAIN Registry["numerical_methods"].required = {"operation", "expression"}
  /\ \A n \in {"lower", "upper", "tolerance", "x", "step_size"} :
       Declared(Registry["numerical_methods"])[n] = "number"
  /\ \A n \in {"max_iterations", "steps"} : Declared(Registry["numerical_methods"])[n] = "integer"
BY DEF Registry, NumericalMethods, Tool, Declared, Typed, Operation, ++

-----------------------------------------------------------------------------
(* The arguments of a call *)

IsRows(tool, n) == tool = "matrix_math" /\ n # "vector"

\* The arguments as the schema and the types leave them.
ArgumentsFit(tool, a) ==
  /\ DOMAIN Registry[tool].required \subseteq DOMAIN a
  /\ \A n \in DOMAIN a \ {"operation"} :
       /\ n \in DOMAIN Declared(Registry[tool])
       /\ HasType(Declared(Registry[tool])[n], a[n], IsRows(tool, n))
  /\ (tool \in Iterative \cup {"calculator"} /\ "expression" \in DOMAIN a) =>
       a["expression"] \in ExpressionsOf(tool)

\* What a value of a declared type is.
LEMMA ValueIs ==
  ASSUME NEW tool, NEW a, ArgumentsFit(tool, a), NEW n \in DOMAIN a, n # "operation"
  PROVE  LET type == Declared(Registry[tool])[n] IN
         /\ type \in {"number", "integer"} => a[n] \in Fractions
         /\ type = "integer" => a[n][2] = 1
         /\ type = "array" => a[n] \in IF IsRows(tool, n) THEN Seq(Seq(Fractions)) ELSE Seq(Fractions)
         /\ type = "object" => a[n] \in ComplexNumbers
         /\ type = "boolean" => a[n] \in BOOLEAN
<1> DEFINE type == Declared(Registry[tool])[n]
           v == a[n]
<1>1. HasType(type, v, IsRows(tool, n))
  BY DEF ArgumentsFit
<1> HIDE DEF type, v
<1>2. CASE type \in {"number", "integer"}
  BY <1>1, <1>2 DEF HasType, type, v
<1>3. CASE type = "array"
  <2>1. v \in Seq(IF IsRows(tool, n) THEN Seq(Fractions) ELSE Fractions)
    BY <1>1, <1>3 DEF HasType
  <2>2. v \in IF IsRows(tool, n) THEN Seq(Seq(Fractions)) ELSE Seq(Fractions)
    BY <2>1, Zenon
  <2> QED
    BY <1>3, <2>2 DEF type, v
<1>4. CASE type = "object"
  BY <1>1, <1>4 DEF HasType, ComplexNumbers, type, v
<1>5. CASE type = "boolean"
  BY <1>1, <1>5 DEF HasType, type, v
<1>6. CASE type \notin {"number", "integer", "array", "object", "boolean"}
  BY <1>6 DEF type, v
<1> QED
  BY <1>2, <1>3, <1>4, <1>5, <1>6

\* The arguments of the tools that look up formulas.
LEMMA FormulaArguments ==
  ASSUME NEW tool \in FormulaTools, NEW a, ArgumentsFit(tool, a)
  PROVE  AllNumbers(a)
<1> SUFFICES ASSUME NEW n \in DOMAIN a, n \notin NoNumbers PROVE a[n] \in Fractions
  BY DEF AllNumbers
<1>1. n # "operation" /\ n \in DOMAIN Declared(Registry[tool])
  BY DEF NoNumbers, ArgumentsFit
<1>2. Declared(Registry[tool])[n] = "number"
  BY <1>1, FormulaSchemas
<1> QED
  BY <1>1, <1>2, ValueIs

\* Those of circuit_analysis.
LEMMA CircuitArguments ==
  ASSUME NEW a, ArgumentsFit("circuit_analysis", a)
  PROVE  AllNumbers(a) /\ ("resistances" \in DOMAIN a => a.resistances \in Seq(Fractions))
<1>1. ASSUME NEW n \in DOMAIN a, n \notin NoNumbers PROVE a[n] \in Fractions
  <2>1. n # "operation" /\ n \in DOMAIN Declared(Registry["circuit_analysis"])
    BY <1>1 DEF NoNumbers, ArgumentsFit
  <2>2. Declared(Registry["circuit_analysis"])[n] = "number"
    BY <1>1, <2>1, CircuitSchema
  <2> QED
    BY <2>1, <2>2, ValueIs
<1>2. ASSUME "resistances" \in DOMAIN a PROVE a["resistances"] \in Seq(Fractions)
  BY <1>2, CircuitSchema, ValueIs DEF IsRows
<1> QED
  BY <1>1, <1>2 DEF AllNumbers

\* Those of the tools with lists, matrices and complex numbers.
LEMMA VectorArguments ==
  ASSUME NEW a, ArgumentsFit("vector_math", a)
  PROVE  Vectors(a)
<1>1. ASSUME NEW n \in {"vector", "left", "right"} \cap DOMAIN a PROVE a[n] \in Seq(Fractions)
  BY <1>1, VectorSchema, ValueIs DEF IsRows
<1>2. ASSUME "scalar" \in DOMAIN a PROVE a["scalar"] \in Fractions
  BY <1>2, VectorSchema, ValueIs
<1> QED
  BY <1>1, <1>2 DEF Vectors

\* The matrix of matrix_math.
LEMMA MatrixArguments ==
  ASSUME NEW a, ArgumentsFit("matrix_math", a)
  PROVE  "matrix" \in DOMAIN a => a.matrix \in Seq(Seq(Fractions))
<1>1. ASSUME "matrix" \in DOMAIN a PROVE a["matrix"] \in Seq(Seq(Fractions))
  BY <1>1, MatrixSchema, ValueIs DEF IsRows
<1> QED
  BY <1>1

\* The complex numbers of complex_math.
LEMMA ComplexArguments ==
  ASSUME NEW a, ArgumentsFit("complex_math", a)
  PROVE  \A n \in {"value", "left", "right"} \cap DOMAIN a : a[n] \in ComplexNumbers
BY ComplexSchema, ValueIs

\* The counts and the chance of probability.
LEMMA ProbabilityArguments ==
  ASSUME NEW a, ArgumentsFit("probability", a)
  PROVE  Counts(a)
<1>1. ASSUME NEW n \in {"n", "k"} \cap DOMAIN a PROVE a[n] \in Fractions /\ a[n][2] = 1
  BY <1>1, ProbabilitySchema, ValueIs
<1>2. ASSUME "p" \in DOMAIN a PROVE a["p"] \in Fractions
  BY <1>2, ProbabilitySchema, ValueIs
<1> QED
  BY <1>1, <1>2 DEF Counts

\* The points of interpolation and regression.
LEMMA SampleArguments ==
  ASSUME NEW tool \in {"interpolation", "regression"}, NEW a, ArgumentsFit(tool, a)
  PROVE  Samples(a) /\ (tool = "interpolation" => "x" \in DOMAIN a)
<1>1. {"x_values", "y_values"} \subseteq DOMAIN a /\ (tool = "interpolation" => "x" \in DOMAIN a)
  BY InterpolationSchema, RegressionSchema DEF ArgumentsFit
<1>2. /\ \A n \in {"x_values", "y_values"} : Declared(Registry[tool])[n] = "array"
      /\ Declared(Registry[tool])["x"] = "number"
  BY InterpolationSchema, RegressionSchema
<1>3. ASSUME NEW n \in {"x_values", "y_values"} PROVE a[n] \in Seq(Fractions)
  BY <1>1, <1>2, ValueIs DEF IsRows
<1>4. ASSUME "x" \in DOMAIN a PROVE a["x"] \in Fractions
  BY <1>2, <1>4, ValueIs
<1> QED
  BY <1>1, <1>3, <1>4 DEF Samples

\* The values of statistics and signal_processing.
LEMMA ValueArguments ==
  ASSUME NEW a
  PROVE  /\ ArgumentsFit("statistics", a) => Values(a)
         /\ ArgumentsFit("signal_processing", a) => a.values \in Seq(Fractions)
<1>1. ASSUME ArgumentsFit("statistics", a) PROVE Values(a)
  <2>1. "values" \in DOMAIN a
    BY <1>1, StatisticsSchema DEF ArgumentsFit
  <2>2. a["values"] \in Seq(Fractions)
    BY <1>1, <2>1, StatisticsSchema, ValueIs DEF IsRows
  <2>3. ASSUME "sample" \in DOMAIN a PROVE a["sample"] \in BOOLEAN
    BY <1>1, <2>3, StatisticsSchema, ValueIs
  <2>4. ASSUME "percentile" \in DOMAIN a PROVE a["percentile"] \in Fractions
    BY <1>1, <2>4, StatisticsSchema, ValueIs
  <2> QED
    BY <2>1, <2>2, <2>3, <2>4 DEF Values
<1>2. ASSUME ArgumentsFit("signal_processing", a) PROVE a["values"] \in Seq(Fractions)
  <2>1. "values" \in DOMAIN a
    BY <1>2, SignalSchema DEF ArgumentsFit
  <2> QED
    BY <1>2, <2>1, SignalSchema, ValueIs DEF IsRows
<1> QED
  BY <1>1, <1>2

\* The expression of the calculator.
LEMMA CalculatorArguments ==
  ASSUME NEW a, ArgumentsFit("calculator", a)
  PROVE  a.expression \in Expressions
<1>1. "expression" \in DOMAIN a
  BY CalculatorSchema DEF ArgumentsFit
<1>2. a["expression"] \in Expressions
  BY <1>1 DEF ArgumentsFit, ExpressionsOf
<1> QED
  BY <1>2

\* The arguments of numerical_methods.
LEMMA NumericalArgumentsFit ==
  ASSUME NEW a, ArgumentsFit("numerical_methods", a)
  PROVE  NumericalArguments(a)
<1>1. {"operation", "expression"} \subseteq DOMAIN a
  BY NumericalSchema DEF ArgumentsFit
<1>2. a["expression"] \in [polynomial : Seq(Fractions), from : Fractions, fault : Faults]
  BY <1>1 DEF ArgumentsFit, ExpressionsOf, Iterative
<1>3. ASSUME NEW n \in {"lower", "upper", "tolerance", "max_iterations", "x", "step_size", "steps"}
                         \cap DOMAIN a
      PROVE  a[n] \in Fractions
  <2>1. Declared(Registry["numerical_methods"])[n] \in {"number", "integer"}
    BY NumericalSchema
  <2> QED
    BY <1>3, <2>1, ValueIs
<1> QED
  BY <1>1, <1>2, <1>3 DEF NumericalArguments

-----------------------------------------------------------------------------
(* The errors of the tools *)

\* The errors that a tool raises are its own, with the exceptions of OnlyOwnErrors for the tools
\* that do not iterate.
OwnErrors(tool, a, r) ==
  /\ r.outcome \in {"value", "refused", "crash"}
  /\ r.outcome = "crash" =>
       \/ tool = "calculator" /\ {"%", "**"} \subseteq Operators(a.expression)
       \/ /\ tool = "probability"
          /\ IF a.operation = "binomial" THEN ~({"n", "k", "p"} \subseteq DOMAIN a) ELSE ~({"x"} \subseteq DOMAIN a)
       \/ tool = "signal_processing" /\ {"sample_rate"} \subseteq DOMAIN a
       \/ <<tool, a.operation>> \in DividesByProduct

\* A conversion.
LEMMA UnitConversionAnswers ==
  ASSUME NEW a
  PROVE  Answers(UnitConversion(a))
BY DEF UnitConversion, Answers

\* An answer is no crash.
LEMMA AnswersAreOwn ==
  ASSUME NEW tool, NEW a, NEW r, Answers(r)
  PROVE  OwnErrors(tool, a, r)
BY DEF Answers, OwnErrors, Refused, Value

\* Those that may crash end in a value, a refusal or a crash.
LEMMA OutcomesAre ==
  ASSUME NEW op, NEW a
  PROVE  /\ ProbabilityTool(op, a).outcome \in {"value", "refused", "crash"}
         /\ SignalTool(op, a).outcome \in {"value", "refused", "crash"}
         /\ StrengthOfMaterials(op, a).outcome \in {"value", "refused", "crash"}
         /\ Thermodynamics(op, a).outcome \in {"value", "refused", "crash"}
         /\ RegressionTool(op, a).outcome \in {"value", "refused", "crash"}
<1> DEFINE Ends(r) == r.outcome \in {"value", "refused", "crash"}
<1>1. Ends(Refused) /\ Ends(Crash) /\ (\A v : Ends(Value(v)))
  BY DEF Refused, Crash, Value
<1> HIDE DEF Ends
<1>2. \A q : Ends(Finish(q))
  BY <1>1 DEF Finish
<1>3. Ends(ProbabilityTool(op, a))
  BY <1>1, <1>2 DEF ProbabilityTool
<1>4. Ends(SignalTool(op, a))
  BY <1>1, <1>2 DEF SignalTool
<1>5. Ends(StrengthOfMaterials(op, a))
  BY <1>1, <1>2 DEF StrengthOfMaterials
<1>6. Ends(Thermodynamics(op, a))
  BY <1>1, <1>2 DEF Thermodynamics
<1>7. Ends(RegressionTool(op, a))
  BY <1>1, <1>2 DEF RegressionTool
<1> QED
  BY <1>3, <1>4, <1>5, <1>6, <1>7 DEF Ends

\* The handlers of all tools but the two with iterative methods.
LEMMA ComputedIsOwn ==
  ASSUME NEW tool \in DOMAIN Registry, tool \notin Iterative, NEW a, ArgumentsFit(tool, a)
  PROVE  OwnErrors(tool, a, Computed(tool, a))
<1> DEFINE op == a.operation
<1>1. CASE tool = "echo"
  <2>1. Computed(tool, a) = Value(a.value)
    BY <1>1 DEF Computed
  <2> QED
    BY <2>1, AnswersAreOwn DEF Answers
<1>2. CASE tool = "unit_convert"
  <2>1. Computed(tool, a) = UnitConversion(a)
    BY <1>2 DEF Computed
  <2> QED
    BY <2>1, UnitConversionAnswers, AnswersAreOwn
<1>3. CASE tool = "calculator"
  <2>1. Computed(tool, a) = CalculatorTool(a)
    BY <1>3 DEF Computed
  <2>2. a.expression \in Expressions
    BY <1>3, CalculatorArguments
  <2> QED
    BY <1>3, <2>1, <2>2, CalculatorAnswers DEF OwnErrors
<1>4. CASE tool \in FormulaTools
  <2>1. AllNumbers(a)
    BY <1>4, FormulaArguments
  <2>2. /\ tool = "kinematics" => Computed(tool, a) = Kinematics(op, a)
        /\ tool = "dynamics" => Computed(tool, a) = Dynamics(op, a)
        /\ tool = "statics" => Computed(tool, a) = Statics(op, a)
        /\ tool = "strength_of_materials" => Computed(tool, a) = StrengthOfMaterials(op, a)
        /\ tool = "fluid_mechanics" => Computed(tool, a) = FluidMechanics(op, a)
        /\ tool = "thermodynamics" => Computed(tool, a) = Thermodynamics(op, a)
    BY DEF Computed
  <2>3. CASE <<tool, op>> \notin DividesByProduct
    <3>1. Answers(Computed(tool, a))
      BY <1>4, <2>1, <2>2, <2>3, KinematicsAnswers, DynamicsAnswers, StaticsAnswers,
         StrengthOfMaterialsAnswers, FluidMechanicsAnswers, ThermodynamicsAnswers DEF FormulaTools
    <3> QED
      BY <3>1, AnswersAreOwn
  <2>4. CASE <<tool, op>> \in DividesByProduct
    <3>1. tool \in {"strength_of_materials", "thermodynamics"}
      BY <1>4, <2>4 DEF DividesByProduct, FormulaTools
    <3> QED
      BY <2>2, <2>4, <3>1, OutcomesAre DEF OwnErrors
  <2> QED
    BY <2>3, <2>4
<1>5. CASE tool = "circuit_analysis"
  <2>1. Computed(tool, a) = CircuitAnalysis(op, a)
    BY <1>5 DEF Computed
  <2> QED
    BY <1>5, <2>1, CircuitArguments, CircuitAnalysisAnswers, AnswersAreOwn
<1>6. CASE tool = "vector_math"
  <2>1. Computed(tool, a) = VectorTool(op, a)
    BY <1>6 DEF Computed
  <2> QED
    BY <1>6, <2>1, VectorArguments, VectorToolAnswers, AnswersAreOwn
<1>7. CASE tool = "matrix_math"
  <2>1. Computed(tool, a) = MatrixTool(op, a)
    BY <1>7 DEF Computed
  <2> QED
    BY <1>7, <2>1, MatrixArguments, MatrixToolAnswers, AnswersAreOwn
<1>8. CASE tool = "complex_math"
  <2>1. Computed(tool, a) = ComplexTool(op, a)
    BY <1>8 DEF Computed
  <2> QED
    BY <1>8, <2>1, ComplexArguments, ComplexToolAnswers, AnswersAreOwn
<1>9. CASE tool = "probability"
  <2>1. Computed(tool, a) = ProbabilityTool(op, a)
    BY <1>9 DEF Computed
  <2>2. Counts(a)
    BY <1>9, ProbabilityArguments
  <2>3. \/ Answers(ProbabilityTool(op, a))
        \/ op = "binomial" /\ ~({"n", "k", "p"} \subseteq DOMAIN a)
        \/ op # "binomial" /\ ~({"x"} \subseteq DOMAIN a)
    BY <2>2, ProbabilityAnswers
  <2> QED
    BY <1>9, <2>1, <2>3, OutcomesAre, AnswersAreOwn DEF OwnErrors
<1>10. CASE tool = "interpolation"
  <2>1. Computed(tool, a) = InterpolationTool(op, a)
    BY <1>10 DEF Computed
  <2> QED
    BY <1>10, <2>1, SampleArguments, InterpolationToolAnswers, AnswersAreOwn
<1>11. CASE tool = "regression"
  <2>1. Computed(tool, a) = RegressionTool(op, a)
    BY <1>11 DEF Computed
  <2>2. CASE op # "correlation"
    BY <1>11, <2>1, <2>2, SampleArguments, RegressionToolAnswers, AnswersAreOwn
  <2>3. CASE op = "correlation"
    BY <1>11, <2>1, <2>3, OutcomesAre DEF OwnErrors, DividesByProduct
  <2> QED
    BY <2>2, <2>3
<1>12. CASE tool = "statistics"
  <2>1. Computed(tool, a) = StatisticsTool(op, a)
    BY <1>12 DEF Computed
  <2> QED
    BY <1>12, <2>1, ValueArguments, StatisticsToolAnswers, AnswersAreOwn
<1>13. CASE tool = "signal_processing"
  <2>1. Computed(tool, a) = SignalTool(op, a)
    BY <1>13 DEF Computed
  <2>2. Answers(SignalTool(op, a)) \/ {"sample_rate"} \subseteq DOMAIN a
    BY <1>13, ValueArguments, SignalToolAnswers
  <2> QED
    BY <1>13, <2>1, <2>2, OutcomesAre, AnswersAreOwn DEF OwnErrors
<1>14. CASE tool = "frequency_domain"
  <2>1. Computed(tool, a) = FrequencyTool(op, a)
    BY <1>14 DEF Computed
  <2> QED
    BY <2>1, FrequencyToolAnswers, AnswersAreOwn
<1>15. tool \in {"echo", "unit_convert", "calculator", "circuit_analysis", "vector_math", "matrix_math",
                 "complex_math", "probability", "interpolation", "regression", "statistics",
                 "signal_processing", "frequency_domain"} \cup FormulaTools
  BY DEF Registry, Iterative, FormulaTools
<1> QED
  BY <1>1, <1>2, <1>3, <1>4, <1>5, <1>6, <1>7, <1>8, <1>9, <1>10, <1>11, <1>12, <1>13, <1>14, <1>15

-----------------------------------------------------------------------------
(* The life of a call *)

\* The operation is injected into the arguments and into their types alike.
LEMMA InjectedFits ==
  ASSUME NEW p, DOMAIN p.types = DOMAIN p.arguments
  PROVE  LET a == Injected(p, p.arguments, p.operation)
             t == Injected(p, p.types, "string") IN
         /\ DOMAIN a = DOMAIN t
         /\ \A n \in DOMAIN a : n # "operation" =>
              n \in DOMAIN p.types /\ a[n] = p.arguments[n] /\ t[n] = p.types[n]
<1>1. CASE /\ "operation" \in DOMAIN Registry[p.tool].required
           /\ "operation" \notin DOMAIN p.types
  <2>1. /\ Injected(p, p.arguments, p.operation) = p.arguments ++ [operation |-> p.operation]
        /\ Injected(p, p.types, "string") = p.types ++ [operation |-> "string"]
    BY <1>1 DEF Injected
  <2> QED
    BY <2>1 DEF ++
<1>2. CASE ~(/\ "operation" \in DOMAIN Registry[p.tool].required
             /\ "operation" \notin DOMAIN p.types)
  BY <1>2 DEF Injected
<1> QED
  BY <1>1, <1>2

\* A proposal that is admitted gives its tool the arguments that the schema declares.
LEMMA AdmittedFits ==
  ASSUME NEW p, WellTyped(p), Admits(p)
  PROVE  p.tool \in DOMAIN Registry /\ ArgumentsFit(p.tool, Injected(p, p.arguments, p.operation))
<1> DEFINE a == Injected(p, p.arguments, p.operation)
           t == Injected(p, p.types, "string")
           declared == Declared(Registry[p.tool])
<1>1. /\ DOMAIN p.types = DOMAIN p.arguments
      /\ \A n \in DOMAIN p.types : HasType(p.types[n], p.arguments[n], IsRows(p.tool, n))
      /\ (p.tool \in Iterative \cup {"calculator"} /\ "expression" \in DOMAIN p.types) =>
           p.arguments["expression"] \in ExpressionsOf(p.tool)
  BY DEF WellTyped, IsRows
<1>2. /\ DOMAIN a = DOMAIN t
      /\ \A n \in DOMAIN a : n # "operation" =>
           n \in DOMAIN p.types /\ a[n] = p.arguments[n] /\ t[n] = p.types[n]
  BY <1>1, InjectedFits
<1>3. /\ p.tool \in DOMAIN Registry
      /\ DOMAIN Registry[p.tool].required \subseteq DOMAIN t
      /\ DOMAIN t \subseteq DOMAIN declared
      /\ \A n \in DOMAIN t : t[n] = declared[n] \/ (t[n] = "integer" /\ declared[n] = "number")
  BY DEF Admits, Validates, Declared
<1> HIDE DEF a, t, declared
<1>4. ASSUME NEW n \in DOMAIN a \ {"operation"}
      PROVE  n \in DOMAIN declared /\ HasType(declared[n], a[n], IsRows(p.tool, n))
  <2>1. HasType(t[n], a[n], IsRows(p.tool, n))
    BY <1>1, <1>2
  <2>2. n \in DOMAIN declared /\ (t[n] = declared[n] \/ (t[n] = "integer" /\ declared[n] = "number"))
    BY <1>2, <1>3
  <2>3. HasType("integer", a[n], IsRows(p.tool, n)) => HasType("number", a[n], IsRows(p.tool, n))
    BY DEF HasType
  <2> QED
    BY <2>1, <2>2, <2>3
<1>5. (p.tool \in Iterative \cup {"calculator"} /\ "expression" \in DOMAIN a) =>
        a["expression"] \in ExpressionsOf(p.tool)
  BY <1>1, <1>2
<1> QED
  BY <1>2, <1>3, <1>4, <1>5 DEF ArgumentsFit, a, declared

-----------------------------------------------------------------------------
(* The inductive invariant *)

Early == {"idle", "proposed", "resolved", "authorized"}

\* A call has a registered tool and arguments of the types that its schema declares, the work
\* of a working one is sound for its operation, its expression and its arguments, and a call that
\* is done has raised no error that is not the tool's own.
IInv ==
  /\ TypeOK
  /\ stage = "proposed" => \E tool \in DOMAIN Proposals : proposal \in Proposals[tool]
  /\ stage \in {"resolved", "authorized", "working"} =>
       call.tool \in DOMAIN Registry /\ ArgumentsFit(call.tool, call.arguments)
  /\ stage \in Early => outcome = Pending
  /\ stage = "working" =>
       \/ /\ call.tool = "numerical_methods"
          /\ NumericalWork(call.arguments.operation, call.arguments.expression, outcome.work)
       \/ /\ call.tool = "differential_equations"
          /\ SolverWork(call.arguments.operation, call.arguments, outcome.work)
  /\ OnlyOwnErrors

\* It holds at the beginning.
LEMMA InitIInv == Init => IInv
BY DEF Init, IInv, TypeOK, OnlyOwnErrors, Pending, Early

\* An error is excused as one of an iterative tool.
Excused(tool, a) ==
  a.expression.fault = "complex" \/ (tool = "differential_equations" /\ Overflows(a))

\* The iterative tools begin with sound work or answer rightly.
LEMMA BegunIsSound ==
  ASSUME NEW tool \in Iterative, NEW a, ArgumentsFit(tool, a)
  PROVE  LET r == Begun(tool, a) IN
         /\ r.outcome \in {"value", "refused", "work"} \/ (r.outcome = "crash" /\ Excused(tool, a))
         /\ r.outcome = "work" =>
              \/ tool = "numerical_methods" /\ NumericalWork(a.operation, a.expression, r.work)
              \/ tool = "differential_equations" /\ SolverWork(a.operation, a, r.work)
         /\ (r.outcome = "value" /\ tool = "numerical_methods" /\ a.operation \in Bracketing) =>
              IsRootAtEnd(a, r.value)
<1>1. CASE tool = "numerical_methods"
  <2>1. Begun(tool, a) = NumericalTool(a.operation, a)
    BY <1>1 DEF Begun
  <2>2. NumericalArguments(a)
    BY <1>1, NumericalArgumentsFit
  <2>3. Tolerable(a.expression, NumericalTool(a.operation, a))
    BY <2>2, NumericalToolIsTolerable
  <2> QED
    BY <1>1, <2>1, <2>2, <2>3, NumericalToolIsSound DEF Tolerable, Excused
<1>2. CASE tool = "differential_equations"
  <2>1. Begun(tool, a) = BeginSolving(a.operation, a, MaxSteps)
    BY <1>2 DEF Begun
  <2> QED
    BY <1>2, <2>1, BeginSolvingIsSound DEF Excused
<1> QED
  BY <1>1, <1>2 DEF Iterative

\* Handling a call.
LEMMA HandleIsSound ==
  ASSUME IInv, Handle
  PROVE  IInv' /\ AnswerIsRight
<1>1. /\ stage = "authorized" /\ proposal' = proposal /\ call' = call
      /\ call.tool \in DOMAIN Registry /\ ArgumentsFit(call.tool, call.arguments)
  BY DEF Handle, IInv
<1>2. CASE call.tool \in Iterative
  <2> DEFINE r == Begun(call.tool, call.arguments)
  <2>1. Continue(r)
    BY <1>2 DEF Handle
  <2>2. /\ \/ r.outcome \in {"value", "refused", "work"}
           \/ r.outcome = "crash" /\ Excused(call.tool, call.arguments)
        /\ r.outcome = "work" =>
             \/ /\ call.tool = "numerical_methods"
                /\ NumericalWork(call.arguments.operation, call.arguments.expression, r.work)
             \/ call.tool = "differential_equations" /\ SolverWork(call.arguments.operation, call.arguments, r.work)
        /\ (r.outcome = "value" /\ call.tool = "numerical_methods"
            /\ call.arguments.operation \in Bracketing) => IsRootAtEnd(call.arguments, r.value)
    BY <1>1, <1>2, BegunIsSound
  <2> HIDE DEF r
  <2>3. outcome' = r /\ stage' = IF r.outcome = "work" THEN "working" ELSE "done"
    BY <2>1 DEF Continue, Settle
  <2>4. OnlyOwnErrors'
    BY <1>1, <1>2, <2>2, <2>3 DEF OnlyOwnErrors, Excused
  <2>5. IInv'
    BY <1>1, <2>2, <2>3, <2>4 DEF IInv, TypeOK, Early
  <2>6. AnswerIsRight
    BY <1>1, <2>2, <2>3 DEF AnswerIsRight
  <2> QED
    BY <2>5, <2>6
<1>3. CASE call.tool \notin Iterative
  <2> DEFINE r == Computed(call.tool, call.arguments)
  <2>1. stage' = "done" /\ outcome' = r
    BY <1>3 DEF Handle, Settle
  <2>2. OwnErrors(call.tool, call.arguments, r)
    BY <1>1, <1>3, ComputedIsOwn
  <2> HIDE DEF r
  <2>3. OnlyOwnErrors'
    BY <1>1, <2>1, <2>2 DEF OnlyOwnErrors, OwnErrors, Lacks
  <2>4. IInv'
    BY <2>1, <2>2, <2>3 DEF IInv, TypeOK, OwnErrors, Early
  <2>5. AnswerIsRight
    BY <1>1, <1>3 DEF AnswerIsRight, Iterative
  <2> QED
    BY <2>4, <2>5
<1> QED
  BY <1>2, <1>3

\* Another iteration.
LEMMA NextIterationIsSound ==
  ASSUME IInv, NextIteration
  PROVE  IInv' /\ AnswerIsRight
<1> DEFINE r == Iterate(outcome.work)
<1>1. /\ stage = "working" /\ proposal' = proposal /\ call' = call /\ Continue(r)
      /\ call.tool \in DOMAIN Registry /\ ArgumentsFit(call.tool, call.arguments)
  BY DEF NextIteration, IInv
<1>2. outcome' = r /\ stage' = IF r.outcome = "work" THEN "working" ELSE "done"
  BY <1>1 DEF Continue, Settle
<1>3. CASE /\ call.tool = "numerical_methods"
           /\ NumericalWork(call.arguments.operation, call.arguments.expression, outcome.work)
  <2>1. /\ r.outcome = "work" => NumericalWork(call.arguments.operation, call.arguments.expression, r.work)
        /\ (r.outcome = "value" /\ call.arguments.operation \in Bracketing) => IsRootIn(outcome.work, r.value)
        /\ outcome.work.method = call.arguments.operation
    BY <1>3, NumericalIterationIsSound
  <2>2. /\ call.arguments.operation \in {"bisection", "brent", "newton", "secant"}
        /\ outcome.work.call.expression = call.arguments.expression
    BY <1>3 DEF NumericalWork, Bracketing
  <2>3. r.outcome \in {"refused", "value", "work"} \/ (r.outcome = "crash" /\ Excused(call.tool, call.arguments))
    BY <2>1, <2>2, IterationsAreTolerable DEF Tolerable, Excused
  <2> HIDE DEF r
  <2>4. OnlyOwnErrors'
    BY <1>1, <1>2, <1>3, <2>3 DEF OnlyOwnErrors, Excused, Iterative
  <2>5. IInv'
    BY <1>1, <1>2, <1>3, <2>1, <2>3, <2>4 DEF IInv, TypeOK, Early
  <2>6. AnswerIsRight
    BY <1>1, <1>2, <1>3, <2>1 DEF AnswerIsRight
  <2> QED
    BY <2>5, <2>6
<1>4. CASE /\ call.tool = "differential_equations"
           /\ SolverWork(call.arguments.operation, call.arguments, outcome.work)
  <2>1. r.outcome = "work" => SolverWork(call.arguments.operation, call.arguments, r.work)
    BY <1>4, SolveStepIsSound
  <2>2. outcome.work.method \in {"euler", "rk4"} /\ outcome.work.call = call.arguments
    BY <1>4 DEF SolverWork
  <2>3. r.outcome \in {"refused", "value", "work"} \/ (r.outcome = "crash" /\ Excused(call.tool, call.arguments))
    BY <2>2, IterationsAreTolerable DEF Tolerable, Excused
  <2> HIDE DEF r
  <2>4. OnlyOwnErrors'
    BY <1>1, <1>2, <1>4, <2>3 DEF OnlyOwnErrors, Excused, Iterative
  <2>5. IInv'
    BY <1>1, <1>2, <1>4, <2>1, <2>3, <2>4 DEF IInv, TypeOK, Early
  <2>6. AnswerIsRight
    BY <1>1, <1>4 DEF AnswerIsRight
  <2> QED
    BY <2>5, <2>6
<1> QED
  BY <1>1, <1>3, <1>4 DEF IInv

\* Every step keeps the invariant, and answers rightly where it answers.
LEMMA StepIInv ==
  ASSUME IInv, [Next]_vars
  PROVE  IInv' /\ [AnswerIsRight]_vars
<1>1. ASSUME NEW tool \in DOMAIN Proposals, NEW p \in Proposals[tool], Propose(p)
      PROVE  IInv' /\ AnswerIsRight
  BY <1>1 DEF Propose, IInv, TypeOK, OnlyOwnErrors, Pending, Early, AnswerIsRight
<1>2. ASSUME Resolve PROVE IInv' /\ AnswerIsRight
  <2>1. stage = "proposed" /\ stage' = "resolved" /\ Admits(proposal) /\ outcome' = outcome
    BY <1>2 DEF Resolve
  <2>2. /\ call'.tool = proposal.tool
        /\ call'.arguments = Injected(proposal, proposal.arguments, proposal.operation)
    BY <1>2 DEF Resolve
  <2>3. WellTyped(proposal)
    BY <2>1, ProposalsAssumption DEF IInv
  <2>4. call'.tool \in DOMAIN Registry /\ ArgumentsFit(call'.tool, call'.arguments)
    BY <2>1, <2>2, <2>3, AdmittedFits
  <2>5. outcome = Pending
    BY <2>1 DEF IInv, Early
  <2> QED
    BY <2>1, <2>4, <2>5 DEF IInv, TypeOK, OnlyOwnErrors, Pending, Early, AnswerIsRight
<1>3. ASSUME Reject PROVE IInv' /\ AnswerIsRight
  BY <1>3 DEF Reject, Settle, Rejected, IInv, TypeOK, OnlyOwnErrors, Early, AnswerIsRight
<1>4. ASSUME Authorize PROVE IInv' /\ AnswerIsRight
  <2>1. /\ stage = "resolved" /\ call' = call
        /\ (stage' = "authorized" /\ outcome' = outcome) \/ (stage' = "done" /\ outcome' = Rejected)
    BY <1>4 DEF Authorize
  <2> QED
    BY <2>1 DEF IInv, TypeOK, OnlyOwnErrors, Pending, Rejected, Early, AnswerIsRight
<1>5. ASSUME Deliver PROVE IInv' /\ AnswerIsRight
  BY <1>5 DEF Deliver, IInv, TypeOK, OnlyOwnErrors, Pending, Early, AnswerIsRight
<1>6. ASSUME UNCHANGED vars PROVE IInv'
  BY <1>6 DEF vars, IInv, TypeOK, OnlyOwnErrors, Lacks
<1> QED
  BY <1>1, <1>2, <1>3, <1>4, <1>5, <1>6, HandleIsSound, NextIterationIsSound DEF Next, Progress

\* The work that is done is sound.
LEMMA WorkFollows == IInv => WorkIsSound
<1> SUFFICES ASSUME IInv, stage = "working" PROVE WorkIsSound
  BY DEF WorkIsSound
<1> DEFINE w == outcome.work
<1>1. CASE NumericalWork(call.arguments.operation, call.arguments.expression, w)
  <2>1. w.method = call.arguments.operation
    BY <1>1, NumericalIterationIsSound
  <2>2. CASE w.method \in Bracketing
    <3>1. Brackets(w)
      BY <1>1, <2>1, <2>2 DEF NumericalWork, Bracketing
    <3> QED
      BY <2>2, <3>1 DEF WorkIsSound, Bracketing
  <2>3. CASE w.method \in {"newton", "secant"}
    <3>1. w.iteration \in 1..w.call.max_iterations[1]
      BY <1>1, <2>1, <2>3 DEF NumericalWork, Bracketing, CountedWork
    <3> QED
      BY <2>3, <3>1 DEF WorkIsSound, Bracketing
  <2> QED
    BY <1>1, <2>1, <2>2, <2>3 DEF NumericalWork
<1>2. CASE SolverWork(call.arguments.operation, call.arguments, w)
  <2>1. w.method \in {"euler", "rk4"}
    BY <1>2 DEF SolverWork
  <2> QED
    BY <2>1 DEF WorkIsSound, Bracketing
<1> QED
  BY <1>1, <1>2 DEF IInv

\* The invariant holds of every reachable state.
THEOREM CallInvariance == Spec => []IInv
<1> QED
  BY InitIInv, StepIInv, PTL DEF Spec

\* What a call is, where it is, and how it ended fit together in every reachable state.
THEOREM TypesStay == Spec => []TypeOK
<1>1. IInv => TypeOK
  BY DEF IInv
<1> QED
  BY <1>1, CallInvariance, PTL

\* A tool that is given the types its schema declares raises no error that is not its own, but
\* where OnlyOwnErrors says so.
THEOREM ErrorsStayOwn == Spec => []OnlyOwnErrors
<1>1. IInv => OnlyOwnErrors
  BY DEF IInv
<1> QED
  BY <1>1, CallInvariance, PTL

\* In every reachable state a method that looks for a root has a bracket of it or iterations
\* left.
THEOREM WorkStaysSound == Spec => []WorkIsSound
<1> QED
  BY CallInvariance, WorkFollows, PTL

\* The bracketing methods keep their brackets and answer rightly, and the others stay within
\* their iterations.
THEOREM IterationStaysSound == Spec => IterationIsSound
<1>1. IInv /\ [Next]_vars => [WorkIsSound /\ AnswerIsRight]_vars
  BY StepIInv, WorkFollows
<1> QED
  BY <1>1, CallInvariance, PTL DEF Spec, IterationIsSound

=============================================================================
