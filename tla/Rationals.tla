------------------------------ MODULE Rationals ------------------------------
(***************************************************************************)
(* Exact arithmetic in place of the floats of the tools: a number is a     *)
(* fraction <<n, d>> in lowest terms with d > 0.  Two more values stand    *)
(* for what a fraction cannot: Undefined, where Python raises              *)
(* ZeroDivisionError or a domain error, and Inexact, a finite number that  *)
(* is no fraction (a square root, a logarithm, the sine of most angles).   *)
(*                                                                         *)
(* Of the floats themselves three things are kept, each with a constant    *)
(* in place of its bit pattern, and used where a tool raises or loops      *)
(* because of it: a product or quotient too small for a float is zero (Underflow), a  *)
(* quotient can be too large for one (FloatMax), and large numbers lie      *)
(* apart (Float).  All other rounding and the limit of 1e100 on            *)
(* magnitudes are left out.                                                *)
(***************************************************************************)
EXTENDS Integers, Sequences

CONSTANTS
  FloatMin,     \* the smallest positive number
  FloatMax,     \* the largest
  Coarse,       \* from here on numbers lie ...
  Spacing       \* ... this far apart

Undefined == <<0, 0>>
Inexact == <<1, 0>>

IsExact(q) == q[2] # 0

Magnitude(n) == IF n < 0 THEN -n ELSE n

\* Euclid's algorithm, for a and b in Gcd[b][a].
Gcd[b \in Nat] == [a \in Nat |-> IF b = 0 THEN a ELSE Gcd[a % b][b]]

Fraction(n, d) ==
  LET g == Gcd[Magnitude(d)][Magnitude(n)]
      sign == IF d < 0 THEN -1 ELSE 1
  IN <<sign * (n \div g), sign * (d \div g)>>

\* The fractions in lowest terms.
Fractions == {q \in Int \X (Nat \ {0}) : Gcd[q[2]][Magnitude(q[1])] = 1}

Whole(n) == <<n, 1>>

Zero == Whole(0)
One == Whole(1)
Two == Whole(2)

\* What becomes of an operation on values of which one is no fraction.
Tainted(a, b) == IF Undefined \in {a, b} THEN Undefined ELSE Inexact

a \oplus b ==
  IF IsExact(a) /\ IsExact(b) THEN Fraction(a[1] * b[2] + b[1] * a[2], a[2] * b[2])
  ELSE Tainted(a, b)

a \ominus b == a \oplus <<-b[1], b[2]>>

a \otimes b ==
  IF IsExact(a) /\ IsExact(b) THEN Fraction(a[1] * b[1], a[2] * b[2]) ELSE Tainted(a, b)

a \oslash b ==
  CASE b = Zero -> Undefined
    [] b # Zero /\ IsExact(a) /\ IsExact(b) -> Fraction(a[1] * b[2], a[2] * b[1])
    [] OTHER -> Tainted(a, b)

Negative(a) == a[2] # 0 /\ a[1] < 0
Positive(a) == a[2] # 0 /\ a[1] > 0
Neg(a) == Zero \ominus a
Abs(a) == IF Negative(a) THEN Neg(a) ELSE a

a \preceq b == a[1] * b[2] <= b[1] * a[2]
a \prec b == a[1] * b[2] < b[1] * a[2]

ASSUME FloatAssumption ==
  \A q \in {FloatMin, FloatMax, Coarse, Spacing} : q \in Fractions /\ Positive(q)

\* A computed number that is too small for a float is zero.
Underflow(q) == IF IsExact(q) /\ Abs(q) \prec FloatMin THEN Zero ELSE q

\* The whole number next to a fraction, the even one of two.
Nearest(q) ==
  LET low == q[1] \div q[2]
      rest == 2 * (q[1] % q[2]) IN
  IF rest < q[2] \/ (rest = q[2] /\ low % 2 = 0) THEN low ELSE low + 1

\* The float next to a fraction.
Float(q) ==
  IF Abs(q) \prec Coarse THEN q ELSE Whole(Nearest(q \oslash Spacing)) \otimes Spacing

Square(a) == a \otimes a

\* math.sqrt of a number that is not negative.
Sqrt(a) ==
  LET Roots(n) == {r \in 0..n : r * r = n} IN
  CASE Negative(a) -> Undefined
    [] ~Negative(a) /\ IsExact(a) /\ Roots(a[1]) # {} /\ Roots(a[2]) # {} ->
         <<CHOOSE r \in Roots(a[1]) : TRUE, CHOOSE r \in Roots(a[2]) : TRUE>>
    [] OTHER -> Tainted(a, a)

\* The sine of an angle in degrees.
Sin(angle) ==
  CASE angle[2] # 1 -> Inexact
    [] angle[2] = 1 /\ angle[1] % 180 = 0 -> Zero
    [] angle[2] = 1 /\ angle[1] % 360 = 90 -> One
    [] angle[2] = 1 /\ angle[1] % 360 = 270 -> Whole(-1)
    [] angle[2] = 1 /\ angle[1] % 360 \in {30, 150} -> <<1, 2>>
    [] angle[2] = 1 /\ angle[1] % 360 \in {210, 330} -> <<-1, 2>>
    [] OTHER -> Inexact

Cos(angle) == Sin(angle \oplus Whole(90))

\* The sum of a sequence of numbers, from the left.
SumOf(s) ==
  LET sum[i \in 0..Len(s)] == IF i = 0 THEN Zero ELSE sum[i - 1] \oplus s[i]
  IN sum[Len(s)]

=============================================================================
