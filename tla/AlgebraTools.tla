---------------------------- MODULE AlgebraTools ----------------------------
(***************************************************************************)
(* anne.vector_math, anne.matrix_math, anne.complex_math and               *)
(* anne.probability.  A vector is a sequence of numbers, a matrix a        *)
(* sequence of rows, a complex number a record of its two parts.           *)
(***************************************************************************)
EXTENDS ToolCalculations

Given(a, names) == names \subseteq DOMAIN a

(* Vectors *)

Plus(u, v) == [i \in DOMAIN u |-> u[i] \oplus v[i]]
Minus(u, v) == [i \in DOMAIN u |-> u[i] \ominus v[i]]
Scaled(u, q) == [i \in DOMAIN u |-> u[i] \otimes q]

\* vector_dot, once the dimensions agree.
Dot(u, v) == SumOf([i \in DOMAIN u |-> u[i] \otimes v[i]])

VectorMagnitude(u) == Sqrt(Dot(u, u))

Cross(u, v) ==
  <<(u[2] \otimes v[3]) \ominus (u[3] \otimes v[2]),
    (u[3] \otimes v[1]) \ominus (u[1] \otimes v[3]),
    (u[1] \otimes v[2]) \ominus (u[2] \otimes v[1])>>

\* math.acos in radians, which is a fraction only for one.
Acos(q) == IF q = One THEN Zero ELSE Tainted(q, q)

\* The cosine of the angle between two vectors, none of them zero.
Cosine(u, v) == Dot(u, v) \oslash (VectorMagnitude(u) \otimes VectorMagnitude(v))

\* Two vectors of one dimension, none of them empty.
Alike(a) == Given(a, {"left", "right"}) /\ a.left # <<>> /\ Len(a.left) = Len(a.right)

Single(a) == Given(a, {"vector"}) /\ a.vector # <<>>

IsZero(u) == \A i \in DOMAIN u : u[i] = Zero

VectorTool(op, a) ==
  CASE op = "magnitude" /\ Single(a) -> Finish(VectorMagnitude(a.vector))
    [] op = "add" /\ Alike(a) -> Value(Plus(a.left, a.right))
    [] op = "subtract" /\ Alike(a) -> Value(Minus(a.left, a.right))
    [] op = "scale" /\ Single(a) /\ Given(a, {"scalar"}) -> Value(Scaled(a.vector, a.scalar))
    [] op = "dot" /\ Alike(a) -> Finish(Dot(a.left, a.right))
    [] op = "cross" /\ Alike(a) ->
         IF Len(a.left) = 3 THEN Value(Cross(a.left, a.right)) ELSE Refused
    [] op = "normalize" /\ Single(a) ->
         IF IsZero(a.vector) THEN Refused
         ELSE Value(Scaled(a.vector, One \oslash VectorMagnitude(a.vector)))
    [] op = "angle" /\ Alike(a) ->
         IF IsZero(a.left) \/ IsZero(a.right) THEN Refused ELSE Finish(Acos(Cosine(a.left, a.right)))
    [] OTHER -> Refused
-----------------------------------------------------------------------------
(* Matrices *)

\* _validate_matrix
Rectangular(m) == m # <<>> /\ m[1] # <<>> /\ \A r \in DOMAIN m : Len(m[r]) = Len(m[1])
Columns(m) == Len(m[1])
SquareMatrix(m) == Rectangular(m) /\ Len(m) = Columns(m)

Identity(n) == [r \in 1..n |-> [c \in 1..n |-> IF r = c THEN One ELSE Zero]]

Multiply(l, r) ==
  [i \in DOMAIN l |-> [j \in 1..Columns(r) |->
     SumOf([k \in DOMAIN r |-> l[i][k] \otimes r[k][j]])]]

Transpose(m) == [c \in 1..Columns(m) |-> [r \in DOMAIN m |-> m[r][c]]]

\* The first of the rows p..n with the largest element in column p.
PivotRow(m, p) ==
  LET best == {r \in p..Len(m) : \A s \in p..Len(m) : Abs(m[s][p]) \preceq Abs(m[r][p])}
  IN CHOOSE r \in best : \A s \in best : r <= s

Exchanged(m, i, j) ==
  [r \in DOMAIN m |-> CASE r = i -> m[j] [] r = j -> m[i] [] OTHER -> m[r]]

\* The rows below the pivot, each less its multiple of the pivot row.
Eliminated(m, p) ==
  [r \in DOMAIN m |->
     IF r <= p THEN m[r]
     ELSE [c \in DOMAIN m[r] |->
             IF c <= p THEN m[r][c]
             ELSE m[r][c] \ominus ((m[r][p] \oslash m[p][p]) \otimes m[p][c])]]

\* Mutant: a change of rows leaves the sign alone.
SignKept(pivotRow, p) == One

SignOf(pivotRow, p) == IF pivotRow = p THEN One ELSE Whole(-1)

\* matrix_determinant: elimination with the largest pivot first.  A column without a pivot
\* ends it with zero.
Determinant(m) ==
  LET after[p \in 0..Len(m)] ==
        IF p = 0 THEN [work |-> m, determinant |-> One] ELSE
          LET before == after[p - 1]
              row == PivotRow(before.work, p)
              work == Exchanged(before.work, p, row) IN
          IF before.determinant = Zero \/ work[p][p] = Zero
          THEN [before EXCEPT !.determinant = Zero]
          ELSE [work |-> Eliminated(work, p),
                determinant |-> before.determinant \otimes (SignOf(row, p) \otimes work[p][p])]
  IN after[Len(m)].determinant

\* The pivot row divided by the pivot, and every other row cleared in its column.
Cleared(m, p) ==
  LET pivot == Scaled(m[p], One \oslash m[p][p]) IN
  [r \in DOMAIN m |-> IF r = p THEN pivot ELSE Minus(m[r], Scaled(pivot, m[r][p]))]

\* matrix_inverse: Gauss and Jordan on the matrix beside the identity; <<>> when singular.
MatrixInverse(m) ==
  LET n == Len(m)
      augmented == [r \in 1..n |-> m[r] \o Identity(n)[r]]
      after[p \in 0..n] ==
        IF p = 0 THEN augmented ELSE
          LET before == after[p - 1]
              work == IF before = <<>> THEN <<>> ELSE Exchanged(before, p, PivotRow(before, p)) IN
          IF work = <<>> \/ work[p][p] = Zero THEN <<>> ELSE Cleared(work, p)
  IN IF after[n] = <<>> THEN <<>> ELSE [r \in 1..n |-> SubSeq(after[n][r], n + 1, 2 * n)]

PairOfMatrices(a) == Given(a, {"left", "right"}) /\ Rectangular(a.left) /\ Rectangular(a.right)
SameShape(a) ==
  PairOfMatrices(a) /\ Len(a.left) = Len(a.right) /\ Columns(a.left) = Columns(a.right)
OneMatrix(a) == Given(a, {"matrix"}) /\ Rectangular(a.matrix)

MatrixTool(op, a) ==
  CASE op = "add" /\ SameShape(a) -> Value([r \in DOMAIN a.left |-> Plus(a.left[r], a.right[r])])
    [] op = "subtract" /\ SameShape(a) ->
         Value([r \in DOMAIN a.left |-> Minus(a.left[r], a.right[r])])
    [] op \in {"scale", "scalar_multiply"} /\ OneMatrix(a) /\ Given(a, {"scalar"}) ->
         Value([r \in DOMAIN a.matrix |-> Scaled(a.matrix[r], a.scalar)])
    [] op = "multiply" /\ PairOfMatrices(a) ->
         IF Columns(a.left) = Len(a.right) THEN Value(Multiply(a.left, a.right)) ELSE Refused
    [] op \in {"matrix_vector_multiply", "vector_multiply"} /\ OneMatrix(a) /\ Given(a, {"vector"}) ->
         IF Columns(a.matrix) = Len(a.vector)
         THEN Value([r \in DOMAIN a.matrix |-> Dot(a.matrix[r], a.vector)]) ELSE Refused
    [] op = "transpose" /\ OneMatrix(a) -> Value(Transpose(a.matrix))
    [] op = "determinant" /\ OneMatrix(a) ->
         IF SquareMatrix(a.matrix) THEN Finish(Determinant(a.matrix)) ELSE Refused
    [] op = "inverse" /\ OneMatrix(a) ->
         IF SquareMatrix(a.matrix) /\ MatrixInverse(a.matrix) # <<>> THEN Value(MatrixInverse(a.matrix))
         ELSE Refused
    [] op = "identity" /\ Given(a, {"size"}) ->
         IF Positive(a.size) THEN Value(Identity(a.size[1])) ELSE Refused
    [] OTHER -> Refused
-----------------------------------------------------------------------------
(* Complex numbers.  The phase is left out: it is no fraction. *)

Complex(re, im) == [real |-> re, imaginary |-> im]

ComplexProduct(u, v) ==
  Complex((u.real \otimes v.real) \ominus (u.imaginary \otimes v.imaginary),
          (u.real \otimes v.imaginary) \oplus (u.imaginary \otimes v.real))

Modulus(u) == Sqrt(Square(u.real) \oplus Square(u.imaginary))

\* complex_divide, once the denominator is known not to be zero.
ComplexQuotient(u, v) ==
  LET denominator == Square(v.real) \oplus Square(v.imaginary) IN
  Complex(((u.real \otimes v.real) \oplus (u.imaginary \otimes v.imaginary)) \oslash denominator,
          ((u.imaginary \otimes v.real) \ominus (u.real \otimes v.imaginary)) \oslash denominator)

ComplexTool(op, a) ==
  LET two == Given(a, {"left", "right"})
      one == Given(a, {"value"}) IN
  CASE op = "add" /\ two -> Value(Complex(a.left.real \oplus a.right.real,
                                          a.left.imaginary \oplus a.right.imaginary))
    [] op = "subtract" /\ two -> Value(Complex(a.left.real \ominus a.right.real,
                                               a.left.imaginary \ominus a.right.imaginary))
    [] op = "multiply" /\ two -> Value(ComplexProduct(a.left, a.right))
    [] op = "divide" /\ two ->
         IF a.right = Complex(Zero, Zero) THEN Refused ELSE Value(ComplexQuotient(a.left, a.right))
    [] op = "magnitude" /\ one -> Finish(Modulus(a.value))
    [] op = "conjugate" /\ one -> Value(Complex(a.value.real, Neg(a.value.imaginary)))
    [] op = "real" /\ one -> Value(a.value.real)
    [] op = "imaginary" /\ one -> Value(a.value.imaginary)
    [] OTHER -> Refused
-----------------------------------------------------------------------------
(* Probability.  The two normal distributions are no fractions. *)

Choose(n, k) ==
  LET row[m \in 0..n] == [j \in 0..n |->
        CASE j = 0 \/ j = m -> 1
          [] j > m -> 0
          [] OTHER -> row[m - 1][j - 1] + row[m - 1][j]]
  IN row[n][k]

PowerOf(q, n) ==
  LET power[i \in 0..n] == IF i = 0 THEN One ELSE power[i - 1] \otimes q IN power[n]

Binomial(n, k, p) ==
  Whole(Choose(n, k)) \otimes (PowerOf(p, k) \otimes PowerOf(One \ominus p, n - k))

\* The arguments are read with [], which raises KeyError when one is missing.
ProbabilityTool(op, given) ==
  LET a == WithDefault(given, "stddev", One) IN
  CASE op = "binomial" /\ ~Given(a, {"n", "k", "p"}) -> Crash
    [] op = "binomial" /\ Given(a, {"n", "k", "p"}) ->
         IF Zero \preceq a.k /\ a.k \preceq a.n /\ Zero \preceq a.p /\ a.p \preceq One
         THEN Finish(Binomial(a.n[1], a.k[1], a.p)) ELSE Refused
    [] op \in {"normal_pdf", "normal_cdf"} /\ ~Given(a, {"x"}) -> Crash
    [] op \in {"normal_pdf", "normal_cdf"} /\ Given(a, {"x"}) ->
         IF Positive(a.stddev) THEN Value(Inexact) ELSE Refused
    [] OTHER -> Refused

=============================================================================
