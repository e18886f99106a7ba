------------------------------ MODULE DataTools ------------------------------
(***************************************************************************)
(* anne.interpolation, anne.regression, anne.statistics and the two signal *)
(* processing tools: what they compute from sequences of numbers.          *)
(***************************************************************************)
EXTENDS ToolCalculations

Series(s) == s # <<>>

\* Where sorting by the keys puts the i-th place: after what has a smaller key, and an equal
\* one before it.
PlaceOf(keys, i) ==
  Cardinality({j \in DOMAIN keys : keys[j] \prec keys[i] \/ (keys[j] = keys[i] /\ j <= i)})

\* list.sort and sorted, which are stable.
Sorted(s, keys) == [p \in DOMAIN s |-> s[CHOOSE i \in DOMAIN s : PlaceOf(keys, i) = p]]

Ordered(s) == Sorted(s, s)

Smallest(s) == Ordered(s)[1]
Largest(s) == Ordered(s)[Len(s)]
Mean(s) == SumOf(s) \oslash Whole(Len(s))
SumOfProducts(s, t) == SumOf([i \in DOMAIN s |-> s[i] \otimes t[i]])
Centred(s) == [i \in DOMAIN s |-> s[i] \ominus Mean(s)]
-----------------------------------------------------------------------------
(* Interpolation: _prepare_data and the four methods *)

Prepared(a, minimum) ==
  LET xs == a.x_values IN
  /\ Len(xs) = Len(a.y_values) /\ Len(xs) >= minimum
  /\ \A i, j \in DOMAIN xs : i # j => xs[i] # xs[j]
  /\ Smallest(xs) \preceq a.x /\ a.x \preceq Largest(xs)

Between(x, a, b) == (a \preceq x /\ x \preceq b) \/ (b \preceq x /\ x \preceq a)

\* The first pair of neighbours, in the order given, with the target between them.
Linear(xs, ys, x) ==
  LET here == {i \in 1..(Len(xs) - 1) : Between(x, xs[i], xs[i + 1])}
      i == CHOOSE i \in here : \A j \in here : i <= j
      fraction == (x \ominus xs[i]) \oslash (xs[i + 1] \ominus xs[i])
  IN IF x = xs[1] THEN ys[1] ELSE ys[i] \oplus (fraction \otimes (ys[i + 1] \ominus ys[i]))

Lagrange(xs, ys, x) ==
  LET n == Len(xs)
      Term(i) ==
        LET product[j \in 0..n] ==
              CASE j = 0 -> ys[i]
                [] j = i -> product[j - 1]
                [] OTHER -> product[j - 1] \otimes ((x \ominus xs[j]) \oslash (xs[i] \ominus xs[j]))
        IN product[n]
  IN SumOf([i \in 1..n |-> Term(i)])

\* One round of divided differences, from the end so that each uses the previous round's.
Divided(xs, before, order) ==
  [i \in DOMAIN xs |->
     IF i <= order THEN before[i]
     ELSE (before[i] \ominus before[i - 1]) \oslash (xs[i] \ominus xs[i - order])]

NewtonInterpolant(xs, ys, x) ==
  LET n == Len(xs)
      round[order \in 0..(n - 1)] ==
        IF order = 0 THEN ys ELSE Divided(xs, round[order - 1], order)
      coefficients == round[n - 1]
      horner[i \in 1..n] ==
        IF i = n THEN coefficients[n]
        ELSE (horner[i + 1] \otimes (x \ominus xs[i])) \oplus coefficients[i]
  IN horner[1]

\* _cubic_spline up to its coefficients: the points in order, then c from the sweeps over
\* the tridiagonal system, then b and d.
SortedPoints(xs, ys) == Sorted([i \in DOMAIN xs |-> <<xs[i], ys[i]>>], xs)

\* The sweep down: what is left of the diagonal and of the right hand side.  The factor is
\* taken with the row's own diagonal, as the code does.
Swept(h, alpha) ==
  LET n == Len(h) + 1
      Inner(i) == i \in 2..(n - 1)
      lower == [i \in 1..n |-> IF Inner(i) THEN h[i - 1] ELSE Zero]
      upper == [i \in 1..n |-> IF Inner(i) THEN h[i] ELSE Zero]
      diagonal == [i \in 1..n |->
                     IF Inner(i) THEN Two \otimes (h[i - 1] \oplus h[i]) ELSE One]
      factor == [i \in 1..n |-> lower[i] \oslash diagonal[i]]
      rhs[i \in 1..n] ==
        IF i = 1 THEN alpha[1] ELSE alpha[i] \ominus (factor[i] \otimes rhs[i - 1])
  IN [upper |-> upper, rhs |-> rhs,
      diagonal |-> [i \in 1..n |-> diagonal[i] \ominus (factor[i] \otimes upper[i])]]

\* The sweep up: the curvature at each point from the next one's.
BackSubstituted(swept) ==
  LET n == Len(swept.rhs)
      c[i \in 1..n] ==
        IF i = n THEN swept.rhs[n] \oslash swept.diagonal[n]
        ELSE (swept.rhs[i] \ominus (swept.upper[i] \otimes c[i + 1])) \oslash swept.diagonal[i]
  IN c

Widths(points) == [i \in 1..(Len(points) - 1) |-> points[i + 1][1] \ominus points[i][1]]

Curvatures(points, h) ==
  LET Secant(i) == (points[i + 1][2] \ominus points[i][2]) \oslash h[i]
      alpha == [i \in DOMAIN points |->
                  IF i \in 2..Len(h) THEN Whole(3) \otimes (Secant(i) \ominus Secant(i - 1)) ELSE Zero]
  IN BackSubstituted(Swept(h, alpha))

\* The polynomial of each interval, from its left end.
PiecesOf(points, h, c) ==
  [i \in DOMAIN h |->
     [x |-> points[i][1], a |-> points[i][2], width |-> h[i], c |-> c[i],
      b |-> ((points[i + 1][2] \ominus points[i][2]) \oslash h[i])
              \ominus ((h[i] \otimes ((Two \otimes c[i]) \oplus c[i + 1])) \oslash Whole(3)),
      d |-> (c[i + 1] \ominus c[i]) \oslash (Whole(3) \otimes h[i])]]

Pieces(xs, ys) ==
  LET points == SortedPoints(xs, ys)  h == Widths(points) IN
  PiecesOf(points, h, Curvatures(points, h))

PieceAt(p, dx) ==
  p.a \oplus ((p.b \otimes dx) \oplus ((p.c \otimes Square(dx)) \oplus (p.d \otimes (dx \otimes Square(dx)))))

\* The first interval that holds the target.
InPieces(pieces, x) ==
  LET here == {i \in DOMAIN pieces : x \preceq (pieces[i].x \oplus pieces[i].width)}
      i == CHOOSE i \in here : \A j \in here : i <= j
  IN PieceAt(pieces[i], x \ominus pieces[i].x)

CubicSpline(xs, ys, x) == InPieces(Pieces(xs, ys), x)

InterpolationTool(op, a) ==
  CASE op = "linear" /\ Prepared(a, 2) -> Finish(Linear(a.x_values, a.y_values, a.x))
    [] op = "lagrange" /\ Prepared(a, 2) -> Finish(Lagrange(a.x_values, a.y_values, a.x))
    [] op \in {"newton", "newton_divided_difference"} /\ Prepared(a, 2) ->
         Finish(NewtonInterpolant(a.x_values, a.y_values, a.x))
    [] op \in {"cubic_spline", "spline"} /\ Prepared(a, 4) ->
         Finish(CubicSpline(a.x_values, a.y_values, a.x))
    [] OTHER -> Refused
-----------------------------------------------------------------------------
(* Regression *)

Variation(s) == SumOfProducts(Centred(s), Centred(s))

Slope(xs, ys) == SumOfProducts(Centred(xs), Centred(ys)) \oslash Variation(xs)

\* The share of the variation of ys that the model explains; all of it when there is none.
Explained(ys, residuals) ==
  IF Variation(ys) = Zero THEN One
  ELSE One \ominus (SumOfProducts(residuals, residuals) \oslash Variation(ys))

LineWith(xs, ys, slope, intercept) ==
  LET residuals == [i \in DOMAIN xs |-> ys[i] \ominus (intercept \oplus (slope \otimes xs[i]))]
  IN [slope |-> slope, intercept |-> intercept, residuals |-> residuals,
      r_squared |-> Explained(ys, residuals)]

LinearModel(xs, ys) ==
  LET slope == Slope(xs, ys) IN
  LineWith(xs, ys, slope, Mean(ys) \ominus (slope \otimes Mean(xs)))

Correlation(xs, ys) ==
  SumOfProducts(Centred(xs), Centred(ys)) \oslash Sqrt(Underflow(Variation(xs) \otimes Variation(ys)))

RegressionTool(op, a) ==
  LET xs == a.x_values  ys == a.y_values
      model == LinearModel(xs, ys) IN
  CASE Len(xs) # Len(ys) \/ Len(xs) < 2 -> Refused
    [] OTHER ->
       CASE op = "linear" -> IF Variation(xs) = Zero THEN Refused ELSE Value(model)
         [] op = "correlation" ->
              IF Zero \in {Variation(xs), Variation(ys)} THEN Refused
              ELSE Finish(Correlation(xs, ys))
         [] op = "predict" ->
              IF "x" \notin DOMAIN a \/ Variation(xs) = Zero THEN Refused
              ELSE Finish(model.intercept \oplus (model.slope \otimes a.x))
         [] OTHER -> Refused
-----------------------------------------------------------------------------
(* Statistics *)

\* The middle value, or the mean of the two in the middle.
Median(s) ==
  LET data == Ordered(s)  middle == Len(s) \div 2 IN
  IF Len(s) % 2 = 1 THEN data[middle + 1] ELSE (data[middle] \oplus data[middle + 1]) \oslash Two

Count(s, v) == Cardinality({i \in DOMAIN s : s[i] = v})

\* The values that occur most often.
Modes(s) == {s[i] : i \in {j \in DOMAIN s : \A k \in DOMAIN s : Count(s, s[k]) <= Count(s, s[j])}}

Variance(s, sample) == Variation(s) \oslash Whole(IF sample THEN Len(s) - 1 ELSE Len(s))

\* Between the two values around the position, in proportion.
Percentile(s, p) ==
  LET data == Ordered(s)
      position == (Whole(Len(s) - 1) \otimes p) \oslash Whole(100)
      lower == position[1] \div position[2]
      fraction == position \ominus Whole(lower) IN
  IF fraction = Zero THEN data[lower + 1]
  ELSE data[lower + 1] \oplus (fraction \otimes (data[lower + 2] \ominus data[lower + 1]))

RootMeanSquare(s) == Sqrt(SumOfProducts(s, s) \oslash Whole(Len(s)))

StatisticsTool(op, given) ==
  LET a == WithDefault(given, "sample", FALSE)
      s == a.values IN
  CASE s = <<>> -> Refused
    [] s # <<>> /\ op = "sum" -> Finish(SumOf(s))
    [] s # <<>> /\ op = "mean" -> Finish(Mean(s))
    [] s # <<>> /\ op = "median" -> Finish(Median(s))
    [] s # <<>> /\ op = "mode" ->
         LET modes == Modes(s)  mode == CHOOSE v \in modes : TRUE IN
         IF Cardinality(modes) = 1 /\ Count(s, mode) > 1 THEN Value(mode) ELSE Refused
    [] s # <<>> /\ op \in {"variance", "standard_deviation", "stddev", "std"} ->
         IF a.sample /\ Len(s) < 2 THEN Refused
         ELSE Finish(IF op = "variance" THEN Variance(s, a.sample) ELSE Sqrt(Variance(s, a.sample)))
    [] s # <<>> /\ op \in {"min", "minimum"} -> Value(Smallest(s))
    [] s # <<>> /\ op \in {"max", "maximum"} -> Value(Largest(s))
    [] s # <<>> /\ op = "range" -> Finish(Largest(s) \ominus Smallest(s))
    [] s # <<>> /\ op \in {"percentile", "percent"} ->
         IF "percentile" \in DOMAIN a /\ Zero \preceq a.percentile /\ a.percentile \preceq Whole(100)
         THEN Finish(Percentile(s, a.percentile)) ELSE Refused
    [] s # <<>> /\ op = "rms" -> Finish(RootMeanSquare(s))
    [] OTHER -> Refused
-----------------------------------------------------------------------------
(* Signal processing *)

\* The sum over the window slides by what comes in and what goes out.
MovingAverage(s, window) ==
  LET sums[i \in window..Len(s)] ==
        IF i = window THEN SumOf(SubSeq(s, 1, window))
        ELSE (sums[i - 1] \oplus s[i]) \ominus s[i - window]
  IN [i \in 1..(Len(s) - window + 1) |-> sums[i + window - 1] \oslash Whole(window)]

\* The first value of the largest magnitude.
Peak(s) ==
  LET best == {i \in DOMAIN s : \A j \in DOMAIN s : Abs(s[j]) \preceq Abs(s[i])}
  IN s[CHOOSE i \in best : \A j \in best : i <= j]

Difference(s) == [i \in 1..(Len(s) - 1) |-> s[i + 1] \ominus s[i]]

Convolution(s, kernel) ==
  [i \in 1..(Len(s) + Len(kernel) - 1) |->
     SumOf([j \in DOMAIN s |->
              IF i - j + 1 \in DOMAIN kernel THEN s[j] \otimes kernel[i - j + 1] ELSE Zero])]

\* The handler passes every argument on; one that the function does not name is a TypeError.
SignalTool(op, a) ==
  LET s == a.values IN
  CASE "sample_rate" \in DOMAIN a -> Crash
    [] "sample_rate" \notin DOMAIN a /\ s = <<>> -> Refused
    [] OTHER ->
       CASE op = "moving_average" ->
              IF "window" \in DOMAIN a /\ Positive(a.window) /\ a.window \preceq Whole(Len(s))
              THEN Value(MovingAverage(s, a.window[1])) ELSE Refused
         [] op = "rms" -> Finish(RootMeanSquare(s))
         [] op = "peak" -> Value(Peak(s))
         [] op = "peak_to_peak" -> Value(Largest(s) \ominus Smallest(s))
         [] op = "difference" -> Value(Difference(s))
         [] op = "convolution" ->
              IF "kernel" \in DOMAIN a /\ a.kernel # <<>> THEN Value(Convolution(s, a.kernel))
              ELSE Refused
         [] OTHER -> Refused
-----------------------------------------------------------------------------
(* The frequency domain.  A spectrum is a sequence of pairs <<real, imaginary>>. *)

\* The unit number at minus k n / size of a turn.
Unit(k, n, size) ==
  LET angle == <<-360 * k * n, size>> IN
  LET degrees == Fraction(angle[1], angle[2]) IN <<Cos(degrees), Sin(degrees)>>

PairSum(u, v) == <<u[1] \oplus v[1], u[2] \oplus v[2]>>
PairDifference(u, v) == <<u[1] \ominus v[1], u[2] \ominus v[2]>>
PairProduct(u, v) ==
  <<(u[1] \otimes v[1]) \ominus (u[2] \otimes v[2]), (u[1] \otimes v[2]) \oplus (u[2] \otimes v[1])>>

Dft(s) ==
  LET size == Len(s)
      Part(k, part) == SumOf([n \in 1..size |-> s[n] \otimes Unit(k - 1, n - 1, size)[part]])
  IN [k \in 1..size |-> <<Part(k, 1), Part(k, 2)>>]

\* One round of the recursion: the spectra of the two halves become that of the whole.
Butterfly(even, twiddle, half) == [k \in 1..(2 * half) |->
  IF k <= half THEN PairSum(even[k], twiddle[k])
  ELSE PairDifference(even[k - half], twiddle[k - half])]

\* spectrum[stride][first] is the spectrum of every stride-th value from the first on: that of
\* every second one of them and that of the others.
Fft(s) ==
  LET spectrum[stride \in 1..Len(s)] == [first \in 1..stride |->
        LET half == Len(s) \div (2 * stride)
            even == spectrum[2 * stride][first]
            odd == spectrum[2 * stride][first + stride]
            twiddle == [k \in 1..half |-> PairProduct(Unit(k - 1, 1, 2 * half), odd[k])]
        IN IF stride = Len(s) THEN <<<<s[first], Zero>>>> ELSE Butterfly(even, twiddle, half)]
  IN spectrum[1][1]

PowerOfTwo(n) == n \in {1, 2, 4, 8, 16}

FrequencyTool(op, a) ==
  LET s == a.values IN
  CASE s = <<>> -> Refused
    [] s # <<>> /\ op = "dft" -> Value(Dft(s))
    [] s # <<>> /\ op = "fft" -> IF PowerOfTwo(Len(s)) THEN Value(Fft(s)) ELSE Refused
    [] s # <<>> /\ op = "magnitude_spectrum" ->
         IF "sample_rate" \in DOMAIN a /\ Positive(a.sample_rate) /\ PowerOfTwo(Len(s))
         THEN Value([k \in DOMAIN s |->
                       Sqrt(Square(Fft(s)[k][1]) \oplus Square(Fft(s)[k][2]))])
         ELSE Refused
    [] OTHER -> Refused

=============================================================================
