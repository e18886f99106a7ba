--------------------------- MODULE NumericalTools ---------------------------
(***************************************************************************)
(* anne.numerical_methods and anne.differential_equations.  The methods    *)
(* that iterate are given as the work they begin with and one iteration;   *)
(* an iteration ends in a value, in the tool's own error, or in more work. *)
(* The expression of a call is a polynomial, given by its coefficients,    *)
(* and for a differential equation one of a few right hand sides; either   *)
(* may be one that cannot be evaluated below some place.                   *)
(***************************************************************************)
EXTENDS ToolCalculations

CONSTANTS
  NearZero,     \* the square root of ulp(1.0): what the slope of a method must exceed
  Snap          \* 1e-14: a solver that comes this close to tf is there

ASSUME ThresholdAssumption ==
  \A q \in {NearZero, Snap} : q \in Fractions /\ Positive(q)

\* The step of Newton's central difference, which is exact for polynomials of degree two
\* whatever the step is.
DerivativeStep == One

Work(w) == [outcome |-> "work", work |-> w]

Evaluate(f, x) ==
  LET s == f.polynomial
      horner[i \in 1..(Len(s) + 1)] ==
        IF i > Len(s) THEN Zero ELSE (horner[i + 1] \otimes x) \oplus s[i]
  IN horner[1]

\* An expression with a fault has no value below its place: its evaluation raises (a
\* logarithm, a division, a number too large) or gives a complex number (x**0.5).
Fails(f, x) == f.fault # "none" /\ x \prec f.from

\* What comes of evaluating the expression at some places: the tool's own error when it
\* raises, and a TypeError that nobody catches when it is complex.
Attempt(f, places, result) ==
  IF \A x \in places : ~Fails(f, x) THEN result
  ELSE IF f.fault = "complex" THEN Crash ELSE Refused

Larger(a, b) == IF a \preceq b THEN b ELSE a

Supplied(a, names) == names \subseteq DOMAIN a

\* _validate_tolerance and _validate_iterations
Limits(a) == Positive(a.tolerance) /\ Positive(a.max_iterations)

Lower(a) == IF a.lower \preceq a.upper THEN a.lower ELSE a.upper
Upper(a) == IF a.lower \preceq a.upper THEN a.upper ELSE a.lower

OppositeSigns(p, q) == Negative(p \otimes q)

\* The common beginning of _bisection and _brent.
BeginBracketed(op, a) ==
  LET lo == Lower(a)  hi == Upper(a)
      flo == Evaluate(a.expression, lo)  fhi == Evaluate(a.expression, hi)
      begun == IF Positive(flo \otimes fhi) THEN Refused
               ELSE IF flo = Zero THEN Value(lo)
               ELSE IF fhi = Zero THEN Value(hi)
               ELSE Work([method |-> op, a |-> lo, b |-> hi, fa |-> flo, fb |-> fhi,
                          iteration |-> 1, call |-> a]) IN
  CASE ~Supplied(a, {"lower", "upper"}) -> Refused
    [] OTHER -> IF ~Limits(a) \/ a.lower = a.upper THEN Refused
                ELSE Attempt(a.expression, {lo, hi}, begun)

\* More work, unless this was the last iteration.
Again(w) ==
  IF w.iteration >= w.call.max_iterations[1] THEN Refused
  ELSE Work([w EXCEPT !.iteration = @ + 1])

\* Mutant: the half with the sign change is dropped.
BisectWrongHalf(w) ==
  LET middle == w.a \oplus ((w.b \ominus w.a) \oslash Two)
      fm == Evaluate(w.call.expression, middle)
      halved == IF OppositeSigns(w.fa, fm) THEN Again([w EXCEPT !.a = middle, !.fa = fm])
                ELSE Again([w EXCEPT !.b = middle, !.fb = fm]) IN
  Attempt(w.call.expression, {middle},
    IF Abs(fm) \preceq w.call.tolerance \/ (w.b \ominus w.a) \preceq w.call.tolerance
    THEN Value(middle) ELSE halved)

Bisect(w) ==
  LET middle == w.a \oplus ((w.b \ominus w.a) \oslash Two)
      fm == Evaluate(w.call.expression, middle)
      halved == IF OppositeSigns(w.fa, fm) THEN Again([w EXCEPT !.b = middle, !.fb = fm])
                ELSE Again([w EXCEPT !.a = middle, !.fa = fm]) IN
  Attempt(w.call.expression, {middle},
    IF Abs(fm) \preceq w.call.tolerance \/ (w.b \ominus w.a) \preceq w.call.tolerance
    THEN Value(middle) ELSE halved)

\* The secant through the ends of the bracket, or its middle when that comes too close.
Candidate(w) ==
  LET secant == w.b \ominus ((w.fb \otimes (w.b \ominus w.a)) \oslash (w.fb \ominus w.fa))
      margin == w.call.tolerance \oslash Whole(100) IN
  IF secant \preceq (w.a \oplus margin) \/ (w.b \ominus margin) \preceq secant
  THEN (w.a \oplus w.b) \oslash Two ELSE secant

BrentIteration(w) ==
  LET c == Candidate(w)  fc == Evaluate(w.call.expression, c) IN
  IF (w.b \ominus w.a) \preceq w.call.tolerance THEN Value((w.a \oplus w.b) \oslash Two)
  ELSE Attempt(w.call.expression, {c},
    IF Abs(fc) \preceq w.call.tolerance THEN Value(c)
    ELSE IF OppositeSigns(w.fa, fc) THEN Again([w EXCEPT !.b = c, !.fb = fc])
    ELSE IF OppositeSigns(w.fb, fc) THEN Again([w EXCEPT !.a = c, !.fa = fc])
    ELSE Value(c))

BeginNewton(a) ==
  IF Supplied(a, {"initial_guess"}) /\ Limits(a)
  THEN Work([method |-> "newton", x |-> a.initial_guess, iteration |-> 1, call |-> a])
  ELSE Refused

NewtonSlope(w) ==
  LET F(x) == Evaluate(w.call.expression, x) IN
  (F(w.x \oplus DerivativeStep) \ominus F(w.x \ominus DerivativeStep))
    \oslash (Two \otimes DerivativeStep)

\* A slope that is too small against the function's value to divide by.
TooFlat(slope, height) == Abs(slope) \preceq (NearZero \otimes Larger(Abs(height), One))

\* Mutant: Newton's method does not count its iterations.
NewtonUncounted(w) ==
  LET f == w.call.expression
      fx == Evaluate(f, w.x)
      next == w.x \ominus (fx \oslash NewtonSlope(w))
      stepped == IF TooFlat(NewtonSlope(w), fx) THEN Refused
                 ELSE IF Abs(next \ominus w.x) \preceq w.call.tolerance THEN Value(next)
                 ELSE Work([w EXCEPT !.x = next]) IN
  Attempt(f, {w.x},
    IF Abs(fx) \preceq w.call.tolerance THEN Value(w.x)
    ELSE Attempt(f, {w.x \oplus DerivativeStep, w.x \ominus DerivativeStep}, stepped))

NewtonIteration(w) ==
  LET f == w.call.expression
      fx == Evaluate(f, w.x)
      next == w.x \ominus (fx \oslash NewtonSlope(w))
      stepped == IF TooFlat(NewtonSlope(w), fx) THEN Refused
                 ELSE IF Abs(next \ominus w.x) \preceq w.call.tolerance THEN Value(next)
                 ELSE Again([w EXCEPT !.x = next]) IN
  Attempt(f, {w.x},
    IF Abs(fx) \preceq w.call.tolerance THEN Value(w.x)
    ELSE Attempt(f, {w.x \oplus DerivativeStep, w.x \ominus DerivativeStep}, stepped))

BeginSecant(a) ==
  IF /\ Supplied(a, {"initial_guess", "second_guess"}) /\ Limits(a)
     /\ a.initial_guess # a.second_guess
  THEN Attempt(a.expression, {a.initial_guess, a.second_guess},
         Work([method |-> "secant", x0 |-> a.initial_guess, x1 |-> a.second_guess,
               iteration |-> 1, call |-> a]))
  ELSE Refused

\* The last pass, too, evaluates the function where a next one would begin.
SecantIteration(w) ==
  LET f0 == Evaluate(w.call.expression, w.x0)
      f1 == Evaluate(w.call.expression, w.x1)
      next == w.x1 \ominus ((f1 \otimes (w.x1 \ominus w.x0)) \oslash (f1 \ominus f0)) IN
  IF Abs(f0) \preceq w.call.tolerance THEN Value(w.x0)
  ELSE IF Abs(f1) \preceq w.call.tolerance THEN Value(w.x1)
  ELSE IF TooFlat(f1 \ominus f0, Larger(Abs(f0), Abs(f1))) THEN Refused
  ELSE IF Abs(next \ominus w.x1) \preceq w.call.tolerance THEN Value(next)
  ELSE Attempt(w.call.expression, {next}, Again([w EXCEPT !.x0 = w.x1, !.x1 = next]))
-----------------------------------------------------------------------------
(* Integration and differences: done in one go *)

SimpsonWeight(i) == IF i % 2 = 0 THEN 2 ELSE 4

\* lower and upper may come in either order; the same place is zero at once.
Integral(op, a) ==
  LET n == a.steps[1]
      lo == Lower(a)
      h == (Upper(a) \ominus lo) \oslash Whole(n)
      F(i) == Evaluate(a.expression, lo \oplus (Whole(i) \otimes h))
      inner == SumOf([i \in 1..(n - 1) |->
                        F(i) \otimes Whole(IF op = "simpson" THEN SimpsonWeight(i) ELSE 2)])
      area == (h \otimes (F(0) \oplus (inner \oplus F(n)))) \oslash Whole(IF op = "simpson" THEN 3 ELSE 2)
  IN CASE a.lower = a.upper -> Zero
       [] a.lower # a.upper -> IF a.upper \prec a.lower THEN Neg(area) ELSE area

\* The places at which an integration evaluates the function.
SamplePlaces(a) ==
  LET h == (Upper(a) \ominus Lower(a)) \oslash Whole(a.steps[1]) IN
  IF a.lower = a.upper THEN {} ELSE {Lower(a) \oplus (Whole(i) \otimes h) : i \in 0..a.steps[1]}

Integrate(op, a) ==
  IF /\ Supplied(a, {"lower", "upper"}) /\ Positive(a.steps)
     /\ op = "simpson" => a.steps[1] % 2 = 0
  THEN Attempt(a.expression, SamplePlaces(a), Finish(Integral(op, a))) ELSE Refused

Differences == {"forward_difference", "central_difference", "backward_difference"}

\* The two places of a difference.
PlaceAfter(op, a) == IF op = "backward_difference" THEN a.x ELSE a.x \oplus a.step_size
PlaceBefore(op, a) == IF op = "forward_difference" THEN a.x ELSE a.x \ominus a.step_size

Differentiate(op, a) ==
  LET rise == Evaluate(a.expression, PlaceAfter(op, a)) \ominus Evaluate(a.expression, PlaceBefore(op, a))
      run == IF op = "central_difference" THEN Two \otimes a.step_size ELSE a.step_size IN
  IF ~Supplied(a, {"x"}) \/ ~Positive(a.step_size) THEN Refused
  ELSE Attempt(a.expression, {PlaceAfter(op, a), PlaceBefore(op, a)}, Finish(rise \oslash run))

\* numerical_methods: the defaults of a call, and what its operation begins with.
NumericalTool(op, given) ==
  LET limited == WithDefault(WithDefault(given, "max_iterations", Whole(1000)), "tolerance", <<1, 1000>>)
      a == WithDefault(WithDefault(limited, "steps", Whole(100)), "step_size", <<1, 1000>>) IN
  CASE op \in {"bisection", "brent"} -> BeginBracketed(op, a)
    [] op = "newton" -> BeginNewton(a)
    [] op = "secant" -> BeginSecant(a)
    [] op \in {"trapezoidal", "simpson"} -> Integrate(op, a)
    [] op \in Differences -> Differentiate(op, a)
    [] OTHER -> Refused
-----------------------------------------------------------------------------
(* Differential equations *)

\* The right hand sides of the instances: polynomials in t, and the two that depend on y.
RightHandSide(f, t, y) ==
  CASE f.form = "growth" -> y
    [] f.form = "sum" -> t \oplus y
    [] f.form = "cube of t" -> t \otimes Square(t)
    [] f.form = "constant" -> Two

CeilingOf(q) == -((-q[1]) \div q[2])

StepsAcross(a) == Abs(Float(a.tf \ominus a.t0)) \oslash a.step_size

\* _validate_step_count: math.ceil raises when the quotient is too large for a float.
Overflows(a) == FloatMax \prec StepsAcross(a)
EstimatedSteps(a) == CeilingOf(StepsAcross(a))

BeginSolving(op, a, maxSteps) ==
  CASE op \notin {"euler", "rk4"} -> Refused
    [] OTHER ->
       IF ~Positive(a.step_size) THEN Refused
       ELSE IF Overflows(a) THEN Crash
       ELSE IF EstimatedSteps(a) > maxSteps THEN Refused
       ELSE IF a.t0 = a.tf THEN Value([t |-> a.t0, y |-> a.y0, steps |-> 0])
       ELSE Work([method |-> op, t |-> a.t0, y |-> a.y0, steps |-> 0, call |-> a])

\* The step, at most what is left.
StepLength(w) ==
  LET left == Abs(Float(w.call.tf \ominus w.t))
      h == IF w.call.step_size \preceq left THEN w.call.step_size ELSE left IN
  IF w.call.t0 \prec w.call.tf THEN h ELSE Neg(h)

\* The values of y at which the right hand side is evaluated, and what y changes by.
Euler(f, t, y, h) == [at |-> {y}, increment |-> h \otimes RightHandSide(f, t, y)]

RungeKutta(f, t, y, h) ==
  LET half == h \oslash Two
      k1 == RightHandSide(f, t, y)
      y2 == y \oplus (half \otimes k1)
      k2 == RightHandSide(f, t \oplus half, y2)
      y3 == y \oplus (half \otimes k2)
      k3 == RightHandSide(f, t \oplus half, y3)
      y4 == y \oplus (h \otimes k3)
      k4 == RightHandSide(f, t \oplus h, y4)
  IN [at |-> {y, y2, y3, y4},
      increment |-> (h \otimes ((k1 \oplus k4) \oplus (Two \otimes (k2 \oplus k3)))) \oslash Whole(6)]

\* Where a pass of the loop comes to: the sum is rounded, and close to tf is tf.
NextT(w, h) ==
  LET sum == Float(w.t \oplus h) IN
  IF Abs(Float(w.call.tf \ominus sum)) \prec Snap THEN w.call.tf ELSE sum

\* The loop of _solve_euler or _solve_rk4 runs while t is short of tf.  When the step is lost
\* in rounding it comes to the same t for ever; y and the count are not followed there.
Advanced(w, t, y) ==
  LET short == IF w.call.t0 \prec w.call.tf THEN t \prec w.call.tf ELSE w.call.tf \prec t IN
  IF t = w.t THEN Work(w)
  ELSE IF short THEN Work([w EXCEPT !.t = t, !.y = y, !.steps = @ + 1])
  ELSE Value([t |-> t, y |-> y, steps |-> w.steps + 1])

\* One pass of the loop.
SolveStep(w) ==
  LET f == w.call.expression
      h == StepLength(w)
      pass == IF w.method = "euler" THEN Euler(f, w.t, w.y, h) ELSE RungeKutta(f, w.t, w.y, h)
  IN Attempt(f, pass.at, Advanced(w, NextT(w, h), w.y \oplus pass.increment))

Iterate(w) ==
  CASE w.method = "bisection" -> Bisect(w)
    [] w.method = "brent" -> BrentIteration(w)
    [] w.method = "newton" -> NewtonIteration(w)
    [] w.method = "secant" -> SecantIteration(w)
    [] w.method \in {"euler", "rk4"} -> SolveStep(w)

=============================================================================
