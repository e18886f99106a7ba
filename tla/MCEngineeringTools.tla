------------------------- MODULE MCEngineeringTools -------------------------
(***************************************************************************)
(* The proposals of the instances.  Of an operation with named numbers     *)
(* every assignment of a few numbers is proposed, zero and a negative one  *)
(* among them, and for each name the call that lacks it; of one with lists *)
(* a few lists that reach its special cases.                               *)
(***************************************************************************)
EXTENDS ToolLaws

\* Floats in little: products of halves are too small for one, and from eight on only even
\* numbers are left.
MCFloatMin == <<1, 3>>
MCFloatMax == Whole(24)
MCCoarse == Whole(8)
MCSpacing == Two
MCNearZero == <<1, 8>>
MCSnap == <<1, 64>>

W(s) == [i \in DOMAIN s |-> Whole(s[i])]
M(rows) == [i \in DOMAIN rows |-> W(rows[i])]
Numerals == {Whole(-1), Zero, Two}

\* An angle is tried where its sine or its cosine is a fraction.
ValuesOf(name) ==
  CASE name \in {"launch_angle_degrees"} -> {Zero, Whole(30), Whole(90)}
    [] name = "angle_degrees" -> {Zero, Whole(30), Whole(90), Whole(180)}
    [] name \in {"moles", "temperature", "volume", "molar_mass", "specific_heat", "gas_constant",
                 "area", "youngs_modulus", "area_moment_of_inertia", "thickness",
                 "temperature_final"} ->
         Numerals \cup {<<1, 2>>}
    [] OTHER -> Numerals

TypeOf(tool, n) ==
  LET declared == Registry[tool].required @@ Registry[tool].optional IN
  IF n \in DOMAIN declared THEN declared[n] ELSE "number"

Ask(tool, op, a) ==
  [tool |-> tool, operation |-> op, arguments |-> a,
   types |-> [n \in DOMAIN a |-> TypeOf(tool, n)]]

AsksOf(tool, op, calls) == {Ask(tool, op, a) : a \in calls}

\* The whole calls of an operation, and those that lack one name.
Filled(names) == {a \in [names -> UNION {ValuesOf(n) : n \in names}] : \A n \in names : a[n] \in ValuesOf(n)}
Short(names) == {[n \in names \ {m} |-> One] : m \in names}

FromNeeds(tool, needs) ==
  UNION {AsksOf(tool, op, Filled(DOMAIN needs[op]) \cup Short(DOMAIN needs[op])) : op \in DOMAIN needs}

\* What the resolver turns away.
Unregistered == [tool |-> "colour_chart", operation |-> "mix", arguments |-> <<>>, types |-> <<>>]
Superfluous == Ask("statics", "resultant_force", [fx |-> One, fy |-> One, fz |-> One])
Mistyped == [Ask("statics", "resultant_force", [fx |-> One, fy |-> One])
               EXCEPT !.types = [fx |-> "string", fy |-> "integer"]]

Electrical ==
  LET some == {[n \in s |-> v[n]] : s \in (SUBSET Electric) \ {{}}, v \in [Electric -> Numerals]}
      lists == {W(l) : l \in {<<>>, <<2>>, <<1, 2>>, <<2, 3, 6>>, <<1, 0>>, <<2, -1>>}} IN
  UNION {AsksOf("circuit_analysis", op, some) : op \in {"ohms_law", "power"}}
    \cup UNION {AsksOf("circuit_analysis", op, {[resistances |-> l] : l \in lists})
                  : op \in {"series_resistance", "parallel_resistance"}}
    \cup FromNeeds("circuit_analysis", CircuitNeeds)

Vectors == {W(v) : v \in {<<3, 4>>, <<0, 0>>, <<1, -2, 2>>, <<2, 1, 0>>, <<0, 0, 0>>, <<2, 2, 1>>, <<>>}}

VectorAsks ==
  UNION {AsksOf("vector_math", op, {[vector |-> v] : v \in Vectors}) : op \in {"magnitude", "normalize", "unknown"}}
    \cup UNION {AsksOf("vector_math", op, {[left |-> u, right |-> v] : u, v \in Vectors})
                  : op \in {"add", "subtract", "dot", "cross", "angle"}}
    \cup AsksOf("vector_math", "scale", {[vector |-> v, scalar |-> Two] : v \in Vectors})

Matrices ==
  {M(m) : m \in [1..2 -> {<<0, 1>>, <<1, 2>>, <<2, 0>>, <<-1, 1>>}]}
    \cup {M(m) : m \in [1..3 -> {<<0, 1, 2>>, <<1, 0, 1>>, <<2, 1, 0>>}]}
    \cup {M(<<<<1, 2, 3>>>>), M(<<<<2>>>>), M(<<<<1, 2>>, <<3>>>>), <<>>}

MatrixAsks ==
  UNION {AsksOf("matrix_math", op, {[matrix |-> m] : m \in Matrices}) : op \in {"transpose", "determinant", "inverse"}}
    \cup UNION {AsksOf("matrix_math", op, {[left |-> l, right |-> M(r)] : l \in Matrices,
                         r \in {<<<<0, 1>>, <<2, 1>>>>, <<<<1, 0, 2>>, <<0, 1, 1>>, <<1, 1, 0>>>>}})
                  : op \in {"add", "subtract", "multiply"}}
    \cup AsksOf("matrix_math", "scale", {[matrix |-> m, scalar |-> Two] : m \in Matrices})
    \cup AsksOf("matrix_math", "vector_multiply", {[matrix |-> m, vector |-> W(<<1, 2>>)] : m \in Matrices})
    \cup AsksOf("matrix_math", "identity", {[size |-> Whole(n)] : n \in {0, 2}})

Plane == {Complex(Whole(x), Whole(y)) : x, y \in {-1, 0, 2}}

ComplexAsks ==
  UNION {AsksOf("complex_math", op, {[left |-> u, right |-> v] : u, v \in Plane})
           : op \in {"add", "subtract", "multiply", "divide"}}
    \cup UNION {AsksOf("complex_math", op, {[value |-> u] : u \in Plane})
                  : op \in {"magnitude", "conjugate", "real", "imaginary"}}

ProbabilityAsks ==
  AsksOf("probability", "binomial",
         {[n |-> Whole(n), k |-> Whole(k), p |-> p] : n \in 0..4, k \in 0..5, p \in {Zero, <<1, 3>>, One, Two}})
    \cup AsksOf("probability", "binomial", Short({"n", "k", "p"}))
    \cup AsksOf("probability", "normal_cdf", {[x |-> One], [x |-> One, stddev |-> Zero], [mean |-> One]})

Abscissae == {W(s) : s \in {<<0, 1>>, <<0, 1, 2>>, <<0, 1, 3>>, <<0, 2, 1>>, <<0, 1, 2, 4>>, <<0, 1, 1, 2>>}}
Ordinates == {W(s) : s \in {<<1, 3>>, <<1, 3, 5>>, <<2, 0, 1>>, <<1, 3, 5, 9>>, <<2, 0, 1, 1>>}}

InterpolationAsks ==
  UNION {AsksOf("interpolation", op,
                {[x_values |-> xs, y_values |-> ys, x |-> x] : xs \in Abscissae, ys \in Ordinates,
                   x \in {Zero, <<1, 2>>, One, <<3, 2>>, Two, Whole(5)}})
           : op \in {"linear", "lagrange", "newton", "cubic_spline"}}
    \cup {Ask("interpolation", "linear", [x_values |-> W(<<0, 1>>), y_values |-> W(<<1, 3>>)])}

RegressionAsks ==
  UNION {AsksOf("regression", op, {[x_values |-> xs, y_values |-> ys] : xs, ys \in Abscissae \cup Ordinates \cup {W(<<2, 2, 2>>)}})
           : op \in {"linear", "correlation", "predict"}}
    \cup AsksOf("regression", "predict", {[x_values |-> xs, y_values |-> ys, x |-> One] : xs \in Abscissae, ys \in Ordinates})

Samples == {W(s) : s \in {<<>>, <<5>>, <<1, 2>>, <<7, 1>>, <<1, -1, 1>>, <<3, 1, 2, 2>>, <<2, -3, 0, 2, 4>>}}

StatisticsAsks ==
  UNION {AsksOf("statistics", op, {[values |-> s] : s \in Samples})
           : op \in {"sum", "mean", "median", "mode", "variance", "std", "min", "max", "range", "percentile", "rms"}}
    \cup AsksOf("statistics", "variance", {[values |-> s, sample |-> TRUE] : s \in Samples})
    \cup AsksOf("statistics", "percentile",
                {[values |-> s, percentile |-> Whole(p)] : s \in Samples, p \in {-1, 0, 25, 40, 50, 100, 101}})

SignalAsks ==
  UNION {AsksOf("signal_processing", op, {[values |-> s] : s \in Samples})
           : op \in {"moving_average", "rms", "peak", "peak_to_peak", "difference", "convolution", "dft"}}
    \cup AsksOf("signal_processing", "moving_average", {[values |-> s, window |-> Whole(w)] : s \in Samples, w \in 0..3})
    \cup AsksOf("signal_processing", "convolution", {[values |-> s, kernel |-> k] : s, k \in Samples})
    \cup AsksOf("signal_processing", "peak", {[values |-> s, sample_rate |-> Two] : s \in Samples})

SpectrumAsks ==
  UNION {AsksOf("frequency_domain", op, {[values |-> s, sample_rate |-> Two] : s \in Samples} \cup {[values |-> s] : s \in Samples})
           : op \in {"dft", "fft", "magnitude_spectrum"}}

Polynomial(s) == [polynomial |-> W(s), from |-> Zero, fault |-> "none"]
Cubic == Polynomial(<<0, -1, 0, 1>>)

\* Among them some that cannot be evaluated to the left of a place between the ends of the
\* calls.
Polynomials ==
  {Polynomial(s) : s \in {<<-2, 0, 1>>, <<3, 0, 1>>, <<-1, 2>>, <<1>>}} \cup {Cubic}
    \cup {[Polynomial(<<-2, 0, 1>>) EXCEPT !.from = q, !.fault = fault]
             : q \in {Zero, <<5, 4>>, <<3, 2>>}, fault \in {"error", "complex"}}
Ends == {-1, 0, 2}
Limited(a, most) ==
  {a @@ [tolerance |-> t, max_iterations |-> Whole(n)] : t \in {<<1, 8>>, Zero}, n \in {most - 2, most}}

RootAsks ==
  UNION {AsksOf("numerical_methods", op,
           UNION {Limited([expression |-> f, lower |-> Whole(l), upper |-> Whole(u)], 5)
                    : f \in Polynomials, l \in Ends, u \in Ends})
           : op \in {"bisection", "brent"}}
    \cup AsksOf("numerical_methods", "newton",
           UNION {Limited([expression |-> f, initial_guess |-> Whole(x)], 5) : f \in Polynomials \ {Cubic}, x \in {-1, 0, 1}})
    \cup AsksOf("numerical_methods", "secant",
           UNION {Limited([expression |-> f, initial_guess |-> Whole(x), second_guess |-> Whole(y)], 3)
                    : f \in Polynomials \ {Cubic}, x \in {0, 1}, y \in {1, 2}})
    \cup AsksOf("numerical_methods", "newton", {[expression |-> Polynomial(<<1, 2>>)]})
    \* a slope that is not zero but too close to it
    \cup AsksOf("numerical_methods", "newton",
           Limited([expression |-> [Polynomial(<<1>>) EXCEPT !.polynomial = <<One, <<1, 10>>>>],
                    initial_guess |-> Zero], 5))
    \* a tolerance wider than the interval between two roots, and a call of which the arguments
    \* name another operation than the proposal
    \cup {Ask("numerical_methods", op, wide) : op \in {"bisection", "brent"}, wide \in
           {[expression |-> Polynomial(<<-1000, 0, 1000>>), lower |-> <<1, 2>>, upper |-> <<8, 5>>,
             tolerance |-> Whole(t), max_iterations |-> Whole(5)] : t \in {1, 3}}}
    \cup AsksOf("numerical_methods", "secant",
           Limited([expression |-> Polynomial(<<-2, 0, 1>>), lower |-> Zero, upper |-> Two, operation |-> "bisection"], 5))

QuadratureAsks ==
  UNION {AsksOf("numerical_methods", op,
           {[expression |-> f, lower |-> Whole(l), upper |-> Whole(u), steps |-> Whole(n)]
              : f \in Polynomials, l \in Ends, u \in Ends, n \in {0, 1, 2, 4}})
           : op \in {"trapezoidal", "simpson"}}
    \cup UNION {AsksOf("numerical_methods", op,
           {[expression |-> f, x |-> Whole(x), step_size |-> h] : f \in Polynomials, x \in Ends, h \in {Zero, <<1, 2>>}})
           : op \in Differences}

Forms == {"growth", "sum", "cube of t", "constant"}
Sided(form) == [form |-> form, from |-> Zero, fault |-> "none"]

\* Right hand sides that depend on y are solved in few steps, which keeps the fractions short.
\* Some cannot be evaluated for a small y; some calls reach the numbers that lie apart (of
\* which a step of a half gets lost, and one of three halves leads further than it should),
\* come close to tf without meeting it, or ask for a step too small to be counted.
EquationAsks ==
  LET steps(form) == IF form \in {"growth", "sum"} THEN {Zero, One, Whole(3)} ELSE {<<1, 3>>, <<3, 4>>, <<1, 4>>}
      Equation(f, t0, tf, h) == [expression |-> f, t0 |-> t0, y0 |-> One, tf |-> tf, step_size |-> h]
      plain == UNION {{Equation(Sided(form), Whole(t), Whole(e), h) : t \in {0, 1}, e \in {-1, 1, 2}, h \in steps(form)}
                        : form \in Forms}
      faulty == {Equation([Sided("sum") EXCEPT !.from = q, !.fault = fault], Zero, e, One)
                   : q \in {Two, Zero, <<3, 2>>}, fault \in {"error", "complex"}, e \in {Whole(-2), Two}}
      apart == {Equation(Sided("constant"), Whole(t), Whole(e), h)
                  : t \in {6, 8}, e \in {4, 10, 18}, h \in {<<1, 2>>, <<3, 2>>, <<5, 2>>}}
      snapped == {Equation(Sided("constant"), Zero, One \oplus q, One) : q \in {<<1, 128>>, <<1, 32>>}}
      uncounted == {Equation(Sided("constant"), Zero, Whole(3), <<1, 9>>)} IN
  UNION {AsksOf("differential_equations", op, plain \cup faulty \cup apart \cup snapped \cup uncounted)
           : op \in {"euler", "rk4", "heun"}}

Leaves == {Number(q) : q \in {Whole(-2), Zero, <<1, 2>>, Whole(3)}}
Arithmetic == {"+", "-", "*", "/", "%", "**"}
Small == {Binary(op, l, r) : op \in Arithmetic \cup {"//"}, l, r \in Leaves}

CalculatorAsks ==
  AsksOf("calculator", "evaluate",
         {[expression |-> e] :
            e \in Small \cup {Other, Unary("-", Other), Unary("~", Number(One)),
                              Binary("**", Number(One), Number(Whole(101)))}
                   \cup {Binary(op, e, Number(Two)) : op \in Arithmetic, e \in Small}
                   \cup {Unary("-", e) : e \in Small}})

Spellings == DOMAIN Units \cup TemperatureUnits \cup {"MW", "mW", " km/h", "K", "furlong"}

ConversionAsks ==
  AsksOf("unit_convert", "convert",
         {[value |-> v, from_unit |-> f, to_unit |-> t] : v \in {Two}, f, t \in Spellings})
    \cup AsksOf("unit_convert", "convert",
         {[value |-> Whole(-40), from_unit |-> f, to_unit |-> t] : f, t \in TemperatureUnits})

ToolProposals ==
  [calculator |-> CalculatorAsks, unit_convert |-> ConversionAsks,
   echo |-> {Ask("echo", "echo", [value |-> "text"])},
   kinematics |-> FromNeeds("kinematics", KinematicsNeeds),
   dynamics |-> FromNeeds("dynamics", DynamicsNeeds),
   statics |-> FromNeeds("statics", StaticsNeeds) \cup {Superfluous, Mistyped},
   strength_of_materials |-> FromNeeds("strength_of_materials", StrengthNeeds),
   fluid_mechanics |-> FromNeeds("fluid_mechanics", FluidsAtRestNeeds)
                         \cup FromNeeds("fluid_mechanics", FluidsInMotionNeeds),
   thermodynamics |-> FromNeeds("thermodynamics", IdealGasNeeds)
                        \cup FromNeeds("thermodynamics", HeatNeeds),
   circuit_analysis |-> Electrical,
   colour_chart |-> {Unregistered},
   vector_math |-> VectorAsks, matrix_math |-> MatrixAsks, complex_math |-> ComplexAsks,
   probability |-> ProbabilityAsks, interpolation |-> InterpolationAsks,
   regression |-> RegressionAsks, statistics |-> StatisticsAsks,
   signal_processing |-> SignalAsks, frequency_domain |-> SpectrumAsks,
   numerical_methods |-> RootAsks \cup QuadratureAsks,
   differential_equations |-> EquationAsks]

\* For the catalogue: each offered operation of one tool with every argument that it declares.
OfferedProposals ==
  LET all == DOMAIN (ThermodynamicsTool.required @@ ThermodynamicsTool.optional) \ {"operation"} IN
  [thermodynamics |-> {Ask("thermodynamics", op, [n \in all |-> One]) : op \in ThermodynamicsTool.offered}]

SplineProposals ==
  [interpolation |-> {p \in InterpolationAsks : p.operation = "cubic_spline"}]

=============================================================================
