------------------------------ MODULE ToolLaws ------------------------------
(***************************************************************************)
(* Laws that tie the operations of the tools to each other.  Each is       *)
(* stated of the call that has just settled with a value: asking other     *)
(* operations, of the same tool or of another, about the answer gives back *)
(* what the call was given.  A law is silent where the answer is no        *)
(* fraction (a root, a logarithm, the sine of most angles).                *)
(***************************************************************************)
EXTENDS EngineeringTools

Answered(tool) == stage = "done" /\ outcome.outcome = "value" /\ call.tool = tool

\* An operation that refuses or whose answer is no fraction says nothing.
Says(result, value) ==
  result.outcome = "value" => (IsExact(result.value) => result.value = value)

Of(result) == result.value

MechanicsLaw(op, a, r) ==
  LET K(o, b) == Kinematics(o, b) IN
  CASE op = "velocity" ->
         /\ Says(K("time_from_velocity", a @@ [final_velocity |-> r]), a.time)
         /\ Says(K("acceleration", a @@ [final_velocity |-> r]), a.acceleration)
    [] op = "displacement" ->
         \* v^2 = u^2 + 2 a s, and the mean velocity over the time
         LET v == Of(K("velocity", a)) IN
         /\ Says(K("final_velocity_from_displacement", a @@ [displacement |-> r]), Abs(v))
         /\ Two \otimes r = (a.initial_velocity \oplus v) \otimes a.time
    [] op = "final_velocity_from_displacement" ->
         \* the work of the force that accelerates is the change of kinetic energy
         LET force == Of(Dynamics("force", [mass |-> Two, acceleration |-> a.acceleration]))
             Energy(v) == Of(Dynamics("kinetic_energy", [mass |-> Two, velocity |-> v])) IN
         IsExact(r) =>
           Says(Dynamics("work", [force |-> force, displacement |-> a.displacement,
                                  angle_degrees |-> Zero]),
                Energy(r) \ominus Energy(a.initial_velocity))
    [] op = "projectile_time" ->
         \* the greatest height is reached after half the time
         LET g == WithDefault(a, "gravity", DefaultGravity).gravity IN
         IsExact(r) => Says(K("projectile_max_height", a), (g \otimes Square(r)) \oslash Whole(8))
    [] op = "projectile_range" ->
         LET across == a.initial_speed \otimes Cos(a.launch_angle_degrees) IN
         IsExact(r) => Says([outcome |-> "value",
                             value |-> across \otimes Of(K("projectile_time", a))], r)
    [] OTHER -> TRUE

ForceLaw(op, a, r) ==
  CASE op = "force" ->
         /\ Says(Dynamics("mass_from_force", a @@ [force |-> r]), a.mass)
         /\ Says(Dynamics("acceleration_from_force", a @@ [force |-> r]), a.acceleration)
    [] op = "kinetic_energy" ->
         \* the square of the momentum over twice the mass
         a.mass # Zero => r = Square(Of(Dynamics("momentum", a))) \oslash (Two \otimes a.mass)
    [] op = "potential_energy" ->
         \* the work against the weight
         Says(Dynamics("work", [force |-> Of(Dynamics("weight", a)), displacement |-> a.height,
                                angle_degrees |-> Zero]), r)
    [] op = "power" -> r \otimes a.time = a.work
    [] OTHER -> TRUE

StaticsLaw(op, a, r) ==
  CASE op = "force_components" ->
         \* the resultant of the components is the force, and points where it pointed
         LET angle == Of(Statics("resultant_angle", r)) IN
         (IsExact(r.fx) /\ IsExact(r.fy)) =>
           /\ Says(Statics("resultant_force", r), a.magnitude)
           /\ (a.magnitude # Zero /\ IsExact(angle)) =>
                (angle \ominus a.angle_degrees)[1] % 360 = 0
    [] op = "moment_from_force" ->
         \* the moment of the force at the end of a lever along the axis
         LET part == Of(Statics("force_components",
                                [magnitude |-> a.force, angle_degrees |-> a.angle_degrees])) IN
         IsExact(part.fx) /\ IsExact(part.fy) =>
           r = Of(Statics("moment_2d", part @@ [x |-> a.perpendicular_distance, y |-> Zero]))
    [] op = "equilibrium_force" ->
         Of(Statics("equilibrium_check",
                    [fx_sum |-> a.fx_sum \oplus r.fx, fy_sum |-> a.fy_sum \oplus r.fy,
                     moment_sum |-> Zero]))
    [] OTHER -> TRUE

StrengthLaw(op, a, r) ==
  LET S(o, b) == StrengthOfMaterials(o, b) IN
  CASE op = "elongation" ->
         \* by Hooke's law the strain of the elongation is that of the stress
         LET strain == Of(S("strain", [elongation |-> r, original_length |-> a.length])) IN
         Says(S("normal_stress", a), Of(S("hookes_law", a @@ [strain |-> strain])))
    [] op = "hookes_law" -> Says(S("youngs_modulus", a @@ [stress |-> r]), a.youngs_modulus)
    [] op = "thermal_expansion" ->
         Says(S("strain", [elongation |-> r, original_length |-> a.length]),
              Of(S("thermal_strain", a)))
    [] op = "bending_stress" ->
         \* of twice the moment, the double
         Says(S(op, [a EXCEPT !.moment = Two \otimes @]), Two \otimes r)
    [] OTHER -> TRUE

FluidLaw(op, a, r) ==
  LET F(o, b) == FluidMechanics(o, b)
      Dynamic(v) == Of(F("dynamic_pressure", [density |-> a.density, velocity |-> v]))
      Column(z) == a.density \otimes (a.gravity \otimes z) IN
  CASE op = "absolute_pressure" -> Says(F("gauge_pressure", a @@ [absolute_pressure |-> r]), a.gauge_pressure)
    [] op = "hydrostatic_pressure" ->
         \* the weight of the column over its foot, and what an equal volume would be lifted by
         /\ Says(F("pressure", [force |-> r \otimes Two, area |-> Two]), r)
         /\ r = Of(F("specific_weight", a)) \otimes a.depth
         /\ Says(F("buoyant_force", a @@ [displaced_volume |-> a.depth]), r)
    [] op = "density" -> Says(F("mass_flow_rate", [density |-> r, volumetric_flow_rate |-> a.volume]), a.mass)
    [] op = "continuity" ->
         Says(F("volumetric_flow_rate", [area |-> a.area_2, velocity |-> r]),
              Of(F("volumetric_flow_rate", [area |-> a.area_1, velocity |-> a.velocity_1])))
    [] op = "dynamic_pressure" ->
         Says(Dynamics("kinetic_energy", [mass |-> a.density, velocity |-> a.velocity]), r)
    [] op = "hydraulic_power" ->
         r = a.volumetric_flow_rate
               \otimes Of(F("hydrostatic_pressure", a @@ [depth |-> a.head]))
    [] op = "bernoulli_velocity" ->
         \* pressure, kinetic and potential energy of a volume add up to the same at both places
         IsExact(r) =>
           (a.pressure_1 \oplus Dynamic(a.velocity_1)) \oplus Column(a.elevation_1)
             = (a.pressure_2 \oplus Dynamic(r)) \oplus Column(a.elevation_2)
    [] OTHER -> TRUE

HeatLaw(op, a, r) ==
  LET T(o, b) == Thermodynamics(o, b) IN
  CASE op = "ideal_gas_pressure" ->
         /\ Says(T("ideal_gas_volume", a @@ [pressure |-> r]), a.volume)
         /\ Says(T("ideal_gas_temperature", a @@ [pressure |-> r]), a.temperature)
         /\ Says(T("ideal_gas_moles", a @@ [pressure |-> r]), a.moles)
    [] op = "density_ideal_gas" ->
         \* the mass of one mole over its volume
         Says(T("ideal_gas_volume", a @@ [moles |-> One]), a.molar_mass \oslash r)
    [] op = "heat_transfer" ->
         Says(T("sensible_heat", a @@ [specific_heat_capacity |-> a.specific_heat]), r)
    [] OTHER -> TRUE

CircuitLaw(op, a, r) ==
  LET C(o, b) == CircuitAnalysis(o, b)
      Resistors(p) == Of(C(p, [resistances |-> <<a.r1, a.r2>>])) IN
  CASE op \in {"ohms_law", "power"} ->
         \* any two of the three give the third, and the power is the same by either formula
         \A name \in Electric :
           LET again == C(op, [n \in Electric \ {name} |-> r[n]]) IN
           again.outcome = "value" => again.value = r
    [] op \in {"series_resistance", "parallel_resistance"} ->
         LET s == a.resistances  backwards == [i \in DOMAIN s |-> s[Len(s) + 1 - i]] IN
         /\ Says(C(op, [resistances |-> backwards]), r)
         /\ \A i \in DOMAIN s : IF op = "series_resistance" THEN s[i] \preceq r ELSE r \preceq s[i]
    [] op = "voltage_divider" ->
         \* the current through both resistors, times the second; with its counterpart the whole
         LET through == Of(C("ohms_law", [voltage |-> a.input_voltage,
                                          resistance |-> Resistors("series_resistance")])) IN
         /\ r = through.current \otimes a.r2
         /\ r \oplus Of(C(op, [a EXCEPT !.r1 = a.r2, !.r2 = a.r1])) = a.input_voltage
    [] op = "current_divider" ->
         \* one voltage over both, that over their combination
         LET over == a.total_current \otimes Resistors("parallel_resistance") IN
         /\ r.current_r1 \oplus r.current_r2 = a.total_current
         /\ r.current_r1 \otimes a.r1 = over /\ r.current_r2 \otimes a.r2 = over
    [] OTHER -> TRUE

\* The formulas of the engineering tools fit together: what one operation computes, the
\* others invert or confirm (the equations of motion, work and energy, forces and their
\* components, Hooke's law, Bernoulli, the gas law, Ohm and Kirchhoff), with and without the
\* optional arguments.  An operation that no other one inverts or contains (reynolds_number,
\* latent_heat, weight ...) has no law.
FormulasAgree ==
  LET op == call.arguments.operation  a == call.arguments  r == outcome.value IN
  /\ Answered("kinematics") => MechanicsLaw(op, a, r)
  /\ Answered("dynamics") => ForceLaw(op, a, r)
  /\ Answered("statics") => StaticsLaw(op, a, r)
  /\ Answered("strength_of_materials") => StrengthLaw(op, a, r)
  /\ Answered("fluid_mechanics") => FluidLaw(op, a, r)
  /\ Answered("thermodynamics") => HeatLaw(op, a, r)
  /\ Answered("circuit_analysis") => CircuitLaw(op, a, r)

-----------------------------------------------------------------------------
(* The mathematics tools *)

\* The remainder lies between zero and the divisor and differs from the dividend by a
\* multiple of it; the negative power is the reciprocal.
CalculatorLaw(e, r) ==
  (Len(e) = 3 /\ e[3].kind = "binary" /\ {e[1].kind, e[2].kind} = {"number"} /\ IsExact(r)) =>
    LET l == e[1].number  d == e[2].number  op == e[3].op IN
    /\ op = "%" => (/\ ((l \ominus r) \oslash d)[2] = 1
                     /\ Abs(r) \prec Abs(d) /\ ~Negative(r \otimes d))
    /\ op = "**" => Says(Evaluated(Binary("**", Number(l), Number(Neg(d)))), One \oslash r)

\* There and back is the value; the order of two values stays.
ConversionLaw(a, r) ==
  LET back == UnitConversion([value |-> r, from_unit |-> a.to_unit, to_unit |-> a.from_unit])
      more == UnitConversion([a EXCEPT !.value = @ \oplus One]) IN
  back = Value(a.value) /\ r \prec more.value

VectorLaw(op, a, r) ==
  CASE op = "cross" ->
         \* orthogonal to both, and by Lagrange's identity as long as it must be
         /\ Dot(r, a.left) = Zero /\ Dot(r, a.right) = Zero
         /\ Dot(r, r) \oplus Square(Dot(a.left, a.right))
              = Dot(a.left, a.left) \otimes Dot(a.right, a.right)
    [] op = "magnitude" -> IsExact(r) => Square(r) = Dot(a.vector, a.vector)
    [] op = "normalize" -> (\A i \in DOMAIN r : IsExact(r[i])) => Dot(r, r) = One
    [] op = "angle" ->
         \* only parallel vectors have none between them
         r = Zero =>
           Scaled(a.right, Dot(a.left, a.right)) = Scaled(a.left, Dot(a.right, a.right))
    [] OTHER -> TRUE

MatrixLaw(op, a, r) ==
  CASE op = "inverse" ->
         /\ Multiply(a.matrix, r) = Identity(Len(r)) /\ Multiply(r, a.matrix) = Identity(Len(r))
         /\ Determinant(r) \otimes Determinant(a.matrix) = One
    [] op = "determinant" ->
         \* the expansion for two and three rows, and zero exactly for the singular ones
         LET m == a.matrix IN
         /\ Len(m) = 2 => r = (m[1][1] \otimes m[2][2]) \ominus (m[1][2] \otimes m[2][1])
         /\ Len(m) = 3 => r = Dot(m[1], Cross(m[2], m[3]))
         /\ r = Zero <=> MatrixInverse(m) = <<>>
    [] op = "multiply" ->
         /\ Transpose(r) = Multiply(Transpose(a.right), Transpose(a.left))
         /\ (SquareMatrix(a.left) /\ SquareMatrix(a.right)) =>
              Determinant(r) = Determinant(a.left) \otimes Determinant(a.right)
    [] OTHER -> TRUE

ComplexLaw(op, a, r) ==
  CASE op = "divide" -> ComplexProduct(r, a.right) = a.left
    [] op = "multiply" ->
         \* the modulus of a product
         LET Norm(u) == Square(u.real) \oplus Square(u.imaginary) IN
         Norm(r) = Norm(a.left) \otimes Norm(a.right)
    [] OTHER -> TRUE

ProbabilityLaw(op, a, r) ==
  op = "binomial" =>
    /\ SumOf([i \in 1..(a.n[1] + 1) |-> Binomial(a.n[1], i - 1, a.p)]) = One
    /\ r = Binomial(a.n[1], a.n[1] - a.k[1], One \ominus a.p)

Increasing(s) == \A i \in 2..Len(s) : s[i - 1] \prec s[i]

OnLine(line, x, y) ==
  SumOfProducts(line.residuals, line.residuals) = Zero =>
    y = line.intercept \oplus (line.slope \otimes x)

InterpolationLaw(op, a, r) ==
  LET xs == a.x_values  ys == a.y_values IN
  \* the points themselves lie on the curve, and data on a line gives the line (points that
  \* are not in order can lead _linear astray)
  /\ (op = "linear" => Increasing(xs)) =>
       /\ \A i \in DOMAIN xs : xs[i] = a.x => r = ys[i]
       /\ OnLine(LinearModel(xs, ys), a.x, r)
  \* there is one polynomial through the points
  /\ op = "newton" => r = Lagrange(xs, ys, a.x)

\* What "correlation" answers is the same for the data exchanged, and its square is what
\* the model explains.
CorrelationLaw(correlation, exchanged, explained) ==
  correlation.outcome = "value" =>
    /\ correlation.value = exchanged
    /\ IsExact(correlation.value) => Square(correlation.value) = explained

RegressionLaw(op, a, r) ==
  LET xs == a.x_values  ys == a.y_values IN
  CASE op = "linear" ->
         \* the residuals are orthogonal to the model
         /\ SumOf(r.residuals) = Zero /\ SumOfProducts(r.residuals, xs) = Zero
         /\ CorrelationLaw(RegressionTool("correlation", a), Correlation(ys, xs), r.r_squared)
    [] op = "predict" -> a.x = Mean(xs) => r = Mean(ys)
    [] OTHER -> TRUE

StatisticsLaw(op, a, r) ==
  LET s == a.values
      P(p) == Percentile(s, Whole(p)) IN
  CASE op = "median" -> r = P(50)
    [] op = "percentile" ->
         /\ P(0) = Smallest(s) /\ P(100) = Largest(s) /\ P(0) \preceq r /\ r \preceq P(100)
         /\ \A v \in {s[i] : i \in DOMAIN s} :
              Cardinality({i \in DOMAIN s : s[i] \prec v}) * 100 = (Len(s) - 1) * a.percentile[1] =>
                r = v
    [] op = "variance" ->
         r \otimes Whole(IF WithDefault(a, "sample", FALSE).sample THEN Len(s) - 1 ELSE Len(s))
           = SumOfProducts(s, s) \ominus (Whole(Len(s)) \otimes Square(Mean(s)))
    [] op = "rms" -> IsExact(r) => Square(r) = Variance(s, FALSE) \oplus Square(Mean(s))
    [] op = "mode" -> \A v \in {s[i] : i \in DOMAIN s} : v # r => Count(s, v) < Count(s, r)
    [] OTHER -> TRUE

SignalLaw(op, a, r) ==
  LET s == a.values IN
  CASE op = "moving_average" ->
         \* the part of the convolution with a flat kernel that overlaps it whole
         LET w == a.window[1]
             whole == Convolution(s, [i \in 1..w |-> One \oslash Whole(w)]) IN
         r = SubSeq(whole, w, Len(s))
    [] op = "convolution" ->
         /\ r = Convolution(a.kernel, s)
         /\ SumOf(r) = SumOf(s) \otimes SumOf(a.kernel)
    [] op = "difference" -> SumOf(r) = s[Len(s)] \ominus s[1]
    [] op = "peak" ->
         Abs(r) = (IF Abs(Smallest(s)) \preceq Abs(Largest(s)) THEN Abs(Largest(s)) ELSE Abs(Smallest(s)))
    [] OTHER -> TRUE

SpectrumLaw(op, a, r) ==
  LET s == a.values
      Energy(pairs) == SumOf([k \in DOMAIN pairs |-> Square(pairs[k][1]) \oplus Square(pairs[k][2])]) IN
  CASE op = "fft" -> r = Dft(s)
    [] op = "dft" -> Energy(r) # Inexact => Energy(r) = Whole(Len(s)) \otimes SumOfProducts(s, s)
    [] op = "magnitude_spectrum" ->
         \A k \in DOMAIN r : IsExact(r[k]) => Square(r[k]) = Energy(SubSeq(Fft(s), k, k))
    [] OTHER -> TRUE

\* The integral of a polynomial, by its antiderivative.
ExactIntegral(f, lower, upper) ==
  LET s == f.polynomial
      antiderivative == [f EXCEPT !.polynomial = <<Zero>> \o [i \in DOMAIN s |-> s[i] \oslash Whole(i)]] IN
  Evaluate(antiderivative, upper) \ominus Evaluate(antiderivative, lower)

NumericalLaw(op, a, r) ==
  LET f == a.expression  Degree == Len(f.polynomial) - 1 IN
  CASE op = "simpson" -> Degree <= 3 => r = ExactIntegral(f, a.lower, a.upper)
    [] op = "trapezoidal" -> Degree <= 1 => r = ExactIntegral(f, a.lower, a.upper)
    [] op = "central_difference" ->
         \* the mean of the two others
         LET forward == Differentiate("forward_difference", a)
             backward == Differentiate("backward_difference", a) IN
         (forward.outcome = "value" /\ backward.outcome = "value") =>
           r \oplus r = forward.value \oplus backward.value
    [] OTHER -> TRUE

\* Runge and Kutta are exact for a cubic in t, Euler for a constant, where no step is rounded
\* and none is left out at the end.
EquationLaw(op, a, r) ==
  LET Fourth(t) == Square(Square(t)) \oslash Whole(4)
      Exact == /\ r.steps = EstimatedSteps(a)
               /\ Abs(a.t0) \prec Coarse /\ Abs(a.tf) \prec Coarse IN
  Exact =>
    /\ (op = "rk4" /\ a.expression.form = "cube of t") =>
         r.y = (a.y0 \oplus Fourth(a.tf)) \ominus Fourth(a.t0)
    /\ a.expression.form = "constant" => r.y = a.y0 \oplus (Two \otimes (a.tf \ominus a.t0))

\* The algorithms of the mathematics tools compute what their names say, judged by a law or
\* by another algorithm for the same thing: elimination with pivots against expansion, the
\* inverse against the product, Newton's form against Lagrange's, the fast transform against
\* the direct one, the sliding window against the convolution, the quadratures against the
\* antiderivative, and so on.
AlgorithmsAgree ==
  LET op == call.arguments.operation  a == call.arguments  r == outcome.value IN
  /\ Answered("calculator") => CalculatorLaw(a.expression, r)
  /\ Answered("unit_convert") => ConversionLaw(a, r)
  /\ Answered("vector_math") => VectorLaw(op, a, r)
  /\ Answered("matrix_math") => MatrixLaw(op, a, r)
  /\ Answered("complex_math") => ComplexLaw(op, a, r)
  /\ Answered("probability") => ProbabilityLaw(op, a, r)
  /\ Answered("interpolation") => InterpolationLaw(op, a, r)
  /\ Answered("regression") => RegressionLaw(op, a, r)
  /\ Answered("statistics") => StatisticsLaw(op, a, r)
  /\ Answered("signal_processing") => SignalLaw(op, a, r)
  /\ Answered("frequency_domain") => SpectrumLaw(op, a, r)
  /\ Answered("numerical_methods") => NumericalLaw(op, a, r)
  /\ Answered("differential_equations") => EquationLaw(op, a, r)

=============================================================================
