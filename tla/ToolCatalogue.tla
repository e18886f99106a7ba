---------------------------- MODULE ToolCatalogue ----------------------------
(***************************************************************************)
(* The tools as the runtime application registers them                     *)
(* (runtime_application.py): for each the arguments its descriptor         *)
(* declares, with their types, the operations its description offers to    *)
(* the model, and the permission it requires; the policy that allows them; *)
(* and the validation of a call's arguments (tool_contracts.py).           *)
(***************************************************************************)
EXTENDS ToolCalculations

Tool(required, optional, offered, permission) ==
  [required |-> required, optional |-> optional, offered |-> offered, permission |-> permission]

Typed(type, names) == [n \in names |-> type]

Operation == [operation |-> "string"]
Nothing == Typed("number", {})
Unnamed == {}     \* the description names no operations

Echo == Tool([value |-> "string"], Nothing, Unnamed, "alpha-echo")

Calculator == Tool([expression |-> "string"], Nothing, Unnamed, "calculator")

UnitConvert ==
  Tool([value |-> "number", from_unit |-> "string", to_unit |-> "string"], Nothing, Unnamed,
       "unit-conversion")

VectorMath ==
  Tool(Operation, Typed("array", {"vector", "left", "right"}) ++ [scalar |-> "number"], Unnamed,
       "vector-math")

MatrixMath ==
  Tool(Operation,
       Typed("array", {"matrix", "left", "right", "vector"})
         ++ [scalar |-> "number", size |-> "integer"], Unnamed, "matrix-math")

DifferentialEquations ==
  Tool(Operation ++ [expression |-> "string"] ++ Typed("number", {"t0", "y0", "tf", "step_size"}),
       Nothing, {"euler", "rk4"}, "differential-equations")

ComplexMath ==
  Tool(Operation,
       Typed("object", {"value", "left", "right"}) ++ Typed("number", {"magnitude", "phase"}),
       Unnamed, "complex-math")

Probability ==
  Tool(Operation,
       Typed("integer", {"n", "k"}) ++ Typed("number", {"p", "x", "mean", "stddev"}),
       {"binomial", "normal_pdf", "normal_cdf"}, "probability")

Interpolation ==
  Tool(Operation ++ Typed("array", {"x_values", "y_values"}) ++ [x |-> "number"], Nothing,
       {"linear", "lagrange", "newton", "cubic_spline"}, "interpolation")

Regression ==
  Tool(Operation ++ Typed("array", {"x_values", "y_values"}), [x |-> "number"],
       {"linear", "correlation", "predict"}, "regression")

NumericalMethods ==
  Tool(Operation ++ [expression |-> "string"],
       Typed("number", {"lower", "upper", "initial_guess", "second_guess", "tolerance", "x",
                        "step_size"})
         ++ Typed("integer", {"max_iterations", "steps"}),
       {"bisection", "brent", "newton", "secant", "trapezoidal", "simpson",
        "forward_difference", "central_difference", "backward_difference"},
       "numerical-methods")

InFrequency == {"dft", "fft", "magnitude_spectrum"}

SignalProcessing ==
  Tool(Operation ++ [values |-> "array"],
       [window |-> "integer", kernel |-> "array", sample_rate |-> "number"],
       {"moving_average", "rms", "peak", "peak_to_peak", "difference", "convolution"}
         \cup InFrequency,
       "signal-processing")

FrequencyDomain ==
  Tool(Operation ++ [values |-> "array"], [sample_rate |-> "number"], InFrequency,
       "signal-processing")

CircuitAnalysisTool ==
  Tool(Operation,
       Typed("number", {"voltage", "current", "resistance", "input_voltage", "r1", "r2",
                        "total_current", "power", "time_seconds", "resistance_ohms",
                        "capacitance_farads", "inductance_henries"})
         ++ [resistances |-> "array"],
       {"ohms_law", "series_resistance", "parallel_resistance", "voltage_divider",
        "current_divider", "power", "energy", "rc_time_constant", "rl_time_constant"},
       "circuit-analysis")

KinematicsTool ==
  Tool(Operation,
       Typed("number", {"initial_velocity", "final_velocity", "acceleration", "time",
                        "displacement", "initial_speed", "launch_angle_degrees", "gravity"}),
       {"velocity", "displacement", "final_velocity_from_displacement", "acceleration",
        "time_from_velocity", "projectile_time", "projectile_range", "projectile_max_height"},
       "kinematics")

DynamicsTool ==
  Tool(Operation,
       Typed("number", {"mass", "acceleration", "force", "gravity", "velocity", "height",
                        "displacement", "angle_degrees", "work", "time"}),
       {"force", "mass_from_force", "acceleration_from_force", "weight", "momentum",
        "kinetic_energy", "potential_energy", "work", "power"},
       "dynamics")

StaticsTool ==
  Tool(Operation,
       Typed("number", {"magnitude", "angle_degrees", "fx", "fy", "x", "y", "force",
                        "perpendicular_distance", "fx_sum", "fy_sum", "moment_sum"}),
       {"force_components", "resultant_force", "resultant_angle", "moment_2d",
        "moment_from_force", "equilibrium_force", "equilibrium_check"},
       "statics")

FluidMechanicsTool ==
  Tool(Operation,
       Typed("number", {"force", "area", "density", "gravity", "depth", "gauge_pressure",
                        "atmospheric_pressure", "absolute_pressure", "mass", "volume", "area_1",
                        "velocity_1", "area_2", "velocity", "volumetric_flow_rate",
                        "characteristic_length", "dynamic_viscosity", "head",
                        "displaced_volume", "pressure_1", "pressure_2", "elevation_1",
                        "elevation_2"}),
       {"pressure", "hydrostatic_pressure", "absolute_pressure", "gauge_pressure", "density",
        "specific_weight", "continuity", "volumetric_flow_rate", "mass_flow_rate",
        "dynamic_pressure", "reynolds_number", "hydraulic_power", "buoyant_force",
        "bernoulli_velocity"},
       "fluid_mechanics")

ThermodynamicsTool ==
  Tool(Operation,
       Typed("number", {"pressure", "volume", "temperature", "moles", "gas_constant",
                        "molar_mass", "specific_heat", "mass", "temperature_change",
                        "latent_heat", "heat", "work", "internal_energy_change", "heat_in",
                        "heat_out", "refrigeration_effect", "work_input", "entropy_change"}),
       {"ideal_gas_pressure", "ideal_gas_volume", "ideal_gas_temperature", "ideal_gas_moles",
        "density_ideal_gas", "specific_gas_constant", "heat_transfer", "sensible_heat",
        "latent_heat", "thermal_efficiency", "refrigeration_cop", "heat_pump_cop", "first_law",
        "entropy"},
       "thermodynamics")

StrengthOfMaterialsTool ==
  Tool(Operation,
       Typed("number", {"force", "area", "elongation", "original_length", "length",
                        "youngs_modulus", "strain", "stress", "failure_stress",
                        "working_stress", "coefficient_of_expansion", "temperature_change",
                        "moment", "distance_from_neutral_axis", "area_moment_of_inertia",
                        "shear_force", "first_moment_area", "thickness"}),
       {"normal_stress", "shear_stress", "strain", "elongation", "hookes_law",
        "youngs_modulus", "factor_of_safety", "thermal_strain", "thermal_expansion",
        "bending_stress", "beam_shear_stress"},
       "strength_of_materials")

Statistics ==
  Tool(Operation ++ [values |-> "array"], [sample |-> "boolean", percentile |-> "number"],
       Unnamed, "statistics")

\* What the constructor registers, under the names without "anne.".
Registry ==
  [echo |-> Echo, calculator |-> Calculator, unit_convert |-> UnitConvert,
   vector_math |-> VectorMath, matrix_math |-> MatrixMath, complex_math |-> ComplexMath,
   differential_equations |-> DifferentialEquations, numerical_methods |-> NumericalMethods,
   statistics |-> Statistics, probability |-> Probability, interpolation |-> Interpolation,
   regression |-> Regression, signal_processing |-> SignalProcessing,
   frequency_domain |-> FrequencyDomain, circuit_analysis |-> CircuitAnalysisTool,
   kinematics |-> KinematicsTool, dynamics |-> DynamicsTool, statics |-> StaticsTool,
   strength_of_materials |-> StrengthOfMaterialsTool, fluid_mechanics |-> FluidMechanicsTool,
   thermodynamics |-> ThermodynamicsTool]

\* The scopes the policy allows to read.
AllowedScopes ==
  {"alpha-echo", "probability", "interpolation", "regression", "signal-processing",
   "circuit-analysis", "kinematics", "dynamics", "statics", "strength_of_materials",
   "fluid_mechanics", "thermodynamics", "calculator", "unit-conversion", "vector-math",
   "matrix-math", "complex-math", "differential-equations", "statistics", "numerical-methods"}

\* ToolArgumentSchema.validate: types gives the type of each supplied argument; an integer
\* is also a number.
Validates(tool, types) ==
  LET declared == tool.required ++ tool.optional IN
  /\ DOMAIN types \subseteq DOMAIN declared
  /\ DOMAIN tool.required \subseteq DOMAIN types
  /\ \A n \in DOMAIN types :
       types[n] = declared[n] \/ (types[n] = "integer" /\ declared[n] = "number")

=============================================================================
