-------------------------- MODULE FluidAndHeatTools --------------------------
(***************************************************************************)
(* anne.fluid_mechanics, anne.thermodynamics and anne.circuit_analysis:    *)
(* for each operation what it needs and what it computes.                  *)
(***************************************************************************)
EXTENDS ToolCalculations

(* Fluid mechanics *)

FluidsAtRestNeeds ==
  [pressure |-> [force |-> "any", area |-> "positive"],
   hydrostatic_pressure |-> NonNegative({"density", "depth"}) ++ [gravity |-> "positive"],
   absolute_pressure |-> [gauge_pressure |-> "any", atmospheric_pressure |-> "nonnegative"],
   gauge_pressure |-> [absolute_pressure |-> "any", atmospheric_pressure |-> "nonnegative"],
   density |-> [mass |-> "nonnegative", volume |-> "positive"],
   specific_weight |-> [density |-> "nonnegative", gravity |-> "positive"]]

FluidsInMotionNeeds ==
  [continuity |-> AllPositive({"area_1", "area_2"}) ++ [velocity_1 |-> "any"],
   volumetric_flow_rate |-> [area |-> "positive", velocity |-> "any"],
   mass_flow_rate |-> [density |-> "nonnegative", volumetric_flow_rate |-> "any"],
   dynamic_pressure |-> [density |-> "nonnegative", velocity |-> "any"],
   reynolds_number |-> [density |-> "nonnegative", velocity |-> "any"]
                         ++ AllPositive({"characteristic_length", "dynamic_viscosity"}),
   hydraulic_power |-> NonNegative({"density", "volumetric_flow_rate", "head"})
                         ++ [gravity |-> "positive"],
   buoyant_force |-> NonNegative({"density", "displaced_volume"}) ++ [gravity |-> "positive"],
   bernoulli_velocity |->
     Numbers({"pressure_1", "pressure_2", "velocity_1", "elevation_1", "elevation_2"})
       ++ AllPositive({"density", "gravity"})]

FluidsAtRest(op, a) ==
  CASE op = "pressure" -> a.force \oslash a.area
    [] op = "hydrostatic_pressure" -> a.density \otimes (a.gravity \otimes a.depth)
    [] op = "absolute_pressure" -> a.gauge_pressure \oplus a.atmospheric_pressure
    [] op = "gauge_pressure" -> a.absolute_pressure \ominus a.atmospheric_pressure
    [] op = "density" -> a.mass \oslash a.volume
    [] op = "specific_weight" -> a.density \otimes a.gravity

\* The square of the velocity behind a change of pressure and of height.
VelocitySquared(a) ==
  Square(a.velocity_1) \oplus
    (Two \otimes (((a.pressure_1 \ominus a.pressure_2) \oslash a.density)
                    \oplus (a.gravity \otimes (a.elevation_1 \ominus a.elevation_2))))

FluidsInMotion(op, a) ==
  CASE op = "continuity" -> (a.area_1 \otimes a.velocity_1) \oslash a.area_2
    [] op = "volumetric_flow_rate" -> a.area \otimes a.velocity
    [] op = "mass_flow_rate" -> a.density \otimes a.volumetric_flow_rate
    [] op = "dynamic_pressure" -> <<1, 2>> \otimes (a.density \otimes Square(a.velocity))
    [] op = "reynolds_number" ->
         (a.density \otimes (a.velocity \otimes a.characteristic_length)) \oslash a.dynamic_viscosity
    [] op = "hydraulic_power" ->
         a.density \otimes (a.gravity \otimes (a.volumetric_flow_rate \otimes a.head))
    [] op = "buoyant_force" -> a.density \otimes (a.gravity \otimes a.displaced_volume)
    [] op = "bernoulli_velocity" -> Sqrt(VelocitySquared(a))

FluidMechanics(op, a) ==
  CASE Accepts(FluidsAtRestNeeds, op, a) -> Finish(FluidsAtRest(op, a))
    [] Accepts(FluidsInMotionNeeds, op, a)
         /\ (op = "bernoulli_velocity" => ~Negative(VelocitySquared(a))) ->
         Finish(FluidsInMotion(op, a))
    [] OTHER -> Refused
-----------------------------------------------------------------------------
(* Thermodynamics *)

\* DEFAULT_UNIVERSAL_GAS_CONSTANT, whose value no property depends on.
UniversalGasConstant == Whole(8)

IdealGasNeeds ==
  [ideal_gas_pressure |-> AllPositive({"gas_constant", "temperature", "volume"})
                            ++ [moles |-> "nonnegative"],
   ideal_gas_volume |-> AllPositive({"gas_constant", "temperature", "pressure"})
                          ++ [moles |-> "nonnegative"],
   ideal_gas_temperature |-> AllPositive({"gas_constant", "pressure", "volume", "moles"}),
   ideal_gas_moles |-> AllPositive({"gas_constant", "pressure", "volume", "temperature"}),
   density_ideal_gas |-> AllPositive({"gas_constant", "pressure", "molar_mass", "temperature"}),
   specific_gas_constant |-> AllPositive({"universal_gas_constant", "molar_mass"})]

HeatNeeds ==
  [heat_transfer |-> NonNegative({"mass", "specific_heat"}) ++ [temperature_change |-> "any"],
   sensible_heat |-> NonNegative({"mass", "specific_heat_capacity"})
                       ++ [temperature_change |-> "any"],
   latent_heat |-> NonNegative({"mass", "latent_heat"}),
   thermal_efficiency |-> [work_output |-> "nonnegative", heat_input |-> "positive"],
   coefficient_of_performance_refrigerator |->
     [cooling_effect |-> "nonnegative", work_input |-> "positive"],
   coefficient_of_performance_heat_pump |->
     [heating_effect |-> "nonnegative", work_input |-> "positive"],
   first_law_closed_system |-> Numbers({"heat_transfer", "work_output"}),
   entropy_change |-> AllPositive({"specific_heat", "temperature_initial", "temperature_final"})
                        ++ [mass |-> "nonnegative"]]

IdealGas(op, a) ==
  LET thermal == a.gas_constant \otimes a.temperature IN
  CASE op = "ideal_gas_pressure" -> (a.moles \otimes thermal) \oslash a.volume
    [] op = "ideal_gas_volume" -> (a.moles \otimes thermal) \oslash a.pressure
    [] op = "ideal_gas_temperature" ->
         (a.pressure \otimes a.volume) \oslash Underflow(a.moles \otimes a.gas_constant)
    [] op = "ideal_gas_moles" -> (a.pressure \otimes a.volume) \oslash Underflow(thermal)
    [] op = "density_ideal_gas" -> (a.pressure \otimes a.molar_mass) \oslash Underflow(thermal)
    [] op = "specific_gas_constant" -> a.universal_gas_constant \oslash a.molar_mass

\* math.log, which is exact only for one and raises at zero.
Log(q) ==
  CASE q = One -> Zero
    [] q = Zero -> Undefined
    [] OTHER -> Tainted(q, q)

Heat(op, a) ==
  CASE op = "heat_transfer" -> a.mass \otimes (a.specific_heat \otimes a.temperature_change)
    [] op = "sensible_heat" ->
         a.mass \otimes (a.specific_heat_capacity \otimes a.temperature_change)
    [] op = "latent_heat" -> a.mass \otimes a.latent_heat
    [] op = "thermal_efficiency" -> a.work_output \oslash a.heat_input
    [] op = "coefficient_of_performance_refrigerator" -> a.cooling_effect \oslash a.work_input
    [] op = "coefficient_of_performance_heat_pump" -> a.heating_effect \oslash a.work_input
    [] op = "first_law_closed_system" -> a.heat_transfer \ominus a.work_output
    [] op = "entropy_change" ->
         a.mass \otimes (a.specific_heat
           \otimes Log(Underflow(a.temperature_final \oslash a.temperature_initial)))

Thermodynamics(op, given) ==
  LET a == WithDefault(given, "gas_constant", UniversalGasConstant) IN
  CASE Accepts(IdealGasNeeds, op, a) -> Finish(IdealGas(op, a))
    [] Accepts(HeatNeeds, op, a) -> Finish(Heat(op, a))
    [] OTHER -> Refused
-----------------------------------------------------------------------------
(* Circuit analysis *)

Electric == {"voltage", "current", "resistance"}

\* The two operations that take any two of the three.
Known(a) == Electric \cap DOMAIN a

TwoAreKnown(a) ==
  /\ Cardinality(Known(a)) = 2
  /\ "resistance" \in DOMAIN a => Positive(a.resistance)

Triple(v, i, r) == [voltage |-> v, current |-> i, resistance |-> r]

\* Voltage and current give a resistance only when it comes out positive.
GivesResistance(a) == a.current # Zero /\ Positive(a.voltage \oslash a.current)

OhmsLaw(a) ==
  CASE ~TwoAreKnown(a) -> Refused
    [] TwoAreKnown(a) /\ "voltage" \notin DOMAIN a ->
         Value(Triple(a.current \otimes a.resistance, a.current, a.resistance))
    [] TwoAreKnown(a) /\ "current" \notin DOMAIN a ->
         Value(Triple(a.voltage, a.voltage \oslash a.resistance, a.resistance))
    [] TwoAreKnown(a) /\ "resistance" \notin DOMAIN a ->
         IF GivesResistance(a)
         THEN Value(Triple(a.voltage, a.current, a.voltage \oslash a.current))
         ELSE Refused

\* The same three quantities, and the power by the formula for the two that are known.
Power(a) ==
  LET known == OhmsLaw(a)
      triple == known.value
      power == IF "voltage" \in DOMAIN a THEN triple.voltage \otimes triple.current
               ELSE Square(a.current) \otimes a.resistance
  IN IF known.outcome = "refused" THEN Refused ELSE Value(triple ++ [power |-> power])

\* A list of resistances in series or in parallel.
Combined(op, a) ==
  LET reciprocals == [i \in DOMAIN a.resistances |-> One \oslash a.resistances[i]] IN
  IF /\ "resistances" \in DOMAIN a /\ a.resistances # <<>>
     /\ \A i \in DOMAIN a.resistances : Positive(a.resistances[i])
  THEN Finish(IF op = "series_resistance" THEN SumOf(a.resistances)
              ELSE One \oslash SumOf(reciprocals))
  ELSE Refused

CircuitNeeds ==
  [voltage_divider |-> [input_voltage |-> "any"] ++ AllPositive({"r1", "r2"}),
   current_divider |-> [total_current |-> "any"] ++ AllPositive({"r1", "r2"}),
   energy |-> [power |-> "any", time_seconds |-> "nonnegative"],
   rc_time_constant |-> AllPositive({"resistance_ohms", "capacitance_farads"}),
   rl_time_constant |-> AllPositive({"resistance_ohms", "inductance_henries"})]

\* The part of a whole that falls to one of two resistors.
Share(whole, part, other) == (whole \otimes part) \oslash (part \oplus other)

Network(op, a) ==
  CASE op = "voltage_divider" -> Finish(Share(a.input_voltage, a.r2, a.r1))
    [] op = "current_divider" -> Value([current_r1 |-> Share(a.total_current, a.r2, a.r1),
                                        current_r2 |-> Share(a.total_current, a.r1, a.r2)])
    [] op = "energy" -> Finish(a.power \otimes a.time_seconds)
    [] op = "rc_time_constant" -> Finish(a.resistance_ohms \otimes a.capacitance_farads)
    [] op = "rl_time_constant" -> Finish(a.inductance_henries \oslash a.resistance_ohms)

CircuitAnalysis(op, a) ==
  CASE op = "ohms_law" -> OhmsLaw(a)
    [] op = "power" -> Power(a)
    [] op \in {"series_resistance", "parallel_resistance"} -> Combined(op, a)
    [] Accepts(CircuitNeeds, op, a) -> Network(op, a)
    [] OTHER -> Refused

=============================================================================
