--------------------------- MODULE MechanicsTools ---------------------------
(***************************************************************************)
(* anne.kinematics, anne.dynamics, anne.statics and                        *)
(* anne.strength_of_materials: for each operation what it needs and what   *)
(* it computes.                                                            *)
(***************************************************************************)
EXTENDS ToolCalculations

\* DEFAULT_GRAVITY, whose value no property depends on.
DefaultGravity == Whole(10)
-----------------------------------------------------------------------------
(* Kinematics *)

Projectile == [initial_speed |-> "nonnegative", launch_angle_degrees |-> "quarter turn",
               gravity |-> "positive"]

KinematicsNeeds ==
  [velocity |-> Numbers({"initial_velocity", "acceleration", "time"}),
   displacement |-> Numbers({"initial_velocity", "acceleration", "time"}),
   final_velocity_from_displacement |-> Numbers({"initial_velocity", "acceleration", "displacement"}),
   acceleration |-> Numbers({"initial_velocity", "final_velocity"}) ++ [time |-> "nonzero"],
   time_from_velocity |->
     Numbers({"initial_velocity", "final_velocity"}) ++ [acceleration |-> "nonzero"],
   projectile_time |-> Projectile,
   projectile_range |-> Projectile,
   projectile_max_height |-> Projectile]

\* Mutant: the half of the second term is lost.
TravelledTwice(u, a, t) == (u \otimes t) \oplus (a \otimes Square(t))

Travelled(u, a, t) == (u \otimes t) \oplus (<<1, 2>> \otimes (a \otimes Square(t)))

Flight(op, speed, angle, gravity) ==
  LET vertical == speed \otimes Sin(angle) IN
  CASE op = "projectile_time" -> (Two \otimes vertical) \oslash gravity
    [] op = "projectile_range" -> (Square(speed) \otimes Sin(Two \otimes angle)) \oslash gravity
    [] op = "projectile_max_height" -> Square(vertical) \oslash (Two \otimes gravity)

Kinematics(op, given) ==
  LET a == WithDefault(given, "gravity", DefaultGravity)
      radicand == Square(a.initial_velocity) \oplus (Two \otimes (a.acceleration \otimes a.displacement))
  IN
  CASE ~Accepts(KinematicsNeeds, op, a) -> Refused
    [] op = "final_velocity_from_displacement" /\ Accepts(KinematicsNeeds, op, a) ->
         IF Negative(radicand) THEN Refused ELSE Finish(Sqrt(radicand))
    [] OTHER -> Finish(
         CASE op = "velocity" -> a.initial_velocity \oplus (a.acceleration \otimes a.time)
           [] op = "displacement" -> Travelled(a.initial_velocity, a.acceleration, a.time)
           [] op = "acceleration" -> (a.final_velocity \ominus a.initial_velocity) \oslash a.time
           [] op = "time_from_velocity" ->
                (a.final_velocity \ominus a.initial_velocity) \oslash a.acceleration
           [] OTHER -> Flight(op, a.initial_speed, a.launch_angle_degrees, a.gravity))
-----------------------------------------------------------------------------
(* Dynamics *)

DynamicsNeeds ==
  [force |-> [mass |-> "nonnegative", acceleration |-> "any"],
   mass_from_force |-> [force |-> "any", acceleration |-> "positive"],
   acceleration_from_force |-> [force |-> "any", mass |-> "positive"],
   weight |-> [mass |-> "nonnegative", gravity |-> "positive"],
   momentum |-> [mass |-> "nonnegative", velocity |-> "any"],
   kinetic_energy |-> [mass |-> "nonnegative", velocity |-> "any"],
   potential_energy |-> [mass |-> "nonnegative", height |-> "any", gravity |-> "positive"],
   work |-> [force |-> "any", displacement |-> "any", angle_degrees |-> "half turn"],
   power |-> [work |-> "any", time |-> "positive"]]

Dynamics(op, given) ==
  LET a == WithDefault(given, "gravity", DefaultGravity) IN
  IF ~Accepts(DynamicsNeeds, op, a) THEN Refused ELSE Finish(
    CASE op = "force" -> a.mass \otimes a.acceleration
      [] op = "mass_from_force" -> a.force \oslash a.acceleration
      [] op = "acceleration_from_force" -> a.force \oslash a.mass
      [] op = "weight" -> a.mass \otimes a.gravity
      [] op = "momentum" -> a.mass \otimes a.velocity
      [] op = "kinetic_energy" -> <<1, 2>> \otimes (a.mass \otimes Square(a.velocity))
      [] op = "potential_energy" -> a.mass \otimes (a.gravity \otimes a.height)
      [] op = "work" -> a.force \otimes (a.displacement \otimes Cos(a.angle_degrees))
      [] op = "power" -> a.work \oslash a.time)
-----------------------------------------------------------------------------
(* Statics.  Some results have several parts. *)

StaticsNeeds ==
  [force_components |-> [magnitude |-> "nonnegative", angle_degrees |-> "any"],
   resultant_force |-> Numbers({"fx", "fy"}),
   resultant_angle |-> Numbers({"fx", "fy"}),
   moment_2d |-> Numbers({"x", "y", "fx", "fy"}),
   moment_from_force |-> NonNegative({"force", "perpendicular_distance"})
                           ++ [angle_degrees |-> "any"],
   equilibrium_force |-> Numbers({"fx_sum", "fy_sum"}),
   equilibrium_check |-> Numbers({"fx_sum", "fy_sum", "moment_sum"})]

\* math.atan2 in degrees, for vectors along an axis.
Atan2(y, x) ==
  CASE y = Zero /\ ~Negative(x) -> Zero
    [] y = Zero /\ Negative(x) -> Whole(180)
    [] x = Zero /\ Positive(y) -> Whole(90)
    [] x = Zero /\ Negative(y) -> Whole(-90)
    [] OTHER -> Inexact

Statics(op, a) ==
  IF ~Accepts(StaticsNeeds, op, a) THEN Refused ELSE
    CASE op = "force_components" ->
           Value([fx |-> a.magnitude \otimes Cos(a.angle_degrees),
                  fy |-> a.magnitude \otimes Sin(a.angle_degrees)])
      [] op = "resultant_force" -> Finish(Sqrt(Square(a.fx) \oplus Square(a.fy)))
      [] op = "resultant_angle" ->
           IF a.fx = Zero /\ a.fy = Zero THEN Refused ELSE Finish(Atan2(a.fy, a.fx))
      [] op = "moment_2d" -> Finish((a.x \otimes a.fy) \ominus (a.y \otimes a.fx))
      [] op = "moment_from_force" ->
           Finish(a.force \otimes (a.perpendicular_distance \otimes Sin(a.angle_degrees)))
      [] op = "equilibrium_force" -> Value([fx |-> Neg(a.fx_sum), fy |-> Neg(a.fy_sum)])
      [] op = "equilibrium_check" -> Value(a.fx_sum = Zero /\ a.fy_sum = Zero /\ a.moment_sum = Zero)
-----------------------------------------------------------------------------
(* Strength of materials *)

StrengthNeeds ==
  LET stress == [force |-> "any", area |-> "positive"] IN
  [normal_stress |-> stress,
   shear_stress |-> stress,
   strain |-> [elongation |-> "any", original_length |-> "positive"],
   elongation |-> [force |-> "any"] ++ AllPositive({"length", "area", "youngs_modulus"}),
   hookes_law |-> [youngs_modulus |-> "positive", strain |-> "any"],
   youngs_modulus |-> [stress |-> "any", strain |-> "positive"],
   factor_of_safety |-> [failure_stress |-> "nonnegative", working_stress |-> "positive"],
   thermal_strain |-> Numbers({"coefficient_of_expansion", "temperature_change"}),
   thermal_expansion |-> Numbers({"coefficient_of_expansion", "temperature_change"})
                           ++ [length |-> "positive"],
   bending_stress |-> [moment |-> "any", distance_from_neutral_axis |-> "nonnegative",
                       area_moment_of_inertia |-> "positive"],
   beam_shear_stress |-> [shear_force |-> "any", first_moment_area |-> "nonnegative"]
                           ++ AllPositive({"area_moment_of_inertia", "thickness"})]

StrengthOfMaterials(op, a) ==
  IF ~Accepts(StrengthNeeds, op, a) THEN Refused ELSE Finish(
    CASE op \in {"normal_stress", "shear_stress"} -> a.force \oslash a.area
      [] op = "strain" -> a.elongation \oslash a.original_length
      [] op = "elongation" -> (a.force \otimes a.length) \oslash Underflow(a.area \otimes a.youngs_modulus)
      [] op = "hookes_law" -> a.youngs_modulus \otimes a.strain
      [] op = "youngs_modulus" -> a.stress \oslash a.strain
      [] op = "factor_of_safety" -> a.failure_stress \oslash a.working_stress
      [] op = "thermal_strain" -> a.coefficient_of_expansion \otimes a.temperature_change
      [] op = "thermal_expansion" ->
           a.coefficient_of_expansion \otimes (a.length \otimes a.temperature_change)
      [] op = "bending_stress" ->
           (a.moment \otimes a.distance_from_neutral_axis) \oslash a.area_moment_of_inertia
      [] op = "beam_shear_stress" ->
           (a.shear_force \otimes a.first_moment_area)
             \oslash Underflow(a.area_moment_of_inertia \otimes a.thickness))

=============================================================================
