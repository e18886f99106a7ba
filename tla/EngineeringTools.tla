-------------------------- MODULE EngineeringTools --------------------------
(***************************************************************************)
(* The life of one tool call after another: the model proposes it, the     *)
(* authority resolver checks it against the registered descriptor and      *)
(* builds the call (intelligence_tool_authority.py, tool_contracts.py),    *)
(* the policy authorizes it, and the handler of the tool computes, an      *)
(* iterative method one iteration at a time.                               *)
(*                                                                         *)
(* A proposal names a tool and an operation and supplies arguments with    *)
(* their JSON types.                                                       *)
(***************************************************************************)
EXTENDS ToolCatalogue, MechanicsTools, FluidAndHeatTools, AlgebraTools, DataTools,
        NumericalTools, ArithmeticTools

CONSTANTS
  Proposals,    \* for each of some tools the proposals of the model for it
  MaxSteps      \* MAX_STEPS of the differential equations

\* The tools with iterative methods.
Iterative == {"numerical_methods", "differential_equations"}

\* What a JSON value of a type is in the model.  A number is a fraction (NaN and the
\* infinities, which the decoder lets pass, are refused by the handlers before any use), an
\* array a sequence of numbers or, for matrices, of rows, and an object a complex number.
HasType(type, v, rows) ==
  CASE type = "number" -> v \in Fractions
    [] type = "integer" -> v \in Fractions /\ v[2] = 1
    [] type = "array" -> v \in Seq(IF rows THEN Seq(Fractions) ELSE Fractions)
    [] type = "object" -> v \in [real : Fractions, imaginary : Fractions]
    [] type = "boolean" -> v \in BOOLEAN
    [] OTHER -> TRUE

\* What the expression of a tool may be: for a numerical method the polynomial that it stands
\* for, for a differential equation one of the right hand sides, each with the place below
\* which it cannot be evaluated and how that shows; for the calculator its tree.
Faults == {"none", "error", "complex"}

ExpressionsOf(tool) ==
  CASE tool = "numerical_methods" -> [polynomial : Seq(Fractions), from : Fractions, fault : Faults]
    [] tool = "differential_equations" ->
         [form : {"growth", "sum", "cube of t", "constant"}, from : Fractions, fault : Faults]
    [] tool = "calculator" -> Expressions

\* A proposal has the types it gives.
WellTyped(p) ==
  /\ DOMAIN p.types = DOMAIN p.arguments
  /\ \A n \in DOMAIN p.types :
       HasType(p.types[n], p.arguments[n], p.tool = "matrix_math" /\ n # "vector")
  /\ (p.tool \in Iterative \cup {"calculator"} /\ "expression" \in DOMAIN p.types) =>
       p.arguments["expression"] \in ExpressionsOf(p.tool)

ASSUME ProposalsAssumption ==
  \A tool \in DOMAIN Proposals : \A p \in Proposals[tool] : WellTyped(p)

VARIABLES
  stage,        \* where the call is: "idle", "proposed", "resolved", "authorized", "working", "done"
  proposal,     \* what the model proposed
  call,         \* the ToolCall built from it
  outcome       \* a value, a refusal, a crash or a rejection; work while "working"

vars == <<stage, proposal, call, outcome>>

Pending == [outcome |-> "pending"]
Rejected == [outcome |-> "rejected"]
NoCall == [tool |-> "", operation |-> "", arguments |-> <<>>, permission |-> ""]
NoProposal == [tool |-> "", operation |-> "", arguments |-> <<>>, types |-> <<>>]

Init ==
  /\ stage = "idle"
  /\ proposal = NoProposal
  /\ call = NoCall
  /\ outcome = Pending

Propose(p) ==
  /\ stage = "idle"
  /\ stage' = "proposed"
  /\ proposal' = p
  /\ UNCHANGED <<call, outcome>>

Settle(result) ==
  /\ stage' = "done"
  /\ outcome' = result

\* The operation of the proposal, unless the arguments already name one.
Injected(p, supplied, operation) ==
  IF /\ "operation" \in DOMAIN Registry[p.tool].required
     /\ "operation" \notin DOMAIN supplied
  THEN supplied ++ [operation |-> operation] ELSE supplied

Admits(p) ==
  /\ p.tool \in DOMAIN Registry
  /\ Validates(Registry[p.tool], Injected(p, p.types, "string"))

\* ToolAuthorityResolver.resolve: an unknown tool and invalid arguments end the call.
Resolve ==
  /\ stage = "proposed"
  /\ Admits(proposal)
  /\ stage' = "resolved"
  /\ call' = [tool |-> proposal.tool, operation |-> proposal.operation,
              arguments |-> Injected(proposal, proposal.arguments, proposal.operation),
              permission |-> Registry[proposal.tool].permission]
  /\ UNCHANGED <<proposal, outcome>>

Reject ==
  /\ stage = "proposed"
  /\ ~Admits(proposal)
  /\ Settle(Rejected)
  /\ UNCHANGED <<proposal, call>>

\* The executor asks the policy for the scopes that the call declares.
Authorize ==
  /\ stage = "resolved"
  /\ stage' = IF call.permission \in AllowedScopes THEN "authorized" ELSE "done"
  /\ outcome' = IF call.permission \in AllowedScopes THEN outcome ELSE Rejected
  /\ UNCHANGED <<proposal, call>>

\* The handlers, which take the operation from the arguments.
Computed(tool, a) ==
  LET op == a.operation IN
  CASE tool = "echo" -> Value(a.value)
    [] tool = "calculator" -> CalculatorTool(a)
    [] tool = "unit_convert" -> UnitConversion(a)
    [] tool = "kinematics" -> Kinematics(op, a)
    [] tool = "dynamics" -> Dynamics(op, a)
    [] tool = "statics" -> Statics(op, a)
    [] tool = "strength_of_materials" -> StrengthOfMaterials(op, a)
    [] tool = "fluid_mechanics" -> FluidMechanics(op, a)
    [] tool = "thermodynamics" -> Thermodynamics(op, a)
    [] tool = "circuit_analysis" -> CircuitAnalysis(op, a)
    [] tool = "vector_math" -> VectorTool(op, a)
    [] tool = "matrix_math" -> MatrixTool(op, a)
    [] tool = "complex_math" -> ComplexTool(op, a)
    [] tool = "probability" -> ProbabilityTool(op, a)
    [] tool = "interpolation" -> InterpolationTool(op, a)
    [] tool = "regression" -> RegressionTool(op, a)
    [] tool = "statistics" -> StatisticsTool(op, a)
    [] tool = "signal_processing" -> SignalTool(op, a)
    [] tool = "frequency_domain" -> FrequencyTool(op, a)

\* Those of the two tools with iterative methods: the answer, or the work it begins with.
Begun(tool, a) ==
  CASE tool = "numerical_methods" -> NumericalTool(a.operation, a)
    [] tool = "differential_equations" -> BeginSolving(a.operation, a, MaxSteps)

Continue(result) ==
  IF result.outcome = "work" THEN stage' = "working" /\ outcome' = result ELSE Settle(result)

Handle ==
  /\ stage = "authorized"
  /\ IF call.tool \in Iterative THEN Continue(Begun(call.tool, call.arguments))
     ELSE Settle(Computed(call.tool, call.arguments))
  /\ UNCHANGED <<proposal, call>>

\* One more pass of the loop of an iterative method.
NextIteration ==
  /\ stage = "working"
  /\ Continue(Iterate(outcome.work))
  /\ UNCHANGED <<proposal, call>>

\* The caller takes the result; the next proposal starts afresh.
Deliver ==
  /\ stage = "done"
  /\ stage' = "idle"
  /\ proposal' = NoProposal
  /\ call' = NoCall
  /\ outcome' = Pending

Progress == Resolve \/ Reject \/ Authorize \/ Handle \/ NextIteration

Next == (\E tool \in DOMAIN Proposals : \E p \in Proposals[tool] : Propose(p)) \/ Progress \/ Deliver

\* A solver of differential equations whose step is lost in rounding: its loop goes round
\* without coming any nearer to tf.
Spinning ==
  /\ stage = "working"
  /\ outcome.work.method \in {"euler", "rk4"}
  /\ Iterate(outcome.work) = outcome

\* A step of Progress that changes something is enabled exactly here, and every step from
\* here is one of Progress.
Busy == stage \in {"proposed", "resolved", "authorized", "working"} /\ ~Spinning

\* A call that has begun is run on by its thread: WF_vars(Progress), with what enables
\* Progress written out.  The model may stop proposing.
Fairness == []<>~Busy \/ []<><<Busy>>_vars

Spec == Init /\ [][Next]_vars /\ Fairness
-----------------------------------------------------------------------------
(* Properties; the laws between the operations are in ToolLaws *)

\* Types only.
TypeOK ==
  /\ stage \in {"idle", "proposed", "resolved", "authorized", "working", "done"}
  /\ outcome.outcome \in {"pending", "work", "value", "refused", "crash", "rejected"}
  /\ outcome.outcome = "work" <=> stage = "working"

Lacks(names) == ~(names \subseteq DOMAIN call.arguments)

\* The operations that divide by a product of two arguments or take the logarithm of their
\* quotient, which can be too small for a float although neither is zero (what entropy_change
\* needs is not in the schema, so that no call gets there).
DividesByProduct ==
  {<<"strength_of_materials", "elongation">>, <<"strength_of_materials", "beam_shear_stress">>,
   <<"thermodynamics", "ideal_gas_temperature">>, <<"thermodynamics", "ideal_gas_moles">>,
   <<"thermodynamics", "density_ideal_gas">>, <<"thermodynamics", "entropy_change">>,
   <<"regression", "correlation">>}

\* A call that the schema and the policy admit ends in a value or in the tool's own error,
\* not in an exception that the tool did not mean to raise (a division by zero, the root of
\* a negative number, a missing key, a complex number), except here: probability reads
\* arguments that the schema leaves optional; signal_processing is handed a sample_rate that
\* its function does not take; the calculator computes a remainder of the complex number
\* that a power gave it; the tools with expressions convert or test a complex value as if it
\* were a float; _validate_step_count rounds up a quotient that overflowed; and a few
\* operations divide by a product that underflowed.  The numbers of the call are those that
\* a float can hold.
OnlyOwnErrors ==
  outcome.outcome = "crash" =>
    \/ call.tool = "calculator" /\ {"%", "**"} \subseteq Operators(call.arguments.expression)
    \/ /\ call.tool = "probability"
       /\ IF call.arguments.operation = "binomial" THEN Lacks({"n", "k", "p"}) ELSE Lacks({"x"})
    \/ call.tool = "signal_processing" /\ ~Lacks({"sample_rate"})
    \/ call.tool \in Iterative /\ call.arguments.expression.fault = "complex"
    \/ call.tool = "differential_equations" /\ Overflows(call.arguments)
    \/ <<call.tool, call.arguments.operation>> \in DividesByProduct

Brackets(w) ==
  LET F(x) == Evaluate(w.call.expression, x) IN
  /\ Lower(w.call) \preceq w.a /\ w.a \prec w.b /\ w.b \preceq Upper(w.call)
  /\ w.fa = F(w.a) /\ w.fb = F(w.b)
  /\ OppositeSigns(w.fa, w.fb)

Bracketing == {"bisection", "brent"}

\* Where a method that looks for a root goes on, it has a bracket of the root or iterations
\* left.
WorkIsSound ==
  LET w == outcome.work IN
  stage = "working" =>
    CASE w.method \in Bracketing -> Brackets(w)
      [] w.method \in {"newton", "secant"} -> w.iteration \in 1..w.call.max_iterations[1]
      [] OTHER -> TRUE

\* x lies in the bracket, where the function changes its sign, and the function is within the
\* tolerance of zero at x or the bracket is no wider than the tolerance.
IsRootIn(w, x) ==
  /\ w.a \preceq x /\ x \preceq w.b
  /\ \/ Abs(Evaluate(w.call.expression, x)) \preceq w.call.tolerance
     \/ (w.b \ominus w.a) \preceq w.call.tolerance

IsRootAtEnd(a, x) == x \in {Lower(a), Upper(a)} /\ Evaluate(a.expression, x) = Zero

\* A bracketing method answers with a root in its last bracket, or at an end of the interval
\* asked about.
AnswerIsRight ==
  LET a == call.arguments  r == outcome'.value IN
  (/\ stage' = "done" /\ outcome'.outcome = "value"
   /\ call.tool = "numerical_methods" /\ a.operation \in Bracketing) =>
    IF stage = "working" THEN IsRootIn(outcome.work, r) ELSE IsRootAtEnd(a, r)

\* The root of a bracketing method never leaves the bracket: at every iteration the function
\* has opposite signs at the ends, the values kept for the ends are those of the ends, and
\* the answer is a root in the bracket; Newton's and the secant method stay within their
\* iterations.  The products of function values are exact here.
IterationIsSound == [][WorkIsSound /\ AnswerIsRight]_vars

\* Every proposed call settles: the loops of the methods that look for a root end, also where
\* they do not converge, and those of the solvers as long as their step is not lost in
\* rounding, which is the one way for a call to go on for ever.
EveryCallSettles == stage = "proposed" ~> (stage = "done" \/ Spinning)

\* (violated) What a tool's description offers to the model as an operation, the tool can
\* do: asked with every argument that it declares, it gives a value.
OfferedIsSupported ==
  /\ stage = "done"
  /\ call.tool \in DOMAIN Registry
  /\ call.operation \in Registry[call.tool].offered
  /\ DOMAIN call.arguments = DOMAIN (Registry[call.tool].required ++ Registry[call.tool].optional)
  => outcome.outcome = "value"

\* (violated) The pieces of a natural cubic spline meet with one slope.
SplineIsSmooth ==
  (stage = "done" /\ outcome.outcome = "value" /\ call.operation = "cubic_spline") =>
    LET pieces == Pieces(call.arguments.x_values, call.arguments.y_values) IN
    \A i \in 1..(Len(pieces) - 1) :
      LET p == pieces[i] IN
      p.b \oplus (((Two \otimes p.c) \otimes p.width)
                   \oplus ((Whole(3) \otimes p.d) \otimes Square(p.width))) = pieces[i + 1].b

=============================================================================
