-------------------------- MODULE ToolCalculations --------------------------
(***************************************************************************)
(* What the engineering tools have in common: an operation looks for the   *)
(* arguments it needs, checks each, and computes.  The arguments are a     *)
(* function from their names to numbers.  A tool that is asked for         *)
(* something it cannot do raises its own ToolExecutionError, "refused";    *)
(* any other exception is a "crash".                                       *)
(***************************************************************************)
EXTENDS Rationals, FiniteSets

\* Both functions, and the first one where they overlap.
f ++ g == [n \in DOMAIN f \cup DOMAIN g |-> IF n \in DOMAIN f THEN f[n] ELSE g[n]]

Value(v) == [outcome |-> "value", value |-> v]
Refused == [outcome |-> "refused"]
Crash == [outcome |-> "crash"]

\* Mutant: zero is taken for a positive number.
RequireNumberLoose(class, q) ==
  CASE class = "any" -> TRUE
    [] class \in {"positive", "nonnegative"} -> ~Negative(q)
    [] class = "nonzero" -> q # Zero
    [] class = "quarter turn" -> Zero \preceq q /\ q \preceq Whole(90)
    [] class = "half turn" -> Zero \preceq q /\ q \preceq Whole(180)

\* _require_number with its flags, and the checks some operations add to it.
RequireNumber(class, q) ==
  CASE class = "any" -> TRUE
    [] class = "positive" -> Positive(q)
    [] class = "nonnegative" -> ~Negative(q)
    [] class = "nonzero" -> q # Zero
    [] class = "quarter turn" -> Zero \preceq q /\ q \preceq Whole(90)
    [] class = "half turn" -> Zero \preceq q /\ q \preceq Whole(180)

\* The arguments with a default for one that is not there.
WithDefault(a, name, default) ==
  IF name \in DOMAIN a THEN a ELSE [n \in DOMAIN a \cup {name} |-> IF n = name THEN default ELSE a[n]]

\* needs[op] gives the names an operation looks for and what each has to be.
Accepts(needs, op, a) ==
  /\ op \in DOMAIN needs
  /\ \A n \in DOMAIN needs[op] : n \in DOMAIN a /\ RequireNumber(needs[op][n], a[n])

\* A computed number is the result unless its computation raised.
Finish(q) == IF q = Undefined THEN Crash ELSE Value(q)

Numbers(names) == [n \in names |-> "any"]
AllPositive(names) == [n \in names |-> "positive"]
NonNegative(names) == [n \in names |-> "nonnegative"]

=============================================================================
