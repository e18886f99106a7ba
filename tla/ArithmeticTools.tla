--------------------------- MODULE ArithmeticTools ---------------------------
(***************************************************************************)
(* anne.calculator and anne.unit_convert.                                  *)
(***************************************************************************)
EXTENDS ToolCalculations, TLC

(* The calculator.  An expression is the tree that ast.parse makes of it:  *)
(* the sequence of its nodes, the operands of a node before it and its     *)
(* root at the end.  A node is a number, a unary or a binary operator,     *)
(* which says how far before it its operands are, or something else (a     *)
(* name, a call, a string, or no expression at all).                       *)

\* A complex number, which Python makes of a broken power of a negative number.  Of its
\* value only that it is not zero is kept.
Imaginary == <<2, 0>>

MaxPower == 100

IntegerPower(q, n) ==
  LET power[i \in 0..Magnitude(n)] == IF i = 0 THEN One ELSE power[i - 1] \otimes q IN
  IF n < 0 THEN One \oslash power[-n] ELSE power[n]

Raised(q, exponent) ==
  CASE exponent[2] = 1 -> Finish(IntegerPower(q, exponent[1]))
    [] exponent[2] # 1 /\ Negative(q) -> Value(Imaginary)
    [] exponent[2] # 1 /\ q = Zero -> IF Negative(exponent) THEN Crash ELSE Value(Zero)
    [] OTHER -> Value(IF exponent = <<1, 2>> THEN Sqrt(q) ELSE Inexact)

\* The remainder has the sign of the divisor.
Remainder(q, r) ==
  LET ratio == q \oslash r IN
  IF IsExact(ratio) THEN q \ominus (r \otimes Whole(ratio[1] \div ratio[2])) ELSE ratio

\* One operator on two numbers: an ArithmeticError becomes the tool's own error, the
\* TypeError of a complex remainder does not.
Operated(op, l, r) ==
  IF \/ op = "**" /\ IsExact(r) /\ Whole(MaxPower) \prec Abs(r)
     \/ op = "**" /\ l = Zero /\ r = Imaginary
     \/ op \in {"/", "%"} /\ r = Zero
  THEN Refused
  ELSE IF Imaginary \in {l, r} THEN IF op = "%" THEN Crash ELSE Value(Imaginary)
  ELSE CASE op = "+" -> Finish(l \oplus r)
         [] op = "-" -> Finish(l \ominus r)
         [] op = "*" -> Finish(l \otimes r)
         [] op = "/" -> Finish(l \oslash r)
         [] op = "%" -> Finish(Remainder(l, r))
         [] op = "**" -> IF Raised(l, r) = Crash THEN Refused ELSE Raised(l, r)

Nodes ==
  [kind : {"number"}, number : Fractions]
    \cup [kind : {"unary"}, op : STRING, operand : Nat \ {0}]
    \cup [kind : {"binary"}, op : STRING, left : Nat \ {0}, right : Nat \ {0}]
    \cup [kind : {"other"}]

Expressions ==
  {e \in Seq(Nodes) \ {<<>>} : \A i \in DOMAIN e :
     /\ e[i].kind = "unary" => e[i].operand < i
     /\ e[i].kind = "binary" => e[i].left < i /\ e[i].right < i}

Number(q) == <<[kind |-> "number", number |-> q]>>
Unary(op, e) == Append(e, [kind |-> "unary", op |-> op, operand |-> 1])
Binary(op, l, r) == Append(l \o r, [kind |-> "binary", op |-> op, left |-> Len(r) + 1, right |-> 1])
Other == <<[kind |-> "other"]>>

\* _evaluate_node for the node at i, with the results of the nodes before it: the operands
\* are evaluated from the left, and each of them may end it.
NodeResult(expression, i, result) ==
  LET node == expression[i] IN
  CASE node.kind = "number" -> Value(node.number)
    [] node.kind = "unary" ->
         LET operand == result[i - node.operand] IN
         IF node.op \notin {"+", "-"} THEN Refused
         ELSE IF operand.outcome # "value" \/ node.op = "+" \/ operand.value = Imaginary
              THEN operand
         ELSE Value(Neg(operand.value))
    [] node.kind = "binary" ->
         LET l == result[i - node.left]  r == result[i - node.right] IN
         IF node.op \notin {"+", "-", "*", "/", "%", "**"} THEN Refused
         ELSE IF l.outcome # "value" THEN l
         ELSE IF r.outcome # "value" THEN r
         ELSE Operated(node.op, l.value, r.value)
    [] node.kind = "other" -> Refused

Evaluated(expression) ==
  LET result[i \in DOMAIN expression] == NodeResult(expression, i, result)
  IN result[Len(expression)]

\* The operators of an expression.
Operators(expression) ==
  {expression[i].op : i \in {j \in DOMAIN expression : expression[j].kind \in {"unary", "binary"}}}

\* calculate_expression: the result has to be a real number.
CalculatorTool(a) ==
  LET result == Evaluated(a.expression) IN
  IF result = Value(Imaginary) THEN Refused ELSE result
-----------------------------------------------------------------------------
(* The converter.  Of each dimension a few units are kept, with their      *)
(* factors to the base unit.                                               *)

Measure(dimension, factor) == [dimension |-> dimension, factor |-> factor]

Units ==
     "m" :> Measure("length", One) @@ "cm" :> Measure("length", <<1, 100>>)
  @@ "in" :> Measure("length", <<127, 5000>>) @@ "ft" :> Measure("length", <<381, 1250>>)
  @@ "kg" :> Measure("mass", One) @@ "g" :> Measure("mass", <<1, 1000>>)
  @@ "s" :> Measure("time", One) @@ "min" :> Measure("time", Whole(60)) @@ "h" :> Measure("time", Whole(3600))
  @@ "m2" :> Measure("area", One) @@ "cm2" :> Measure("area", <<1, 10000>>)
  @@ "m3" :> Measure("volume", One) @@ "l" :> Measure("volume", <<1, 1000>>)
  @@ "m/s" :> Measure("speed", One) @@ "km/h" :> Measure("speed", <<5, 18>>)
  @@ "n" :> Measure("force", One) @@ "kn" :> Measure("force", Whole(1000))
  @@ "pa" :> Measure("pressure", One) @@ "kpa" :> Measure("pressure", Whole(1000))
  @@ "bar" :> Measure("pressure", Whole(100000))
  @@ "j" :> Measure("energy", One) @@ "kj" :> Measure("energy", Whole(1000)) @@ "wh" :> Measure("energy", Whole(3600))
  @@ "w" :> Measure("power", One) @@ "kw" :> Measure("power", Whole(1000)) @@ "mw" :> Measure("power", Whole(1000000))

TemperatureUnits == {"k", "c", "f"}

\* Surrounding blanks and case are dropped; the instances know these spellings.
NormalizedUnit(unit) ==
  CASE unit = "MW" -> "mw" [] unit = "mW" -> "mw" [] unit = " km/h" -> "km/h" [] unit = "K" -> "k"
    [] OTHER -> unit

IcePoint == <<5463, 20>>

Kelvin(q, unit) ==
  CASE unit = "k" -> q
    [] unit = "c" -> q \oplus IcePoint
    [] unit = "f" -> ((q \ominus Whole(32)) \otimes <<5, 9>>) \oplus IcePoint

FromKelvin(q, unit) ==
  CASE unit = "k" -> q
    [] unit = "c" -> q \ominus IcePoint
    [] unit = "f" -> ((q \ominus IcePoint) \otimes <<9, 5>>) \oplus Whole(32)

UnitConversion(a) ==
  LET from == NormalizedUnit(a.from_unit)  to == NormalizedUnit(a.to_unit) IN
  CASE {from, to} \subseteq TemperatureUnits -> Value(FromKelvin(Kelvin(a.value, from), to))
    [] {from, to} \subseteq DOMAIN Units ->
         IF Units[from].dimension = Units[to].dimension
         THEN Value((a.value \otimes Units[from].factor) \oslash Units[to].factor)
         ELSE Refused
    [] OTHER -> Refused

=============================================================================
