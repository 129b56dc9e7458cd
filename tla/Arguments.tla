------------------------------ MODULE Arguments ------------------------------
(***************************************************************************)
(* buildArgs and stringifyValue of pkg/runner: from the arguments of a     *)
(* tools/call to the variables make is given.                              *)
(*                                                                         *)
(* A JSON value is a pair: <<"text", s>>, <<"truth", b>> or <<"number",    *)
(* n>>, n counting units of 1/2^FracBits, as fine as float64 tells numbers *)
(* apart.  JSON numbers are decoded into float64, here with a mantissa of  *)
(* Precision bits and values at least 2^Tiny units apart, and converted to *)
(* int64, here IntBits wide (53 and 64 in the code, where 2^Tiny units are *)
(* 2^-1074).                                                               *)
(***************************************************************************)
EXTENDS Integers, Sequences

CONSTANTS
  Params,       \* the declared parameters, in order: [name, type]
  variable,     \* variable[name]: upper case, dashes as underscores
  FracBits, Tiny, Precision, IntBits

ASSUME ArgumentsAssumption ==
  /\ Params \in Seq([name : DOMAIN variable, type : {"string", "int", "bool"}])
  /\ Precision \in Nat /\ IntBits \in Nat \ {0}
  /\ FracBits \in Nat /\ Tiny \in 0..FracBits

Value ==
  ({"number"} \X Int) \cup ({"truth"} \X BOOLEAN) \cup ({"text"} \X STRING)

Abs(n) == IF n < 0 THEN -n ELSE n

Pow2(n) == LET p[k \in 0..n] == IF k = 0 THEN 1 ELSE 2 * p[k - 1] IN p[n]

One == Pow2(FracBits)

(* The distance of neighbouring float64 values at n. *)
Spacing(n) ==
  Pow2(CHOOSE k \in Tiny..(Tiny + Abs(n)) :
         /\ Abs(n) <= Pow2(Precision + k)
         /\ \A j \in Tiny..(k - 1) : Abs(n) > Pow2(Precision + j))

(* The float64 nearest to n, ties to even. *)
Float(n) ==
  LET s == Spacing(n)
      q == n \div s
      r == n % s
  IN s * (IF 2 * r > s \/ (2 * r = s /\ q % 2 = 1) THEN q + 1 ELSE q)

MinInt == -Pow2(IntBits - 1)
MaxInt == Pow2(IntBits - 1) - 1

(* The integer part of x, the fraction cut. *)
Trunc(x) == IF x >= 0 THEN x \div One ELSE -((-x) \div One)

(* int64(x): what is out of range becomes MinInt on amd64, and the nearest *)
(* int64 on arm64.                                                         *)
ToInt(x) ==
  IF Trunc(x) \in MinInt..MaxInt THEN {Trunc(x)}
  ELSE {MinInt, IF x < 0 THEN MinInt ELSE MaxInt}

Refused == <<"refused">>

(* Mutant: the conversion is not compared with the value it came from. *)
FormatUnchecked(v, i) == <<"number", One * i>>

(* The digits of i, if i is the float64 that v was decoded into. *)
Format(v, i) ==
  IF Float(One * i) = Float(v[2]) THEN <<"number", One * i>> ELSE Refused

(* What stringifyValue may make of v. *)
stringifyValue(type, v) ==
  CASE type = "string" /\ v[1] = "text" -> {v}
    [] type = "bool" /\ v[1] = "truth" -> {v}
    [] type = "int" /\ v[1] = "number" -> {Format(v, i) : i \in ToInt(Float(v[2]))}
    [] OTHER -> {Refused}

Known(args) == \A k \in DOMAIN args : \E i \in DOMAIN Params : Params[i].name = k

Given(args) == {i \in DOMAIN Params : Params[i].name \in DOMAIN args}

(* The texts of the given parameters, each from its value. *)
Texts(args) ==
  LET Of(i) == stringifyValue(Params[i].type, args[Params[i].name]) IN
    {text \in [Given(args) -> UNION {Of(i) : i \in Given(args)}] :
       \A i \in Given(args) : text[i] \in Of(i)}

(* make sets a variable to the last of the values on its command line. *)
Variables(text) ==
  [x \in {variable[Params[i].name] : i \in DOMAIN text} |->
     text[CHOOSE i \in DOMAIN text :
            variable[Params[i].name] = x
            /\ \A j \in DOMAIN text : variable[Params[j].name] = x => j <= i]]

(* The value v reached make as t: the same, or a number less than the      *)
(* distance of two float64 values away from it.  Since t is an integer, a  *)
(* number that float64 can hold is either the same integer or refused.     *)
Reached(v, t) ==
  \/ t = v
  \/ /\ v[1] = "number" /\ t[1] = "number"
     /\ Abs(t[2] - v[2]) < Spacing(v[2])
=============================================================================
