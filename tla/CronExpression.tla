--------------------------- MODULE CronExpression ---------------------------
(***************************************************************************)
(* validate and validateCronField of tools/crontab.go, against what cron   *)
(* accepts.                                                                *)
(*                                                                         *)
(* An expression is a sequence of fields, a field a sequence of parts      *)
(* between commas, and a part is *, a number or a range, each with or      *)
(* without a step.  A number is inside the values of its field or not.     *)
(***************************************************************************)
EXTENDS Naturals, Sequences, FiniteSets

CONSTANTS
  Fields,     \* the fields that are combined
  MaxFields   \* bound: the length of an expression

FieldsAssumption == MaxFields \in Nat /\ Fields # {}

\* base: what is before the slash.  ends: how many numbers a range has, 1 for a
\* number, 0 for *.  within: whether they are values of the field, in order.
Parts == [ends : 0..3, step : BOOLEAN, within : BOOLEAN]

PartsAssumption == \A f \in Fields : f \in Seq(Parts) /\ f # <<>>

VARIABLES
  expression,  \* what the tool is called with
  verdict      \* what it says of it

vars == <<expression, verdict>>

Init ==
  /\ expression \in UNION {[1..n -> Fields] : n \in 0..MaxFields}
  /\ verdict = "none"

-----------------------------------------------------------------------------

\* Mutation: a step after * is not known.
validateCronField_NoStep(field) ==
  \A i \in DOMAIN field : field[i].ends <= 2 /\ ~ (field[i].ends = 0 /\ field[i].step)

\* A range of more than two ends is refused, whether it has a step or not.  The
\* values min and max of the field are parameters that nothing reads.
validateCronField(field) == \A i \in DOMAIN field : field[i].ends <= 2

\* Mutation: no field is looked at.
validate_FieldCount(e) == Len(e) = 5

validate(e) == Len(e) = 5 /\ \A i \in DOMAIN e : validateCronField(e[i])

\* The operation of the tool.
Validate ==
  /\ verdict = "none"
  /\ verdict' = IF validate(expression) THEN "valid" ELSE "invalid"
  /\ UNCHANGED expression

Next == Validate
Spec == Init /\ [][Next]_vars

-----------------------------------------------------------------------------

\* What cron makes a job of.
CronAccepts(e) ==
  /\ Len(e) = 5
  /\ \A i \in DOMAIN e : \A k \in DOMAIN e[i] :
       e[i][k].ends <= 2 /\ (e[i][k].ends > 0 => e[i][k].within)

\* The tool turns down no expression that would work.
ValidPasses == CronAccepts(expression) => verdict # "invalid"

\* An expression with the wrong number of fields or a range of three ends is not
\* called valid.
MalformedFails ==
  verdict = "valid" =>
    /\ Len(expression) = 5
    /\ \A i \in DOMAIN expression : \A k \in DOMAIN expression[i] : expression[i][k].ends # 3

=============================================================================
