------------------------------ MODULE Decimal ------------------------------
(***************************************************************************)
(* The range check of DecNumber.MarshalMsgpack (decimal/decimal.go lines  *)
(* 62-79).  A decimal is abstracted to an integer value: the check only    *)
(* compares the value with two bounds, and the digits of an integer are   *)
(* what the package comment (lines 25-28) speaks of.  The precision is a  *)
(* constant so that TLC can run the check at a small scale.  Line 64     *)
(* uses DecimalPrecision, which src/ does not define; the package         *)
(* declares decimalPrecision = 38 (line 37), the precision the comment    *)
(* speaks of.  The BCD encoding of an accepted value (bcd.go) is outside  *)
(* this module.                                                            *)
(***************************************************************************)
EXTENDS Integers

CONSTANTS
  DecimalPrecision,  \* decimal digits Tarantool's decimal type holds
  Bound              \* the inputs tried are -Bound..Bound

ASSUME DecimalAssumption ==
  /\ DecimalPrecision \in Nat \ {0}
  /\ Bound \in Nat

VARIABLES
  num,   \* the value of the DecNumber last marshalled
  out    \* "none" before any call, then "ok" or the error returned

vars == <<num, out>>

Inputs == -Bound..Bound

\* maxSupportedDecimal := decimal.New(1, DecimalPrecision).Sub(one)
maxSupportedDecimal == 10^DecimalPrecision - 1

\* minSupportedDecimal := maxSupportedDecimal.Neg().Sub(one)
minSupportedDecimal == -maxSupportedDecimal - 1

\* Mutant: the upper check also rejects the maximum itself.
TooBigInclusive(n) == n >= maxSupportedDecimal

\* decNum.GreaterThan(maxSupportedDecimal)
TooBig(n) == n > maxSupportedDecimal

\* decNum.LessThan(minSupportedDecimal)
TooSmall(n) == n < minSupportedDecimal

\* The reference: the number of decimal digits of a natural number.
NumDigits[k \in Nat] == IF k < 10 THEN 1 ELSE 1 + NumDigits[k \div 10]

Abs(n) == IF n < 0 THEN -n ELSE n

\* A value fits the type when it has at most DecimalPrecision digits.
Representable(n) == NumDigits[Abs(n)] <= DecimalPrecision

Init ==
  /\ num = 0
  /\ out = "none"

\* MarshalMsgpack: the two range checks in order, then the encoding.
MarshalMsgpack(n) ==
  /\ num' = n
  /\ \/ TooBig(n) /\ out' = "errMax"
     \/ ~TooBig(n) /\ TooSmall(n) /\ out' = "errMin"
     \/ ~TooBig(n) /\ ~TooSmall(n) /\ out' = "ok"

Next == \E n \in Inputs : MarshalMsgpack(n)

Spec == Init /\ [][Next]_vars

-----------------------------------------------------------------------------
\* Every value the decimal type can hold is marshalled: the range check of
\* MarshalMsgpack never rejects a number of at most DecimalPrecision digits.
AcceptsRepresentable ==
  (out # "none" /\ Representable(num)) => out = "ok"

\* The package comment promises 38 digits of precision: every value
\* MarshalMsgpack accepts has at most DecimalPrecision digits.
FitsPrecision ==
  out = "ok" => Representable(num)

=============================================================================
