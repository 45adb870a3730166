----------------------------- MODULE MC_Decimal -----------------------------
(* The decimal range check at precision 2, inputs -120..120: both bounds   *)
(* and the first values past them are among the inputs.                   *)
EXTENDS Decimal

=============================================================================
