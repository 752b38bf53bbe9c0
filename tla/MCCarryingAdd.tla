--------------------------- MODULE MCCarryingAdd ---------------------------
(* CarryingAdd for TLC: every pair of operands of three limbs of two bits,  *)
(* and every initial carry.                                                 *)
EXTENDS CarryingAdd

\* Power is exponentiation.
ASSUME PowerAssumption == \A b \in 1..4, n \in 0..5 : Power(b, n) = b ^ n
==============================================================================
