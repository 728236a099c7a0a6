-------------------------------- MODULE Money --------------------------------
(* The larger and the smaller of two amounts (max and min of the rulesets).   *)
EXTENDS Integers

Higher(a, b) == IF a >= b THEN a ELSE b
Lower(a, b) == IF a <= b THEN a ELSE b
=============================================================================
