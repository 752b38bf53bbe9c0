------------------------------ MODULE MCSetOnce ------------------------------
(* SetOnce for TLC: five threads that populate, read and clear at will.    *)
EXTENDS SetOnce
==============================================================================
