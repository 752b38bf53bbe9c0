---------------------------- MODULE MCTarakoModule ----------------------------
(* TarakoModule for TLC.  One digest and one unprotected executable tell a   *)
(* caller with evidence from one without; two user data values tell a stale  *)
(* buffer from the signed one; two keys allow a reload, or one load in each  *)
(* of two boots.                                                             *)
EXTENDS TarakoModule, TLC

DriverSymmetry == Permutations(Tasks) \cup Permutations(UserData)
===============================================================================
