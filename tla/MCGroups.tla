------------------------------ MODULE MCGroups ------------------------------
(* Instances of Groups for TLC.                                              *)
EXTENDS Groups, TLC

CONSTANTS amy, ben, cal, dan, eve

Four == <<amy, ben, cal, dan>>

RequestSymmetry == Permutations(Requests)
=============================================================================
