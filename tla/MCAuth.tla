---------------------------------- MODULE MCAuth ----------------------------------
(* An instance of Auth for TLC. *)
EXTENDS Auth, TLC

IdSymmetry == Permutations(Users)
=============================================================================
