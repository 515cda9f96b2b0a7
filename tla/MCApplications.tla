-------------------------- MODULE MCApplications ----------------------------
(* A small instance of Applications for TLC.                               *)
EXTENDS Applications, TLC

Symmetry == Permutations(Req)
=============================================================================
