----------------------------- MODULE MCTimeSync ------------------------------
(***************************************************************************)
(* Instance of TimeSync for TLC. The robots run the same program.          *)
(***************************************************************************)
EXTENDS TimeSync, TLC

Symmetry == Permutations(Robots)
=============================================================================
