-------------------------- MODULE MCMasterElector --------------------------
(* Instances of MasterElector for TLC.                                     *)
EXTENDS MasterElector, TLC

Symmetry == Permutations(Services)
=============================================================================
