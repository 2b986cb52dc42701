----------------------------- MODULE MCChannel -----------------------------
(* An instance of Channel for TLC.                                         *)
EXTENDS Channel
=============================================================================
