-------------------------- MODULE MCFrameworkLock --------------------------
(***************************************************************************)
(* Small instances of FrameworkLock: a few messages, one offer loop for    *)
(* each record that can be registered, and the two monitors.               *)
(***************************************************************************)
EXTENDS FrameworkLock, TLC

(* Message greenlets differ in name only, and so do records and loops.     *)
Symmetry == Permutations(Handlers) \cup Permutations(Records) \cup Permutations(OfferLoops)
=============================================================================
