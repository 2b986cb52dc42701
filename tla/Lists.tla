------------------------------- MODULE Lists -------------------------------
(***************************************************************************)
(* Lists.  These are operators of the community module SequencesExt, which *)
(* is not extended here: together with the modules it extends it would be  *)
(* part of the context of every proof obligation about the modules that    *)
(* use lists, and most of the time a proof takes.                          *)
(***************************************************************************)
EXTENDS Integers, Sequences, FiniteSets, Functions

Front(list) == [i \in 1 .. Len(list) - 1 |-> list[i]]
Last(list) == list[Len(list)]
Reverse(list) == [i \in 1 .. Len(list) |-> list[Len(list) - i + 1]]

(* The elements of a finite set in some order.                             *)
SetToSeq(S) == CHOOSE list \in [1 .. Cardinality(S) -> S] : IsInjective(list)
=============================================================================
