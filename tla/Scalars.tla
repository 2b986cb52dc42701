------------------------------ MODULE Scalars ------------------------------
(***************************************************************************)
(* The arithmetic of scalar values (values.cpp), in fixed point.  A double *)
(* is an integer number of ten-thousandths, one digit more than the three  *)
(* that the arithmetic keeps.                                              *)
(***************************************************************************)
EXTENDS Integers

Unit == 10000       \* the double 1.0

\* Seeded fault: the digits behind the third are cut off.
TruncateToFixed(d) == IF d >= 0 THEN d \div 10 ELSE -((-d) \div 10)

\* std::llround(d * 1000): halves are rounded away from zero
ConvertToFixed(d) == IF d >= 0 THEN (d + 5) \div 10 ELSE -((5 - d) \div 10)

ConvertToFloating(f) == f * 10

ScalarEq(l, r) == ConvertToFixed(l) = ConvertToFixed(r)

ScalarLeq(l, r) == ConvertToFixed(l) <= ConvertToFixed(r)

ScalarPlus(l, r) == ConvertToFloating(ConvertToFixed(l) + ConvertToFixed(r))

ScalarMinus(l, r) == ConvertToFloating(ConvertToFixed(l) - ConvertToFixed(r))

--------------------------------------------------------------------------
(* The law of scalar arithmetic *)

\* Scalar arithmetic does not drift: a sum is off by half a thousandth at most
\* for either side, what is added can be taken away, in any number of steps,
\* and the order is that of the rounded values.
ScalarLaw(a, b) ==
    LET sum == ScalarPlus(ScalarPlus(a, b), b)
    IN  /\ ScalarPlus(a, b) - (a + b) \in -10 .. 10
        /\ ScalarEq(ScalarMinus(ScalarMinus(sum, b), b), a)
        /\ ConvertToFixed(sum) = ConvertToFixed(a) + 2 * ConvertToFixed(b)
        /\ ScalarEq(a, b) = (ScalarLeq(a, b) /\ ScalarLeq(b, a))
=============================================================================
