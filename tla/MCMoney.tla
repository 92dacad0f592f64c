------------------------------ MODULE MCMoney ------------------------------
(***************************************************************************)
(* An instance of the money conversions for TLC: a cent is ten units, and  *)
(* each conversion rounds in a way of its own; doubles are the multiples   *)
(* of three, so that only every third cent is a double.                    *)
(***************************************************************************)
EXTENDS Money, TLC

CONSTANTS ann, mia,  \* users; mia sells
          p1         \* product

MCOwner == [x \in Product |-> mia]

\* A cent, two, a cent and a half, and just less than that.
MCAsked == {10, 14, 15, 20}

ThirdUnits == [x \in Span |-> 3 * ((x + 1) \div 3)]
EvenUnits  == [x \in Span |-> 2 * ((x + 1) \div 2)]
OneLess    == [x \in Span |-> IF x = 0 THEN 0 ELSE x - 1]
=============================================================================
