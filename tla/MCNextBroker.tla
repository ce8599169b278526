---------------------------- MODULE MCNextBroker ----------------------------
EXTENDS NextBroker, TLC

CONSTANTS p1, p2, d1, d2, validate, shapeA, shapeB

\* Pages with a call or none, and one type, which has a member of a type that
\* another file declares.
OneTypeTexts == {{}, {<<validate, d1>>}}

OneType == d1 :> {d2} @@ d2 :> {}

\* One page of the two has the call.
OneCall == {d1 :> shapeA @@ d2 :> shapeB @@ p1 :> {<<validate, d1>>} @@ p2 :> {}}
=============================================================================
