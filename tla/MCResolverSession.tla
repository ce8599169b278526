-------------------------- MODULE MCResolverSession --------------------------
EXTENDS ResolverSession, TLC

CONSTANTS p1, d1, d2, d3, validate, shapeA, shapeB

\* A type of d1 has a member whose type d2 declares; d3 may declare the same
\* shape as d2.
Nested == (d1 :> {d2}) @@ (d2 :> {}) @@ (d3 :> {})

\* A page calls for nothing, for the outer type, for the member's or for the
\* third.
MCTexts == {{}, {<<validate, d1>>}, {<<validate, d2>>}, {<<validate, d3>>}}

\* Shapes are interchangeable.
Symmetry == Permutations({shapeA, shapeB})
=============================================================================
