----------------------------- MODULE MCDevPlugin -----------------------------
EXTENDS DevPlugin, TLC

CONSTANTS p1, p2, d1, validate, shapeA, shapeB

OneDeclTexts == {{}, {<<validate, d1>>}}

\* The type stands for itself.
OneDecl == d1 :> {}
=============================================================================
