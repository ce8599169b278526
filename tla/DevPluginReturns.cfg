SPECIFICATION Spec
CONSTANTS
  p1 = p1
  p2 = p2
  d1 = d1
  validate = validate
  shapeA = shapeA
  shapeB = shapeB
  Pages = {p1, p2}
  Decls = {d1}
  Fns = {validate}
  Shapes = {shapeA, shapeB}
  PageTexts <- OneDeclTexts
  Refs <- OneDecl
  Absent = Absent
  Unknown = Unknown
  Mode = "edits"
  Wrapped = {p2}
  SlowReads = TRUE
  MaxEdits = 1
  MaxRespawns = 1
INVARIANT AwaitsAreOwed
PROPERTY HooksReturn
CHECK_DEADLOCK FALSE
