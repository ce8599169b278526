SPECIFICATION Spec
CONSTANTS
  p1 = p1
  d1 = d1
  d2 = d2
  d3 = d3
  validate = validate
  shapeA = shapeA
  shapeB = shapeB
  Pages = {p1}
  Decls = {d1, d2, d3}
  Fns = {validate}
  Shapes = {shapeA, shapeB}
  PageTexts <- MCTexts
  Refs <- Nested
  Absent = Absent
  NoPage = NoPage
SYMMETRY Symmetry
INVARIANTS OwnDepsCover DepsAreCurrent
CHECK_DEADLOCK FALSE
