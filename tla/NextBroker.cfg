SPECIFICATION Spec
CONSTANTS
  p1 = p1
  p2 = p2
  shapeA = shapeA
  shapeB = shapeB
  d1 = d1
  d2 = d2
  validate = validate
  Pages = {p1, p2}
  Decls = {d1, d2}
  Fns = {validate}
  Shapes = {shapeA, shapeB}
  PageTexts <- OneTypeTexts
  Refs <- OneType
  Absent = Absent
  Wrapped = {p2}
  Start <- OneCall
  MaxEdits = 2
  Stamp = Stamp
  Unwritten = Unwritten
INVARIANTS
  NoEditIsLost
  QuietIsWhole
  TypesReachPages
PROPERTIES CallsReturn EventuallyAbsorbed
CHECK_DEADLOCK FALSE
