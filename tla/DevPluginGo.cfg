SPECIFICATION Spec
CONSTANTS
  p1 = p1
  p2 = p2
  d1 = d1
  validate = validate
  shapeA = shapeA
  shapeB = shapeB
  Pages = {p1, p2}
  Decls = {d1}
  Fns = {validate}
  Shapes = {shapeA, shapeB}
  PageTexts <- OneDeclTexts
  Refs <- OneDecl
  Absent = Absent
  Unknown = Unknown
  Mode = "go"
  Wrapped = {p2}
  SlowReads = FALSE
  MaxEdits = 2
  MaxRespawns = 0
INVARIANTS QuietIsFresh QuietIsWhole PagesAreInProgram
PROPERTY EventuallyFresh
CHECK_DEADLOCK FALSE
