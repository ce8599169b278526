CONSTANTS
  Names <- MCNames
  Display <- MCDisplay
  FileOf <- MCFileOf
  Declared <- MCDeclared
  Roots <- MCRoots
  Versions <- MCVersions
  Start = "first"
  Declares <- MCDeclares
  Edits <- MCEdits
  MaxSaves = 2
  MaxTexts = 1
  MaxCommands = 2
SPECIFICATION Spec
INVARIANTS
  NothingIsLost
  UpdateSettles
  UpdatedConstsPass
  MocksMatchTypes
CHECK_DEADLOCK FALSE
