CONSTANTS
  Names <- MCNames
  Display <- MCDisplay
  FileOf <- MCFileOf
  Declared <- MCDeclared
  Roots <- MCBothRoots
  Versions <- MCVersions
  Start = "first"
  Declares <- MCDeclares
  Edits <- MCEdits
  MaxSaves = 0
  MaxTexts = 0
  MaxCommands = 2
SPECIFICATION Spec
PROPERTIES
  OthersStay
CHECK_DEADLOCK FALSE
