SPECIFICATION Spec
CONSTANTS
  Env <- MCEnv
  Digits <- MCDigits
  Dates <- MCDates
  Patterns <- MCPatterns
  Cases <- MCCases
  Odd <- MCOdd
  MaxHops = 2
  Percent = 100
  Items = 2
  StringBytes = 8
  MaxBytes = 1000
INVARIANTS Delivered TwinsAgree NoopsChangeNothing EstimateCovers
PROPERTIES ShapeIsExact
CHECK_DEADLOCK FALSE
