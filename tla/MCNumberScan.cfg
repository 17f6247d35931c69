SPECIFICATION Spec
CONSTANTS
  Inputs <- MCInputs
  MaxNumberChars = 4
  MaxOrder = 2
  MinOrder = 0
CHECK_DEADLOCK FALSE
INVARIANTS TypeOK ScanWindow MatchesGrammar
