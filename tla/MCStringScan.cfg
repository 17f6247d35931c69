SPECIFICATION Spec
CONSTANTS
  Inputs <- MCInputs
  MaxStringBytes = 5
CHECK_DEADLOCK FALSE
INVARIANTS TypeOK MatchesReference CulpritReported
