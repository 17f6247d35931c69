SPECIFICATION Spec
CONSTANTS
  Trees <- MCTrees
  Opt <- MCOpt
  Default <- MCDefault
INVARIANTS
  TypeOK
  RefusesExactly
  ReadsBack
  KeysAscend
CHECK_DEADLOCK FALSE
