SPECIFICATION Spec
CONSTANTS
  Trees <- MCTrees
  Opt <- MCOpt
  Default <- MCDefault
INVARIANTS
  DepthHonored
CHECK_DEADLOCK FALSE
