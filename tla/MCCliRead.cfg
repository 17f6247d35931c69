SPECIFICATION Spec
CONSTANTS
  ArgLists <- MCArgLists
  Contents <- MCContents
  MaxInputSize = 2
CHECK_DEADLOCK FALSE
INVARIANTS MidStreamIsIO
