SPECIFICATION Spec
CONSTANTS
  a = a
  b = b
  n = n
  NoKey = NoKey
  Texts <- MCTexts
  Inputs <- MCInputs
  Opt <- MCOpt
  Default <- MCDefault
CHECK_DEADLOCK FALSE
INVARIANT BoundExceededIsReal
