SPECIFICATION Spec
CONSTANTS
  Runs = {1, 2}
  Sources = {1, 2}
  Given = {1}
  Policies = {1, 2}
  Covers <- MCCovers
  MaxEdits = 2
CHECK_DEADLOCK FALSE
INVARIANTS TypeOK Certified PolicyHeld PassIsCoherent
