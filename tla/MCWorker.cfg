SPECIFICATION Spec
CONSTANTS
  Content = {1, 2, 3, 4, 5, 6, 8, 9}
  Names = {1, 2}
  Bundles <- MCBundles
  Lines <- MCLines
  Outcomes <- MCOutcomes
  Ids = {"i1", "i2"}
  Symbol <- MCSymbol
  Classes <- MCClasses
  Replays = 2
CHECK_DEADLOCK FALSE
INVARIANTS TypeOK PassedMeansPassed AgreementIsSameness
