SPECIFICATION FairSpec
CONSTANTS
  Ids = {1, 2, 3}
  Lanes = {"l1", "l2"}
  Hash = {"h1", "h2"}
  Matrices <- MCMatrices
  Profiles <- MCProfiles
  Reports <- MCReports
CHECK_DEADLOCK FALSE
INVARIANTS TypeOK ColdReplays MislabelCaught
PROPERTIES FailureIsFinal KeepsPromise Returns
