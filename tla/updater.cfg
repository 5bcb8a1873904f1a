SPECIFICATION FairSpec
CONSTANTS
  Jobs = {i, j}
  Checks = {c, d}
  MaxVersion = 2
  MaxStarts = 4
  Environments <- AllFour
INVARIANTS TypeOK InstallsNoOlder RunsWhatIsInstalled
PROPERTIES SuccessMeansUpdated ServiceComesBack
CHECK_DEADLOCK FALSE
