SPECIFICATION FairSpec
CONSTANTS
  None = None
  Bare = "bare"
  Copy = "copy"
  Configurations <- OneHop
  Sites <- MCSites
CHECK_DEADLOCK FALSE
PROPERTIES
  RatesHaveThermochemistry
