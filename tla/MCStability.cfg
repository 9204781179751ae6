SPECIFICATION FairSpec
CONSTANTS
  None = None
  Bare = "bare"
  Copy = "copy"
  Configurations <- MCConfigurations
  Sites <- MCSites
CHECK_DEADLOCK FALSE
INVARIANTS
  BandSound
  DatabaseSound
PROPERTIES
  OffersSound
  VerdictsKept
  ChecksEnd
