SPECIFICATION Spec
CONSTANTS
  hop = hop
  atop = atop
  bond = bond
  Sites <- MCSites
  Members <- MCMembers
  ClassOf <- MCClassOf
  Channel <- MCChannel
  Ends <- MCEnds
  DirectSites <- MCDirectSites
  ReactionRates <- MCReactionRates
  MaxNew = 2
  Mixed = FALSE
  Exact = 4
INVARIANTS
  AsRebuilt
  NoneSuppressed
  SampleLive
  SampleProportional
