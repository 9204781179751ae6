SPECIFICATION Spec
CONSTANTS
  hop = hop
  atop = atop
  bond = bond
  Sites <- MCSites
  Members <- MCMembers
  ClassOf <- MCClassOf
  Channel <- MCChannel
  Ends <- MCEnds
  DirectSites <- MCDirectSites
  ReactionRates = {1}
  MaxNew = 2
  Mixed = FALSE
  Exact = 64
INVARIANTS
  ResumedSamplesAlike
