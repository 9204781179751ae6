SPECIFICATION FairSpec
CONSTANTS
  NoMember = "none"
  NoEvent = NoEvent
  Surface <- NSurface
  Members <- NMembers
  Hops <- NHops
  Bonds <- NBonds
  CliquesOf <- NCliquesOf
  EndA <- NEndA
  EndB <- NEndB
  EndC <- NEndC
  Near <- NNear
  Species <- NSpecies
  SpeciesOf <- NSpeciesOf
  ProductOf <- NProductOf
  Fed = {"X", "C"}
  SiteOf <- NSiteOf
  Key <- CrowdKey
  Lateral = TRUE
  FindDiffusion = TRUE
  MayFail = FALSE
  StartOccupancies <- NStartOccupancies
  StartActive <- NStartActive
  StartKnown = {"X"}
  StartExpanded = {"X"}
  NSteps = 4
INVARIANTS
  PlacementsIndexed
  Exclusion
  NeverStale
PROPERTIES
  ImplementsLatticeGas
  SessionEnds
