SPECIFICATION Spec
CONSTANTS
  NoMember = "none"
  NoEvent = NoEvent
  Surface <- VSurface
  Members <- VMembers
  Hops <- VHops
  Bonds <- VBonds
  CliquesOf <- VCliquesOf
  EndA <- VEndA
  EndB <- VEndB
  EndC <- VEndC
  Near <- VNear
  Species <- VSpecies
  SpeciesOf <- VSpeciesOf
  ProductOf <- VProductOf
  Fed = {"X", "C"}
  SiteOf <- VSiteOf
  Key <- CrowdKey
  Lateral = TRUE
  FindDiffusion = TRUE
  MayFail = TRUE
  StartOccupancies <- VStartOccupancies
  StartActive <- VStartActive
  StartKnown = {"X"}
  StartExpanded = {"X"}
  NSteps = 3
INVARIANTS
  TypeOK
  OccupancyIndexAgrees
  IndexFresh
  NoEventOverlooked
  Reversible
