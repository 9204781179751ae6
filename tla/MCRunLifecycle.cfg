SPECIFICATION Spec
CONSTANTS
  a = a
  b = b
  c = c
  x = x
  y = y
  Nobody = Nobody
  Actors <- MCActors
  ProcessOf <- MCProcessOf
  Reactions = {x, y}
  NSteps = 2
  CheckpointEvery = 2
  MaxSegments = 2
  MaxCrashes = 1
SYMMETRY Interchangeable
INVARIANTS
  OneRun
  SegmentsClosed
  SegmentsChain
  EventsDefined
