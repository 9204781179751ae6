SPECIFICATION Spec
CONSTANTS
  Reactions = {a, b}
  Configurations <- EveryStep
  NoCheckpoint = NoCheckpoint
INVARIANT
  RemovesOnlyLaterFrames
