SPECIFICATION Spec
CONSTANTS
  Reactions = {a, b}
  Configurations <- MCConfigurations
  NoCheckpoint = NoCheckpoint
INVARIANTS
  CheckpointCovered
  NeverRefused
  HistoryFaithful
  TrajectoryFaithful
  FoldersFaithful
  StatisticsAgree
PROPERTY
  ImplementsCheckpointedLog
