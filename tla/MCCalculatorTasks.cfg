SPECIFICATION FairSpec
CONSTANTS
  Calculators = {c1, c2}
  MaxWorkers = 2
  Main = "main"
  Workers = {"w1", "w2"}
  Helpers = {"h1", "h2"}
  Threads <- MCThreads
  Blocks <- MCThreads
  Thread <- MCThread
  Outer <- MCOuter
  Need <- MCNeed
  NoBlock = NoBlock
  Nobody = Nobody
  Sites = {"s1", "s2", "s3"}
  CacheOf <- MCCacheOf
  Displacements = 3
  Rounds = 2
INVARIANTS
  LevelsNeverNested
  NothingRunsOn
PROPERTIES
  TasksEnd
