SPECIFICATION PoolSpec
CONSTANTS
  Calculators = {c1, c2}
  MaxWorkers = 2
  Threads = {"t1", "t2", "t3"}
  Blocks = {"p", "q", "r", "s", "u"}
  Thread <- MCThread
  Outer <- MCOuter
  Need <- MCNeed
  NoBlock = NoBlock
INVARIANTS
  ExclusiveUse
  InventoriesAgree
  PermitsConserved
  NoLostWakeup
  NoCircularWait
