CONSTANTS
  NTasks <- TwoTasks
  PrintEvery <- CodePrintEvery
SPECIFICATION FairSpec
CHECK_DEADLOCK FALSE
INVARIANTS
  SwitchHoldsNoLock
  SavedStacksMatch
  InServiceOnlyBeforeEoi
  LocksUpOnlyIn3Ways
PROPERTIES
  RoundRobinSpec
  EveryFlowRuns
