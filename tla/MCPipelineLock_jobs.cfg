SPECIFICATION FairSpec
CONSTANTS
  loop = loop
  hourly = hourly
  t1 = t1
  t2 = t2
  Processes = {loop, hourly}
  Tasks = {t1, t2}
  WebRestarts = TRUE
  MaxFiles = 5
INVARIANTS
  OneUnfinishedTask
  ExclusionByHand
PROPERTIES
  RefusalsAreJustified
  ImplementsTryLock
  TasksEnd
