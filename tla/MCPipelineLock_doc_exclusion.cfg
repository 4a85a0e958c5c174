SPECIFICATION Spec
CONSTANTS
  loop = loop
  hourly = hourly
  t1 = t1
  t2 = t2
  Processes = {loop, hourly}
  Tasks = {t1, t2}
  WebRestarts = FALSE
  MaxFiles = 5
INVARIANTS
  MutualExclusion
