SPECIFICATION Spec
CONSTANTS
  Tossers = {t1}
  Runners = {r1, r2}
  None = None
  Spools <- SomeSpools
  Arrivals <- SomeArrivals
  MaxText = 2
  Serials = 65536
  MaxMsg = 5
  MaxRuns = 1
  MaxStops = 1
INVARIANTS NoDuplicates ThreadsTrue ImportAsPlanned ExportsKept WarnedOnce
CHECK_DEADLOCK FALSE
PROPERTIES QueuedIsExported
