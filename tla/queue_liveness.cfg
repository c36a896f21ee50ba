SPECIFICATION Spec
CONSTANTS
  None = None
  Symbols = {s1, s2}
  Machinery = {}
  Viewable = {s2}
  Instances = {i1}
  Slots = {a}
  BatchSize = 1
  Workers = 1
  BatchTime = 1
  Lease = 2
  Hot = 1
  Warm = 1
  Cold = 1
  ClosedMultiplier = 1
  ThrottleWait = 1
  NotFoundDelay = 2
  MaxBackoff = 1
  MaxDoublings = 0
  SweepEvery = 1
  MaxLate = 1
  MaxFaults = 1
PROPERTIES WatchedIsPolled OrphansAreDropped
