SPECIFICATION Spec
CONSTANTS
  None = None
  Symbols = {s1, s2}
  Machinery = {}
  Viewable = {}
  Instances = {i1, i2}
  Slots = {a}
  BatchSize = 2
  Workers = 2
  BatchTime = 2
  Lease = 2
  Hot = 1
  Warm = 1
  Cold = 1
  ClosedMultiplier = 1
  ThrottleWait = 1
  NotFoundDelay = 1
  MaxBackoff = 1
  MaxDoublings = 0
  SweepEvery = 1
  MaxLate = 2
  MaxFaults = 1
INVARIANTS TypeOK LeaseExcludes
SYMMETRY Interchangeable
