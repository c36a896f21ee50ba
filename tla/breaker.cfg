SPECIFICATION RSpec
CONSTANTS
  Calls = {c1, c2}
  Window = 2
  MinSamples = 2
  OpenFor = 3
  HalfOpenProbes = 2
  CallTime = 2
  MaxEvents = 3
  UnknownSymbols = TRUE
  MaxForced = 1
  Callers = {u1, u2}
  Shared = {c1}
  Capacity = 1
  RefillEvery = 2
  Attempts = 2
  RequestTime = 1
INVARIANTS RTypeOK OneProbe
PROPERTIES ClosesOnProof RecoversUnlessLeaked UsedAgain EveryCallerIsAnswered
