SPECIFICATION Spec
CONSTANTS
  None = None
  Workers = {w1, w2}
  Splits = {2, 3}
  Unit = {3}
  History = 2
  MaxBackfill = 2
  Start = 1
  MaxNow = 3
  MaxCrashes = 1
  MaxAcks = 1
SYMMETRY Interchangeable
INVARIANTS TypeOK AppliedOnce StatsCoverBars NoHoles  AppliedIsAnnounced
PROPERTIES QuoteNeverOlder
