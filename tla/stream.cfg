SPECIFICATION Spec
CONSTANTS
  None = None
  Symbols = {a, b}
  Watched = {a}
  Replicated = TRUE
  HistorySize = 1
  Limit = 2
  MaxLoads = 2
  MaxVersion = 1
  MaxSeq = 2
  MaxRestarts = 1
INVARIANTS TypeOK SlotsCounted NoSilentGap
PROPERTIES DisplayNeverOlder
