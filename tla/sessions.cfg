SPECIFICATION Spec
CONSTANTS
  Tabs = {tab1, tab2}
  Tokens = {t1, t2}
  TTL = 6
  SlideAfter = 5
  FreeFailures = 2
  MaxLock = 1
  Gap = 1
  Landing = 1
  MaxLost = 1
  None = None
INVARIANTS EndsOnlyWhenEnded
SYMMETRY Symmetry
