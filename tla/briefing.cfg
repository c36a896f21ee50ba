SPECIFICATION Spec
CONSTANTS
  None = None
  Enter <- MCEnter
  Exit <- MCExit
  MinPairs = 3
  MinFactorPairs = 4
  Spans <- MCSpans
  Staleness = 3
  EnoughBars = 4
  TrendBars = 5
  RegimeBars = 5
  BreakBuffer = 20
  Buckets = {10, 20, 30, 50}
  Prior = 30
  HalfLife = 6
  MaxItems = 3
  MaxPerSymbol = 2
  NameOrder <- MCNameOrder
  FreshMs = 1
  DelayedMs = 2
  Future = 1
  Grace = 1
  Tolerance = 50
  Preference <- MCPreference
  MinBars = 4
  DayLen = 6
  PreAt = 1
  OpenAt = 2
  CloseAt = 4
  PostEnd = 5
  ClosedDays = {3, 4}
  Zone = 0
  Shift = 1
  SummerTime <- MCSummerTime
  MaxSessions = 5
  Reach = 8
  SimEpoch = 0
  SimSession = 4
  SimHistory = 6
  Symbols = {"a", "b"}
  Setups <- MCSetups
  Scenes <- MCScenes
  Prefs <- MCPrefs
  Lookback = 1
  MaxLookback = 2
  PageLimit = 9
  Instants = {8, 14, 20}
  MaxRequests = 2
CHECK_DEADLOCK FALSE
INVARIANTS TypeOK WholeAccount TasteNeverHides BadgeCoversBriefing
PROPERTIES AnnouncedOnTrust
