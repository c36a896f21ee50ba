SPECIFICATION MSpec
CONSTANTS
  Absent = Absent
  Devices = {d1, d2}
  Signals = {s1}
  Prices = {p1, p2}
  Lookback = 1
  MaxLookback = 2
  DevTools = TRUE
  MaxNow = 3
SYMMETRY Interchangeable
INVARIANTS MTypeOK SettlesOnLatest NotReshown
