SPECIFICATION Spec
CONSTANTS
  None = None
  Foreign = Foreign
  Browsers = {b1}
  Requests = {r1, r2}
  Symbols = {s1, s2}
  Keys = {k}
  Prefs = {Plain, p}
  Plain = Plain
  MaxSymbols = 1
  MaxVersion = 3
SYMMETRY Interchangeable
INVARIANTS TypeOK
PROPERTIES NoBlindWrite AnsweredOnce
CHECK_DEADLOCK FALSE
