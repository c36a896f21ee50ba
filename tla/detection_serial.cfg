SPECIFICATION SSpec
CONSTANTS
  None = None
  Workers = {w1}
  NumKinds = 2
  StateKinds = {2}
  IntegrityKinds = {}
  Discs = {up, down}
  Values = {0, 1, 2, 3}
  SeverityCap = 3
  Retention = 0
  MaxNow = 3
  Faults = FALSE
  Enter <- EnterAtTwo
  Exit <- ExitAtOne
INVARIANTS TablesAgree
PROPERTIES NoChatter ImplementsEpisodes
