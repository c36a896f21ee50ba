SPECIFICATION RSpec
CONSTANTS
  None = None
  Workers = {w1}
  NumKinds = 1
  StateKinds = {}
  IntegrityKinds = {}
  Discs = {up, down}
  Values = {0, 1, 2}
  SeverityCap = 3
  Retention = 4
  MaxNow = 4
  Sessions = 2
  FirstBoot = 3
  Faults = FALSE
  Enter <- EnterAtTwo
  Exit <- ExitAtOne
PROPERTIES NoDuplicateOnRestart
