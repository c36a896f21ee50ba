SPECIFICATION Spec
CONSTANTS
  None = None
  Workers = {w1, w2}
  NumKinds = 1
  StateKinds = {}
  IntegrityKinds = {}
  Discs = {up, down}
  Values = {0, 1, 2, 3}
  SeverityCap = 3
  Retention = 0
  MaxNow = 2
  Faults = TRUE
  Enter <- EnterAtTwo
  Exit <- ExitAtOne
SYMMETRY Interchangeable
INVARIANTS IndInv TrackedWasAnnounced
PROPERTIES RowsMature
