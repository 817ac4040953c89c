SPECIFICATION Spec
CONSTANTS
  w = w
  Checks = {w}
  Losses = {0, 2}
  Limits = {2, 3}
  LastTurn = 3
INVARIANTS SavedAgrees
PROPERTIES NoStaleHalt KeepsHalt
