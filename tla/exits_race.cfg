SPECIFICATION Spec
CONSTANTS
  e1 = e1
  e2 = e2
  e3 = e3
  Oids = {o1, o2, o3}
  NoOid = NoOid
  Exits = {e1, e2, e3}
  TriggerOf <- WhaleStopManual
  Lot = 2
  MaxAttempts = 1
  AlertRepeg = FALSE
  AutoRepeg = FALSE
  Faults = {}
SYMMETRY Symm
INVARIANTS NeverShort
