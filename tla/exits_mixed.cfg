SPECIFICATION Spec
CONSTANTS
  e1 = e1
  e2 = e2
  e3 = e3
  Oids = {o1, o2, o3, o4}
  NoOid = NoOid
  Exits = {e1, e2, e3}
  TriggerOf <- AlertStopManual
  Lot = 2
  MaxAttempts = 1
  AlertRepeg = TRUE
  AutoRepeg = FALSE
  Faults = {}
SYMMETRY Symm
INVARIANTS NoOversell BooksAgree DeadRowsAreDead ReplacesOnlyTheDead FillWillBeBooked
PROPERTIES KeepsLedger
