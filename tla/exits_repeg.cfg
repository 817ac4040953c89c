SPECIFICATION FairSpec
CONSTANTS
  e1 = e1
  e2 = e2
  e3 = e3
  Oids = {o1, o2, o3}
  NoOid = NoOid
  Exits = {e1}
  TriggerOf <- OneAlert
  Lot = 2
  MaxAttempts = 2
  AlertRepeg = TRUE
  AutoRepeg = FALSE
  Faults = {}
PROPERTIES RepegsOnlyTheDead EveryExitEnds KeepsFairLedger
