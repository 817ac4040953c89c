CONSTANTS
  Misfloored <- MCMisfloored
  NoCap = NoCap
  HardCap = 10
  AlertsIn <- MCAlerts
  Settings <- MCSettings
  Levels = {"normal", "extreme", "unknown"}
  Histories <- MCHistories
  Balances = {0, 6000, 50000}
  Books <- MCBooks
  Minutes = {600, 945}
  Quotes = {0, 15, 110, 120, 122, 230, 299, 300, 305, 385, 700}
SPECIFICATION Spec
INVARIANTS CapsHold OnTick LimitsNear
CHECK_DEADLOCK FALSE
