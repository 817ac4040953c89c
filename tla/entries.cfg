SPECIFICATION Spec
CONSTANTS
  b1 = b1
  b2 = b2
  s1 = s1
  ann = ann
  bob = bob
  c1 = c1
  NoAlert = NoAlert
  Buys = {b1, b2}
  Sells = {s1}
  Contracts = {c1}
  ContractOf <- SameContract
  Analysts = {ann, bob}
  Qty = 2
  MaxRows = 3
  MaxOpen = 1
  MaxTrades = 2
  Repegged = {b1}
  MaxAttempts = 1
  CooldownOn = TRUE
  Worlds <- SomeWorlds
INVARIANTS BooksBalance OneEntryPerAlert 
PROPERTIES ExitClearsEntries
CHECK_DEADLOCK FALSE
