SPECIFICATION Spec
CONSTANTS
  ann = ann
  eve = eve
  c1 = c1
  c2 = c2
  entry = entry
  mirror = mirror
  relayed = relayed
  add = add
  other = other
  exit = exit
  flatten = flatten
  broken = broken
  NoPost = NoPost
  NoContract = NoContract
  Nobody = Nobody
  Contracts = {c1, c2}
  RootOf <- MCRootOf
  Pairs <- MCPairs
  Authors = {ann, eve}
  Never <- MCNever
  MaxTime = 2
  DupWindow = 0
  CrossWindow = 1
  Cooldown = 1
  StopMinutes = 1
  PanicMinutes = 2
  MaxStops = 2
  MaxOpen = 2
  MaxTrades = 3
  Posts = {entry, mirror, relayed, add, other, exit, flatten, broken}
  Post <- MCPost
  Groups <- MCGroups
  SomeRules <- MCRules
  IngestWindow = 0
  ForwardWindow = 1
  Replayed = {relayed}
  Backfilled = {mirror}
  Doomed = {c2}
  StopBound = 2
  Faulty = {broken}
  Marked = {"up"}
  Reasons = {"SL", "PANIC"}
  MaxRestarts = 1
INVARIANTS NoDoubleEntry DroppedForAnother
PROPERTIES NoForeignExit NoRevengeEntry
CHECK_DEADLOCK FALSE
