SPECIFICATION Spec
CONSTANTS
  Prices = {30, 72, 125, 165}
  Spreads = {0, 30}
  Total = 3
  SomeRules <- Rules
INVARIANTS RungOnce
PROPERTIES StopNeverLoosens NoCutOnOnePrint StopKeepsTrying
CHECK_DEADLOCK FALSE
