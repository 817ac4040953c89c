SPECIFICATION Spec
CONSTANTS
  SomeSettings <- Settings
INVARIANTS SoldOnce
PROPERTIES NoResurrection OrdersEnd Converges
CHECK_DEADLOCK FALSE
