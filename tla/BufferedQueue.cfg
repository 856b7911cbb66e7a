CONSTANTS
  Items = {a, b}
  Size = 3
  HasTimeout = TRUE
  MaxAdds = 7
SPECIFICATION Spec
INVARIANTS
  TypeOK
  TimerArmed
  FifoNoLoss
PROPERTIES
  ImplementsChannel
CHECK_DEADLOCK FALSE
