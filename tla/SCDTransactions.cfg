CONSTANTS
  Puts = {p1, p2}
  Arbitrations = {a1}
  StartTimes = {Nil, 1}
  Statuses = {"Down"}
  Nil = Nil
  MaxClockSkew = 0
  MaxRetries = 2
  MaxTime = 2
  MaxIndex = 1
SPECIFICATION TxSpec
INVARIANTS TypeOK
PROPERTIES ImplementsAtomicCalls RefusedForCause
CHECK_DEADLOCK FALSE
