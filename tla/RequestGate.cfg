SPECIFICATION GateSpec
CONSTANTS
  Callers = {c1, c2, c3}
  Hasty = {c3}
  MinRequestInterval = 2
  HTTPMaxRetries = 0
  HTTPBackoffInitial = 1
  HTTPBackoffMax = 0
  DefaultMaxRetries = 2
  DefaultBackoffInitial = 2
  DefaultBackoffMax = 2
  RetryAfters = {0, 3}
  MaxCalls = 1
INVARIANTS OneRequestPerInterval ServerIsSpared
PROPERTY CallReturns
