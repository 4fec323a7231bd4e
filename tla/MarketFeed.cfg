\* Two traders that share a token, two reconnections; no symmetry under
\* liveness.
CONSTANTS
  Tokens = {t1}
  Traders = {r1, r2}
  MaxConns = 3
  ChanCap = 1
  BaseDelay = 1
  MaxDelay = 3
SPECIFICATION FairSpec
INVARIANTS
  LiveSubscriptions
  PanicOnlyAfterStop
PROPERTIES
  ShutdownTerminates
  EventuallyStreamed
