\* One trader: a resolution races its Start.
CONSTANTS
  Traders = {r1}
  Initial = {r1}
  Sports = {}
  NumTokens = 2
  NoTrader = NoTrader
SPECIFICATION Spec
INVARIANTS
  StoppedIsUnsubscribed
