\* An initial trader with a game and a discovered one, two tokens each.
CONSTANTS
  Traders = {r1, r2}
  Initial = {r1}
  Sports = {r1}
  NumTokens = 2
  NoTrader = NoTrader
SPECIFICATION FairSpec
INVARIANTS
  TypeOK
  NoDeafSubscription
  StoppedIsSilent
  CleanExit
PROPERTIES
  TradersStop
