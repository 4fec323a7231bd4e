\* Three handlers over two slugs that may name one market, one empty answer
\* retried.
CONSTANTS
  Markets = {m1}
  NoMarket = NoMarket
  Slugs = {s1, s2}
  NoSlug = NoSlug
  Handlers = {h1, h2, h3}
  NoHandler = NoHandler
  EmptyRetries = 1
SPECIFICATION FairSpec
PROPERTIES
  RosterSpec
  HandlersReturn
