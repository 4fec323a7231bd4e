SPECIFICATION FairSpec
CONSTANTS
  t1 = t1
  t2 = t2
  Traders = {t1, t2}
  Discovered = {t2}
  Kinds <- KindsDef
  Balances <- BalancesDef
  MaxSignals = 3
  TraderBuffer = 1
  RegistryBuffer = 1
  NoSignal = NoSignal
  Micro = 100
  PriceUnit = 100
  PctNum = 1
  PctDen = 7
  MaxOrder = 1000
  MinSize = 500
INVARIANTS SpendIsBounded OneLateOrder
PROPERTIES NothingIsLost PipelineEnds
