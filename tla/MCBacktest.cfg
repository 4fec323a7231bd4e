SPECIFICATION Spec
CONSTANTS
  Kinds <- KindsDef
  Configs <- ConfigsDef
  MaxMatches = 3
  Sims = 3
  WinCounts = {1, 3}
  FixedStake = 2
  Initial = 20
  PctNum = 1
  PctDen = 4
  MaxOrder = 4
  MinSize = 5
INVARIANTS Books LogTellsTheWalk
PROPERTIES LargestSeasonWindow WalkEnds
