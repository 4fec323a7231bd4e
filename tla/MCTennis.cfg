\* Women's Grand Slam format: best of three, a ten-point tiebreak in the
\* deciding set.
CONSTANTS
  SetsToWin = 2
  GamesPerSet = 6
  GameMargin = 2
  TiebreakAtGamesEach = 6
  TiebreakPointsToWin = 7
  TiebreakPointMargin = 2
  FinalSetTiebreakPointsToWin = 10
  Hold <- Even
  Break <- Even
  Tokens <- MCTokens
SPECIFICATION FairSpec
INVARIANTS
  ServerAlternates
  LegalSets
  TiebreakServesFair
  HydrationFaithful
PROPERTIES
  MatchEnds
