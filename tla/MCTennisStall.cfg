\* Two players who always hold and never break.
CONSTANTS
  SetsToWin = 2
  GamesPerSet = 6
  GameMargin = 2
  TiebreakAtGamesEach = 6
  TiebreakPointsToWin = 7
  TiebreakPointMargin = 2
  FinalSetTiebreakPointsToWin = 10
  Hold <- Always
  Break <- Never
  Tokens <- MCTokens
SPECIFICATION FairSpec
PROPERTY MatchEnds
